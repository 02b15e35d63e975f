----------------------------- MODULE MCInjection -----------------------------
(***************************************************************************)
(* Injection for TLC: a keyboard with a Shift and a Control key, and two    *)
(* keys that change places between the two layouts of one keymap and have   *)
(* one layout in the other.                                                 *)
(***************************************************************************)
EXTENDS Injection, TLC

AllKeys  == 1 .. 4
Letters  == {"a", "q", "A", "e'"}
Bytewise == [c \in Letters |-> IF c = "e'" THEN 4 ELSE 1]

\* Keys 1 and 2 are Shift and Control; keys 3 and 4 follow the layout.
Mods == <<<<<<"shift">>>>, <<<<"ctrl">>>>>>
Maps == {Mods \o <<<<<<"a", "A">>, <<"q">>>>, <<<<"q">>, <<"a", "A">>>>>>,
         Mods \o <<<<<<"q">>>>, <<<<"a">>>>>>}

Text(t)  == [is |-> "type", text |-> t, keys |-> <<>>]
Chord(k) == [is |-> "chord", text |-> <<>>, keys |-> k]
Commands == {Text(<<"A", "e'">>), Chord(<<"ctrl", "a">>)}
Preferred  == <<"eis", "ydotool">>
=============================================================================
