------------------------------ MODULE Grammar ------------------------------
(***************************************************************************)
(* The fast path: ordered rules over the words of an utterance, first      *)
(* match wins (crates/grammar/src).  An utterance is a sequence of         *)
(* fragments, as whitespace separates them; a fragment is the sequence of  *)
(* its words, of which "e-mail" has two and a dash none.  A capture keeps  *)
(* the fragments as they were said.                                        *)
(***************************************************************************)
EXTENDS Naturals, SequencesExt

NoIntent == [name |-> "none"]

-----------------------------------------------------------------------------
\* The rules.  A rule without a slot has "" for it, one without a limit on its
\* capture has Unlimited.

Unlimited == 1000
APP_CAP == 6
SEARCH_CAP == 8

Bare(prefix, intent) == [prefix |-> prefix, slot |-> "", intent |-> intent, max |-> Unlimited,
                         delta |-> 0]
Taking(prefix, slot, max, intent) == [Bare(prefix, intent) EXCEPT !.slot = slot, !.max = max]
Moving(prefix, delta) == [Bare(prefix, "virtual_desktop_rel") EXCEPT !.delta = delta]

Replies ==
  [i \in 1 .. 13 |->
     Bare(<<<<"yes">>, <<"yes", "please">>, <<"yeah">>, <<"yep">>, <<"confirm">>, <<"do", "it">>,
            <<"go", "ahead">>, <<"no">>, <<"nope">>, <<"cancel">>, <<"stop">>,
            <<"never", "mind">>, <<"nevermind">>>>[i], IF i <= 7 THEN "confirm" ELSE "deny")]
Scratches ==
  [i \in 1 .. 5 |-> Bare(<<<<"scratch", "that">>, <<"delete", "that">>, <<"undo", "that">>,
                           <<"undo">>, <<"erase", "that">>>>[i], "scratch_that")]
RULES ==
  Replies \o Scratches \o
  <<Bare(<<"open", "terminal">>, "open_terminal"), Bare(<<"open", "konsole">>, "open_terminal"),
    Taking(<<"start", "claude", "with">>, "model", Unlimited, "start_claude"),
    Taking(<<"start", "claude", "code", "with">>, "model", Unlimited, "start_claude"),
    Bare(<<"start", "claude", "code">>, "start_claude"),
    Bare(<<"start", "claude">>, "start_claude"),
    Taking(<<"claude", "model">>, "model", Unlimited, "claude_model"),
    Taking(<<"switch", "claude", "to">>, "model", Unlimited, "claude_model"),
    Taking(<<"switch", "claude", "model", "to">>, "model", Unlimited, "claude_model"),
    Taking(<<"set", "claude", "model", "to">>, "model", Unlimited, "claude_model"),
    Taking(<<"tell", "claude", "code">>, "text", Unlimited, "claude_tell"),
    Taking(<<"tell", "claude">>, "text", Unlimited, "claude_tell"),
    Taking(<<"ask", "claude">>, "text", Unlimited, "claude_tell"),
    Bare(<<"what", "did", "claude", "say">>, "claude_read"),
    Bare(<<"read", "claude">>, "claude_read"), Bare(<<"claude", "status">>, "claude_read"),
    Moving(<<"next", "desktop">>, 1), Moving(<<"previous", "desktop">>, -1),
    Taking(<<"desktop">>, "n", Unlimited, "virtual_desktop"),
    Taking(<<"go", "to", "desktop">>, "n", Unlimited, "virtual_desktop"),
    Taking(<<"switch", "to", "desktop">>, "n", Unlimited, "virtual_desktop"),
    Taking(<<"virtual", "desktop">>, "n", Unlimited, "virtual_desktop"),
    Bare(<<"close", "window">>, "close_window"),
    Bare(<<"close", "the", "window">>, "close_window"),
    Bare(<<"minimize", "the", "window">>, "minimize_window"),
    Bare(<<"minimize", "window">>, "minimize_window"),
    Bare(<<"maximize", "the", "window">>, "maximize_window"),
    Bare(<<"maximize", "window">>, "maximize_window"),
    Taking(<<"close">>, "query", APP_CAP, "close_window"),
    Taking(<<"minimize">>, "query", APP_CAP, "minimize_window"),
    Taking(<<"maximize">>, "query", APP_CAP, "maximize_window"),
    Taking(<<"focus">>, "query", APP_CAP, "focus_window"),
    Taking(<<"switch", "to">>, "query", APP_CAP, "focus_window"),
    Taking(<<"launch">>, "query", APP_CAP, "launch_app"),
    Taking(<<"open">>, "query", APP_CAP, "launch_app"),
    Taking(<<"start">>, "query", APP_CAP, "launch_app"),
    Taking(<<"search", "for">>, "query", SEARCH_CAP, "krunner"),
    Taking(<<"search">>, "query", SEARCH_CAP, "krunner"),
    Taking(<<"find">>, "query", SEARCH_CAP, "krunner"),
    Taking(<<"notify">>, "text", Unlimited, "notify"),
    Taking(<<"press">>, "chord", 3, "key"), Taking(<<"key">>, "chord", 3, "key")>>

-----------------------------------------------------------------------------
\* The words.

NUMBER_WORDS ==
  [one |-> 1, two |-> 2, three |-> 3, four |-> 4, five |-> 5, six |-> 6, seven |-> 7,
   eight |-> 8, nine |-> 9, ten |-> 10, eleven |-> 11, twelve |-> 12, thirteen |-> 13,
   fourteen |-> 14, fifteen |-> 15, sixteen |-> 16, seventeen |-> 17, eighteen |-> 18,
   nineteen |-> 19, twenty |-> 20]

\* Numbers as they are parsed, up to the last that has a word.
Numerals ==
  NUMBER_WORDS @@ [w \in {ToString(n) : n \in 0 .. 20} |->
                     CHOOSE n \in 0 .. 20 : ToString(n) = w]

\* words_with_spans: each word with its fragment, and whether that ends there.
Mapped(utterance) ==
  FlattenSeq([f \in DOMAIN utterance |->
    [w \in DOMAIN utterance[f] |->
       [is |-> utterance[f][w], fragment |-> f, place |-> w,
        ends |-> w = Len(utterance[f])]]])

\* normalize
Normalized(fragments) == FlattenSeq(fragments)

\* clean_model_name: "claude" in front of another word goes.
CleanModelName(words) ==
  LET named(i) == words[i] # "claude" \/ i = Len(words)
  IN FoldLeftDomain(LAMBDA name, i : IF named(i) THEN Append(name, words[i]) ELSE name,
                    <<>>, words)

-----------------------------------------------------------------------------
\* match_utterance and the rest of parse.

Matches(rule, words) ==
  LET n == Len(rule.prefix)
  IN /\ IsPrefix(rule.prefix, words)
     /\ IF rule.slot = "" THEN Len(words) = n ELSE Len(words) - n \in 1 .. rule.max

\* A plausible slip: a capture begins with the next fragment, always.
FromNextFragment(utterance, n) ==
  SubSeq(utterance, IF n = 0 THEN 1 ELSE Mapped(utterance)[n].fragment + 1, Len(utterance))

\* What was said after the first n words: the rest of their fragment, if it
\* has one, and all that follows.
After(utterance, n) ==
  LET last == Mapped(utterance)[n]
      rest == SubSeq(utterance, last.fragment + 1, Len(utterance))
  IN IF n = 0 THEN utterance
     ELSE IF last.ends THEN rest
     ELSE <<SubSeq(utterance[last.fragment], last.place + 1, Len(utterance[last.fragment]))>>
            \o rest

\* build_intent_from_raw, from_args: the intent with its argument, or NoIntent
\* where a number was wanted and is not there.
Built(rule, capture) ==
  LET words == Normalized(capture)
  IN CASE rule.slot = "" -> [name |-> rule.intent, said |-> <<>>, n |-> rule.delta]
       [] rule.slot = "n" ->
            IF Len(words) = 1 /\ words[1] \in DOMAIN Numerals
            THEN [name |-> rule.intent, said |-> <<>>, n |-> Numerals[words[1]]]
            ELSE NoIntent
       [] rule.slot = "model" ->
            [name |-> rule.intent, said |-> <<CleanModelName(words)>>, n |-> 0]
       [] rule.slot = "chord" -> [name |-> rule.intent, said |-> <<words>>, n |-> 0]
       [] OTHER -> [name |-> rule.intent, said |-> capture, n |-> 0]

ByRule(rule, utterance, words) ==
  IF Matches(rule, words)
  THEN Built(rule, IF rule.slot = "" THEN <<>> ELSE After(utterance, Len(rule.prefix)))
  ELSE NoIntent

\* A plausible slip: a rule is there, but the one that takes any words is first.
WithGenericFirst(rules, utterance) ==
  LET generic == Taking(<<"start">>, "query", APP_CAP, "launch_app")
      words == Normalized(utterance)
      built == SelectSeq(<<generic>> \o rules, LAMBDA r : ByRule(r, utterance, words) # NoIntent)
  IN IF built = <<>> THEN NoIntent ELSE ByRule(built[1], utterance, words)

\* The first rule that matches and can be built; custom rules come first.
Parse(rules, utterance) ==
  LET words == Normalized(utterance)
      built == {i \in DOMAIN rules : ByRule(rules[i], utterance, words) # NoIntent}
  IN IF built = {} THEN NoIntent
     ELSE ByRule(rules[CHOOSE i \in built : \A j \in built : i <= j], utterance, words)
-----------------------------------------------------------------------------
\* The order of the rules hides none of them: of the rules that could take an
\* utterance, the one that says most of it does ("start claude with" is never
\* taken for an app to start).
NothingShadowed(utterance) ==
  LET words == Normalized(utterance)
      takers == {r \in Range(RULES) : ByRule(r, utterance, words) # NoIntent}
      taken == Parse(RULES, utterance)
  IN IF takers = {} THEN taken = NoIntent
     ELSE \E r \in takers : /\ taken = ByRule(r, utterance, words)
                            /\ \A q \in takers : Len(q.prefix) <= Len(r.prefix)

\* A capture is the words after the prefix, every one of them, and as they
\* were said: whole fragments, but for the first, which may begin inside one.
CapturesAsSaid(utterance) ==
  LET words == Normalized(utterance)
  IN \A r \in {q \in Range(RULES) : Matches(q, words) /\ q.slot # ""} :
    LET n == Len(r.prefix)
        capture == After(utterance, n)
        f == Len(utterance) - Len(capture) + 1
    IN /\ Normalized(capture) = SubSeq(words, n + 1, Len(words))
       /\ IsSuffix(Head(capture), utterance[f])
       /\ Tail(capture) = SubSeq(utterance, f + 1, Len(utterance))
=============================================================================
