------------------------------- MODULE Chords -------------------------------
(***************************************************************************)
(* Key chords, from spoken words to key events.  The judged path reads the *)
(* words (crates/grammar/src/chord.rs); the grammar passes them on as they *)
(* are; the injector reads what either says (crates/desktopd/src/injector/ *)
(* mod.rs) and ydotool presses it (ydotool.rs).  A chord in text, with its *)
(* keys joined by "+", is the sequence of its keys; the comma, the         *)
(* semicolon and the backtick go by their names.                           *)
(***************************************************************************)
EXTENDS Naturals, SequencesExt

NoChord == <<>>

FILLER == {"a", "an", "the", "plus", "and", "then"}
MODIFIERS == {"ctrl", "shift", "alt", "altgr", "meta"}
TRAILING == {"key", "keys", "keystroke", "button", "chord", "combination"}
Arrows == {"up", "down", "left", "right"}
Letters == {"a", "b", "c", "d", "e", "f", "g", "h", "i", "j", "k", "l", "m", "n", "o", "p",
            "q", "r", "s", "t", "u", "v", "w", "x", "y", "z"}
Figures == {"0", "1", "2", "3", "4", "5", "6", "7", "8", "9"}
FKeys == {"f1", "f2", "f3", "f4", "f5", "f6", "f7", "f8", "f9", "f10", "f11", "f12"}

\* Keys that go by their own name, and those that go by another.
Plain == {"ctrl", "shift", "alt", "altgr", "meta", "enter", "escape", "tab", "space",
          "backspace", "delete", "insert", "home", "end", "pageup", "pagedown"} \cup Arrows
KEYS ==
  [control |-> "ctrl", ctl |-> "ctrl", option |-> "alt", super |-> "meta", win |-> "meta",
   windows |-> "meta", command |-> "meta", cmd |-> "meta", return |-> "enter",
   esc |-> "escape", spacebar |-> "space", del |-> "delete", minus |-> "-", dash |-> "-",
   hyphen |-> "-", equals |-> "=", equal |-> "=", plus |-> "=", comma |-> "comma",
   period |-> ".", dot |-> ".", slash |-> "/", semicolon |-> "semicolon",
   apostrophe |-> "'", grave |-> "grave", backtick |-> "grave", backslash |-> "\\"]

\* The words that are one figure; those from ten to twelve only number a
\* function key.
DIGITS ==
  [zero |-> "0", one |-> "1", two |-> "2", three |-> "3", four |-> "4", five |-> "5",
   six |-> "6", seven |-> "7", eight |-> "8", nine |-> "9"]

\* The function key of a number, in figures or as a word.
FunctionKey(number) ==
  CASE number \in {"1", "one"} -> "f1"    [] number \in {"2", "two"} -> "f2"
    [] number \in {"3", "three"} -> "f3"  [] number \in {"4", "four"} -> "f4"
    [] number \in {"5", "five"} -> "f5"   [] number \in {"6", "six"} -> "f6"
    [] number \in {"7", "seven"} -> "f7"  [] number \in {"8", "eight"} -> "f8"
    [] number \in {"9", "nine"} -> "f9"   [] number \in {"10", "ten"} -> "f10"
    [] number \in {"11", "eleven"} -> "f11" [] number \in {"12", "twelve"} -> "f12"
    [] OTHER -> "none"

\* The number that is joined to an "f" as one word.
AfterF ==
  [f1 |-> "1", f2 |-> "2", f3 |-> "3", f4 |-> "4", f5 |-> "5", f6 |-> "6", f7 |-> "7",
   f8 |-> "8", f9 |-> "9", f10 |-> "10", f11 |-> "11", f12 |-> "12",
   fone |-> "one", ftwo |-> "two", fthree |-> "three", ffour |-> "four", ffive |-> "five",
   fsix |-> "six", fseven |-> "seven", feight |-> "eight", fnine |-> "nine", ften |-> "ten",
   feleven |-> "eleven", ftwelve |-> "twelve"]

\* key: the name of the key that a word stands for, or "none".
KeyOf(w) ==
  CASE w \in Plain -> w
    [] w \in DOMAIN KEYS -> KEYS[w]
    [] w \in DOMAIN AfterF -> FunctionKey(AfterF[w])
    [] w \in DOMAIN DIGITS -> DIGITS[w]
    [] w \in Letters \cup Figures -> w
    [] OTHER -> "none"

IsKey(w) == KeyOf(w) # "none"

WithoutTrailing(words) ==
  LET kept == {i \in DOMAIN words : words[i] \notin TRAILING}
  IN SubSeq(words, 1, IF kept = {} THEN 0 ELSE CHOOSE n \in kept : \A m \in kept : m <= n)

\* What the word at i is, with the word after it: how many words, and the key,
\* or "" for filler.
Read(words, i) ==
  LET w == words[i]
      next == IF i < Len(words) THEN words[i + 1] ELSE ""
  IN CASE w \in FILLER /\ (\E j \in i + 1 .. Len(words) : IsKey(words[j])) ->
            [took |-> 1, key |-> ""]
       [] w = "page" /\ next = "up" -> [took |-> 2, key |-> "pageup"]
       [] w = "page" /\ next = "down" -> [took |-> 2, key |-> "pagedown"]
       [] w = "f" /\ FunctionKey(next) # "none" -> [took |-> 2, key |-> FunctionKey(next)]
       [] w \in Arrows /\ next \in {"arrow", "key"} -> [took |-> 2, key |-> w]
       [] OTHER -> [took |-> 1, key |-> KeyOf(w)]

\* One more key before those already parted.
Parted(key, keys) ==
  CASE key = "" -> keys
    [] key \in MODIFIERS -> [keys EXCEPT !.modifiers = <<key>> \o @]
    [] OTHER -> [keys EXCEPT !.rest = <<key>> \o @]

\* The keys of the words from the first on, the modifiers apart from the rest;
\* "none" for a word that is not a key.
KeysRead(words) ==
  LET read[i \in 1 .. Len(words) + 2] ==
        IF i > Len(words) THEN [modifiers |-> <<>>, rest |-> <<>>]
        ELSE Parted(Read(words, i).key, read[i + Read(words, i).took])
  IN read[1]

\* A plausible slip: the parts the other way round.
RestFirst(spoken) ==
  LET keys == KeysRead(WithoutTrailing(spoken))
  IN IF "none" \in Range(keys.rest) \/ keys.rest = <<>> THEN NoChord
     ELSE keys.rest \o keys.modifiers

SpokenChord(spoken) ==
  LET keys == KeysRead(WithoutTrailing(spoken))
  IN IF "none" \in Range(keys.rest) \/ keys.rest = <<>> THEN NoChord
     ELSE keys.modifiers \o keys.rest

-----------------------------------------------------------------------------
\* The injector's side.

\* normalize_chord, over the names it knows and any other word.
NameOf(k) ==
  CASE k \in {"control", "ctl"} -> "ctrl"
    [] k \in {"super", "win", "windows", "meta"} -> "meta"
    [] k = "return" -> "enter"
    [] k \in {"escape", "esc"} -> "escape"
    [] k \in {"delete", "del"} -> "delete"
    [] OTHER -> k

NormalizeChord(chord) == [i \in DOMAIN chord |-> NameOf(chord[i])]

\* keycode: a code is called by the key's name, or by its character where that
\* is another name of the key; "none" when there is no code.
Signs == [minus |-> "-", equal |-> "=", period |-> ".", slash |-> "/", apostrophe |-> "'",
          leftbrace |-> "[", rightbrace |-> "]", backslash |-> "\\"]
Keycode(key) ==
  CASE key \in DOMAIN Signs -> Signs[key]
    [] key \in Plain \cup Letters \cup Figures \cup FKeys -> key
    [] key \in {"-", "=", ".", "/", "'", "[", "]", "\\", "comma", "semicolon", "grave"} -> key
    [] OTHER -> "none"

\* chord_events: the keys in order, then their releases in reverse; nothing
\* at all when one of them has no code.
ChordEvents(keys) ==
  IF \A i \in DOMAIN keys : Keycode(keys[i]) # "none"
  THEN [i \in DOMAIN keys |-> [key |-> Keycode(keys[i]), down |-> TRUE]]
         \o [i \in DOMAIN keys |-> [key |-> Keycode(Reverse(keys)[i]), down |-> FALSE]]
  ELSE <<>>

\* YdotoolInjector::key_chord
Pressed(chord) == ChordEvents(NormalizeChord(chord))
-----------------------------------------------------------------------------
KeysDown(events) ==
  {e.key : e \in {events[i] : i \in {j \in DOMAIN events : events[j].down}}}

\* Whatever words are read as a chord can be pressed: every key has a code, no
\* modifier goes down after another key, and everything that went down goes up
\* again, the last one first.
ReadsWhatItPresses(words) ==
  LET chord == SpokenChord(words)
      events == Pressed(chord)
      n == Len(chord)
  IN chord # NoChord =>
       /\ Len(events) = 2 * n
       /\ \A i \in 1 .. n : /\ events[i].down /\ ~events[2 * n + 1 - i].down
                           /\ events[i].key = events[2 * n + 1 - i].key
       /\ \A i, j \in 1 .. n : events[i].key \in MODIFIERS /\ i > j => events[j].key \in MODIFIERS
       /\ events[n].key \notin MODIFIERS

\* The grammar passes the words of a chord on as they were said.  Where they
\* can be pressed as they are, with no filler among them and no "f" that is
\* said apart from its figure ("f 5" is F and 5 to the injector, and F5 to the
\* judged path), the judged path holds the same keys down.
BothPathsPressAlike(words) ==
  LET grammar == Pressed(words)
      judged == Pressed(SpokenChord(words))
  IN /\ grammar # <<>> /\ judged # <<>>
     /\ \A i \in DOMAIN words : words[i] \notin FILLER \cup TRAILING
     /\ \A i \in 1 .. Len(words) - 1 :
          words[i] = "f" => words[i + 1] \notin Figures \ {"0"}
     => KeysDown(grammar) = KeysDown(judged)
=============================================================================
