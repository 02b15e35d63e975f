------------------------------ MODULE Payload ------------------------------
(***************************************************************************)
(* The message inside an utterance, found by rule (crates/parlad/src/      *)
(* payload.rs): once the intent is known, the words of the request around  *)
(* the message are cut away, and None means that a model has to be asked.  *)
(*                                                                         *)
(* A word is a record: what it is matched by, and the punctuation it ends  *)
(* in.  Case and punctuation inside words are left out.                    *)
(***************************************************************************)
EXTENDS Naturals, SequencesExt

NoMessage == <<>>

POLITE_PREFIXES ==
  {<<"please">>, <<"hey">>} \cup {<<v, "you">> : v \in {"can", "could", "would", "will"}}

KEY_CUES ==
  {<<v>> : v \in {"hit", "press", "push", "send", "type", "do", "keys", "key"}}
    \cup {<<"the", "key">>}
NOTIFY_CUES ==
  {b \o t : b \in {<<"remind", "me", "on", "screen">>, <<"remind", "me">>, <<"notify", "me">>,
                   <<"make", "a", "note">>, <<"set", "a", "reminder">>},
            t \in {<<>>, <<"that">>, <<"to">>}}
    \cup {<<"notify">>, <<"note", "that">>, <<"note">>}
KRUNNER_CUES ==
  {<<v>> : v \in {"search", "locate", "where's", "run", "find", "krunner"}}
    \cup {<<"search", "for">>, <<"look", "up">>, <<"look", "for">>, <<"track", "down">>,
          <<"where", "is">>}
CLAUDE_CUES ==
  {b \o t : b \in {<<"tell", "claude">>, <<"ask", "claude">>},
            t \in {<<"code", "to">>, <<"code">>, <<"to">>, <<>>}}
    \cup {<<"say", "to", "claude">>, <<"have", "claude">>, <<"get", "claude", "to">>,
          <<"message", "claude", "that">>, <<"message", "claude">>,
          <<"claude,">>, <<"claude:">>}

Cues(intent) ==
  CASE intent = "key" -> KEY_CUES
    [] intent = "notify" -> NOTIFY_CUES
    [] intent = "krunner" -> KRUNNER_CUES
    [] intent = "claude_tell" -> CLAUDE_CUES
    [] OTHER -> {}

INTRODUCERS ==
  {<<"saying">>, <<"that", "says">>, <<"which", "says">>, <<"that", "reads">>,
   <<"the", "message">>, <<"notification", "that", "says">>,
   <<"notification", "which", "says">>, <<"notification", "that">>,
   <<"notification", "saying">>}

SAYING == {<<"says">>, <<"saying">>, <<"reads">>}

NAME_INTRODUCERS == {<<"called">>, <<"named">>}
NAMED_THINGS == {"file", "document", "folder", "app", "application", "program", "thing",
                 "one", "something"}

\* word_key: the punctuation counts only where a cue asks for it.
Said(c, w) == c = w.is \/ (w.end \in {",", ":"} /\ c = w.is \o w.end)

\* starts_with_phrase
Starts(words, phrase) ==
  Len(phrase) <= Len(words) /\ \A i \in DOMAIN phrase : Said(phrase[i], words[i])

From(words, i) == SubSeq(words, i, Len(words))

\* A plausible slip: the phrases tried shortest first.
Shortest(phrases) == CHOOSE p \in phrases : \A q \in phrases : Len(p) <= Len(q)

Longest(phrases) == CHOOSE p \in phrases : \A q \in phrases : Len(q) <= Len(p)

Leading(words, phrases) == {p \in phrases : Starts(words, p)}

\* strip_leading, where one of the phrases is there to strip.
StripLeading(words, phrases) == From(words, Len(Longest(Leading(words, phrases))) + 1)

\* strip_leading_all
StripLeadingAll(words, phrases) ==
  LET strip[n \in 0 .. Len(words)] ==
        IF n = 0 THEN words
        ELSE LET w == strip[n - 1]
             IN IF Leading(w, phrases) = {} THEN w ELSE StripLeading(w, phrases)
  IN strip[Len(words)]

EndsWith(words, phrases) ==
  \E p \in phrases : /\ Len(p) <= Len(words)
                     /\ Starts(From(words, Len(words) - Len(p) + 1), p)

\* after_introducer, over what is left behind each phrase at each place: the
\* first place, and there the longest phrase, that leaves something.
AfterIntroducer(words, phrases) ==
  LET left(i, p) == StripLeadingAll(From(words, i + Len(p)), SAYING)
      at(i) == {p \in Leading(From(words, i), phrases) : left(i, p) # <<>>}
      places == {i \in DOMAIN words : at(i) # {}}
  IN IF places = {} THEN NoMessage
     ELSE LET i == CHOOSE n \in places : \A m \in places : n <= m
          IN left(i, Longest(at(i)))

AfterNameIntroducer(words) ==
  LET left(i) == StripLeading(From(words, i), NAME_INTRODUCERS)
      places == {i \in 2 .. Len(words) :
                   /\ words[i - 1].is \in NAMED_THINGS /\ words[i - 1].end \notin {",", ":"}
                   /\ Leading(From(words, i), NAME_INTRODUCERS) # {}
                   /\ left(i) # <<>>}
  IN IF places = {} THEN NoMessage
     ELSE left(CHOOSE n \in places : \A m \in places : n <= m)

IsPlease(w) == w.is = "please" /\ w.end \notin {",", ":"}

\* A plausible slip: one "please" is dropped, not every one.
DropOnePlease(words) ==
  IF words # <<>> /\ IsPlease(Last(words)) THEN Front(words) ELSE words

DropTrailingPlease(words) ==
  LET kept == {i \in DOMAIN words : ~IsPlease(words[i])}
  IN SubSeq(words, 1, IF kept = {} THEN 0 ELSE CHOOSE n \in kept : \A m \in kept : m <= n)

\* join: a comma left behind by a dropped "please" goes too.
Join(words) ==
  IF words # <<>> /\ Last(words).end \in {",", ";"}
  THEN Append(Front(words), [Last(words) EXCEPT !.end = ""]) ELSE words

\* The utterance split at its first colon between words: no colon, or the
\* words before it, which lose the colon, and those after it.
AtColon(utterance) ==
  LET colons == {i \in 1 .. Len(utterance) - 1 : utterance[i].end = ":"}
  IN IF colons = {} THEN [head |-> <<>>, after |-> <<>>]
     ELSE LET i == CHOOSE n \in colons : \A m \in colons : n <= m
          IN [head |-> [SubSeq(utterance, 1, i) EXCEPT ![i].end = ""],
              after |-> DropTrailingPlease(From(utterance, i + 1))]

IfAny(message, otherwise) == IF message # NoMessage THEN message ELSE otherwise

\* What is left of the request behind its cue, behind an introducer, or behind
\* the colon, in this order.
Uncued(intent, words, quoted) ==
  IF Leading(words, Cues(intent)) # {} THEN StripLeading(words, Cues(intent))
  ELSE IfAny(IF intent \in {"notify", "claude_tell"} THEN AfterIntroducer(words, INTRODUCERS)
             ELSE NoMessage,
             quoted)

\* What to search for is the name alone, where one is given.
Named(intent, rest) ==
  IfAny(IF intent = "krunner" THEN AfterNameIntroducer(rest) ELSE NoMessage, rest)

StripCue(intent, utterance) ==
  LET colon == AtColon(utterance)
      quoted == IF intent = "key" THEN <<>> ELSE colon.after
      words == StripLeadingAll(DropTrailingPlease(utterance), POLITE_PREFIXES)
  IN CASE Cues(intent) = {} -> NoMessage
       [] quoted # <<>> /\ EndsWith(colon.head, Cues(intent) \cup INTRODUCERS) -> Join(quoted)
       [] OTHER -> Join(Named(intent, Uncued(intent, words, quoted)))
-----------------------------------------------------------------------------
Please == [is |-> "please", end |-> ""]

\* The message is what was said, from some word on, without the politeness at
\* its end.
AsItWasSaid(intent, utterance) ==
  LET message == StripCue(intent, utterance)
      said == DropTrailingPlease(utterance)
  IN message = NoMessage \/ \E i \in DOMAIN said : message = Join(From(said, i))

\* Where no colon says where it begins, it begins after the longest cue.
BehindItsCue(intent, utterance) ==
  LET words == StripLeadingAll(DropTrailingPlease(utterance), POLITE_PREFIXES)
  IN AtColon(utterance).after = <<>> =>
       \A cue \in Leading(words, Cues(intent)) :
         Len(StripCue(intent, utterance)) <= Len(words) - Len(cue)

\* And politeness around the request changes nothing.
MessageAsSpoken(intent, utterance) ==
  LET message == StripCue(intent, utterance)
  IN /\ AsItWasSaid(intent, utterance) /\ BehindItsCue(intent, utterance)
     /\ StripCue(intent, <<Please>> \o utterance) = message
     /\ StripCue(intent, utterance \o <<Please, Please>>) = message
=============================================================================
