---------------------------- MODULE MCReckoning ----------------------------
(***************************************************************************)
(* Reckoning over bounded inputs: each state is one input to one of the     *)
(* algorithms.                                                             *)
(***************************************************************************)
EXTENDS Reckoning

Init == given = [of |-> "none"]

NothingYet == given.of = "none"
Give(of, input) == given' = [of |-> of, input |-> input]

-----------------------------------------------------------------------------
\* Payload: utterances of phrases, which cues, introducers and colons end.

Plainly(words) == [i \in DOMAIN words |-> [is |-> words[i], end |-> ""]]
Ending(words, end) == [Plainly(words) EXCEPT ![Len(words)].end = end]
Phrases ==
  {Plainly(<<"remind", "me">>), Plainly(<<"to">>), Plainly(<<"search", "for">>),
   Plainly(<<"search">>), Plainly(<<"tell", "claude">>), Ending(<<"claude">>, ":"),
   Ending(<<"claude">>, ","), Plainly(<<"saying">>), Plainly(<<"that", "says">>),
   Plainly(<<"the", "file">>), Plainly(<<"called">>), Plainly(<<"can", "you">>),
   Plainly(<<"milk">>), Ending(<<"milk">>, ","), Ending(<<"milk">>, ":"), Plainly(<<"please">>)}

GivePayload ==
  NothingYet /\ \E intent \in {"notify", "krunner", "claude_tell"}, u \in SeqOf(Phrases, 3) :
    Give("payload", [intent |-> intent, said |-> FlattenSeq(u)])

\* Chords: words that name keys, that fill, that trail, and that do neither.
ChordWords ==
  {"control", "shift", "option", "s", "a", "f", "five", "plus", "page", "down", "arrow", "key",
   "escape", "the", "f5", "5", "minus", "backtick", "any"}

GiveChord ==
  NothingYet /\ \E words \in SeqOf(ChordWords, 3) : Give("chord", words)

\* Grammar: the prefix of each rule with up to two words behind it, said apart,
\* or two of them in one fragment ("e-mail"), or with a dash between them.
Tails == {"claude", "code", "opus", "desktop", "two", "the"}
Spoken(words) ==
  LET apart == [i \in DOMAIN words |-> <<words[i]>>]
      joined(i) == SubSeq(apart, 1, i - 1) \o <<<<words[i], words[i + 1]>>>>
                     \o SubSeq(apart, i + 2, Len(words))
      dashed(i) == SubSeq(apart, 1, i) \o <<<<>>>> \o SubSeq(apart, i + 1, Len(words))
      near == {i \in 1 .. Len(words) - 1 : i >= Len(words) - 2}
  IN {apart} \cup {joined(i) : i \in near} \cup {dashed(i) : i \in near}

GiveGrammar ==
  NothingYet /\ \E prefix \in {r.prefix : r \in Range(RULES)}, tail \in SeqOf(Tails, 2) :
    \E u \in Spoken(prefix \o tail) : Give("grammar", u)

\* Judging: utterances that carry a message after a cue or without one, a
\* desktop with a window listed twice and an app that has two entries.
Spoke == {Plainly(<<"tell", "claude", "hi">>), Plainly(<<"claude", "hi">>),
          Plainly(<<"press", "control", "s">>), Plainly(<<"control", "s">>)}
Surroundings ==
  [utterance : Spoke, apps : {<<[id |-> "a1", name |-> "kate"], [id |-> "a2", name |-> "kate"],
                               [id |-> "a3", name |-> "dolphin"]>>},
   windows : {<<[id |-> "w1", title |-> "notes"], [id |-> "w1", title |-> "notes"],
               [id |-> "w2", title |-> "mail"]>>},
   desktop_count : {2}, last_dictation : BOOLEAN]
Levels == 0 .. 2
TestPolicy == [min |-> 1, act |-> 2, destructive |-> 1, dictation |-> 1]

Choice(options, ps) ==
  [type : {"choice"}, key : options \cup {Option("invented")}, p : ps, text : {NoAnswer}]
Nouls == [type : {"noul"}, p : Levels]
AnyOf(cand, id) ==
  {<<>>} \cup {(id :> a) : a \in Nouls \cup (IF id = "is_destructive" THEN Choice({}, {2})
                                           ELSE Choice(Options(cand, id), Levels))}
Dictations ==
  {<<>>} \cup {("is_dictation" :> [type |-> "choice", key |-> Option("command"), p |-> 2,
                                   text |-> t]) : t \in {NoAnswer, 0, 1}}

GiveJudging ==
  NothingYet /\ \E ctx \in Surroundings :
    LET cand == Candidates(ctx.utterance, ctx)
    IN \E intent \in {<<>>} \cup {("intent" :> a) : a \in Choice({Option(x) : x \in Actions}
                                                                \cup {NO_TARGET}, {1, 2})},
          dictation \in Dictations :
         LET asked == Asked(cand, intent)
         IN \E argument \in IF asked \ {"intent", "is_dictation", "is_destructive"} = {} THEN {<<>>}
                            ELSE AnyOf(cand, CHOOSE id \in asked \ (FirstRound \cup {"is_destructive"}) : TRUE),
               risk \in IF "is_destructive" \in asked THEN AnyOf(cand, "is_destructive") ELSE {<<>>} :
              Give("judging", [policy |-> TestPolicy, cand |-> cand,
                               resp |-> intent @@ dictation @@ argument @@ risk])

\* The client: what each attempt comes to, and in how long.
Attempt == [is : {"ok", "refused", "down"}, took : {0, 1, 3}, retry_after : {NoAnswer}]
             \cup [is : {"busy"}, took : {0, 1}, retry_after : {NoAnswer, 0, 2, 5}]
GiveRetries ==
  NothingYet /\ \E script \in [1 .. MAX_ATTEMPTS -> Attempt], timeout \in {3, 7} :
    Give("retries", [script |-> script, timeout |-> timeout, initial |-> 1])

\* Matching: every short end of a field, against every short text.
GiveSuffix ==
  NothingYet /\ \E before \in SeqOf({"a", "b"}, 7), n \in {1, 4, 5} : \E expected \in [1 .. n -> {"a", "b"}] :
    Give("suffix", [before |-> before, expected |-> expected])

\* Fields of words, and edits: words taken out of the front, letters put in or
\* taken out anywhere in front of the text, a word put in the place of another.
Words == {<<"a", "b", "c">>, <<"a", "b", "d">>, <<"x", "y", "z", "y">>}
Text(words) == FlattenSeq([i \in DOMAIN words |-> Append(words[i], Space)])
GiveField ==
  NothingYet /\ \E before \in SeqOf(Words, 3), after \in {<<>>, <<<<"a", "b", "d">>>>},
     typed \in {<<v>> : v \in Words} \cup {<<v, <<"a", "b", "c">>>> : v \in Words} :
    LET ahead == Text(before)
        said == Text(typed)
        all == before \o typed \o after
        behind == SubSeq(Text(all), Len(ahead \o said), Len(Text(all)))
        word(i) == [from |-> Len(Text(SubSeq(all, 1, i - 1))),
                    to |-> Len(Text(SubSeq(all, 1, i))) - 1]
    IN \E edit \in [from : {0, 1}, to : {n \in 1 .. 3 : n <= Len(ahead)},
                    by : {<<>>, <<"q">>, <<"q", Space>>}]
                  \cup {word(i) @@ [by |-> w] : i \in DOMAIN all, w \in Words} :
         Give("field", [field |-> [before |-> ahead, after |-> behind],
                        typed |-> SubSeq(said, 1, Len(said) - 1), edit |-> edit])

\* Calibration: what may be built of a case, sure or not, prose or not.
Built1(name, confidence, dictation) ==
  [Intent(name) EXCEPT !.confidence = confidence, !.destructive = 0, !.dictation = dictation]
BuiltOf(confidence, dictation) ==
  {Unclear, Built1("minimize_window", confidence, dictation), Built1("open_terminal", confidence, dictation)}
    \cup {[Built1(name, confidence, dictation) EXCEPT !.query = "my notes", !.window_id = id] :
            name \in {"focus_window", "minimize_window"}, id \in {"w1", "w2"}}
    \cup {[Built1("notify", confidence, dictation) EXCEPT !.words = Plainly(words)] :
            words \in {<<"to", "buy", "milk">>, <<"buy", "milk">>, <<"milk">>}}
Cases ==
  {case \in [say : {<<"that">>}, expect : {"dictation", "unclear", "show_app", "notify", "edit_text"},
             accept : {{}, {"minimize_window"}}, desktop : {0}, direction : {""}, model : {""},
             payload : {<<>>, <<"buy", "milk">>}, last_dictation : {FALSE},
             target : [text : {"", "focused", "w2"}, part_of : {{}}]
                        \cup {[text |-> "notes", part_of |-> {"notes", "my notes"}]}] :
     GoodCase(case)}
GiveCase ==
  NothingYet /\ \E case \in Cases, confidence \in {15, 25}, dictation \in {NoAnswer, 1, 60} :
    \E it \in BuiltOf(confidence, dictation) :
      Give("case", [case |-> case, it |-> it, dictation |-> dictation])

\* Corpora of three outcomes, right or wrong, of every confidence the grid
\* tells apart.
Outcomes ==
  {[case |-> [expect |-> expect], it |-> it, dictation |-> 0, intent_ok |-> right,
    args_ok |-> TRUE, target_ok |-> ""] :
     expect \in {"krunner", "unclear"}, right \in BOOLEAN,
     it \in {Built1("krunner", confidence, 0) : confidence \in {3, 7, 12, 22}}}
GiveCorpus ==
  NothingYet /\ \E outcomes \in [1 .. 3 -> Outcomes] : Give("corpus", outcomes)

GiveSignal ==
  NothingYet /\ \E judged \in SeqOf([p : {3, 7, 12, 16, 22}, is : BOOLEAN], 3) : Give("signal", judged)

\* Prose: transcripts of phrases, letters and punctuation with nothing around
\* them; texts on either side of the cursor; answers of the model; words that
\* are replaced; and a snippet, a verb and a window without cleanup.
Verbs == {<<<<"b">>>>}
Raw == [is |-> "off"]
Texts(chars, n) == SeqOf(chars, n)
Whole(t) == \A i \in 1 .. Len(t) - 1 : ~({t[i], t[i + 1]} \subseteq {NewLine, NewParagraph})
Replacements == {<<[spoken |-> from, written |-> to]>> :
                   from \in {<<"a">>, <<"a", "b">>, <<"a", "-", "b">>},
                   to \in {<<>>, <<"c">>, <<"c", ",", "c">>}}
Dictated ==
  [transcript : {t \in Texts({"a", " ", ",", NewLine, NewParagraph}, 5) : Whole(t)},
   class : {<<>>}, model : {Raw}, ctx : {NoContext}, replacements : {<<>>}]
  \cup [transcript : Texts({"a", "c", "-", "("}, 2) \cup {<<"b", " ", "c", ".">>},
        class : {<<>>, <<"x", "k">>}, model : {Raw, [is |-> "text", text |-> <<"a">>]},
        ctx : [before : Texts({"a", " ", "(", "-", ","}, 1), after : Texts({"a", " ", "(", ","}, 1)],
        replacements : {<<>>}]
  \cup [transcript : {<<"a">>, <<"\"", "a">>, <<"b", " ", "a">>}, class : {<<>>},
        model : [is : {"text"}, text : Texts({"a", " ", Break, "\""}, 5)],
        ctx : {NoContext}, replacements : {<<>>}]
  \cup [transcript : Texts({"a", "b", "-"}, 5), class : {<<>>}, model : {Raw},
        ctx : {NoContext}, replacements : Replacements]
GiveProse == NothingYet /\ \E said \in Dictated : Give("prose", said)

\* Places: three windows on every order of the stack, and a name that some of
\* them have exactly, or all by some likeness; two directories of entries;
\* sentences with names in them; and every way the launchers may go.
Stacks == Permutations(1 .. 3) \cup {[i \in 1 .. 3 |-> 0]}
Apps == {<<"kate">>, <<"kate", "part">>, <<"fox">>}
WindowOf(id, kind, stacking) ==
  kind @@ [id |-> id, name |-> kind.class, stacking |-> stacking]
GiveWindows ==
  NothingYet /\ \E stack \in Stacks,
     kinds \in [1 .. 3 -> [class : Apps, title : {<<"x">>}, fuzzy : {30, 45, 55, 56}, normal : {TRUE}]]
                \cup [1 .. 3 -> [class : Apps, title : {<<"kate">>, <<"x">>}, fuzzy : {45},
                                normal : BOOLEAN]] :
    Give("window", [windows |-> [i \in 1 .. 3 |-> WindowOf(i, kinds[i], stack[i])],
                    query |-> IF kinds[1].title = <<"x">> /\ kinds[1].fuzzy # 45 THEN <<"moz">>
                              ELSE <<"kate">>])

DesktopFiles == [id : 1 .. 2, hidden : BOOLEAN, type : {"Application"}, runnable : {TRUE},
                 named : BOOLEAN]
GiveDirs ==
  NothingYet /\ \E dirs \in [1 .. 2 -> SeqOf(DesktopFiles, 2)] : Give("dirs", dirs)

Entries == {[names |-> {<<"fire", "fox">>}, fuzzy |-> 50], [names |-> {<<"fox">>, <<"code">>}, fuzzy |-> 0],
            [names |-> {<<"code", " ", "fire">>}, fuzzy |-> 50]}
GiveSentence ==
  NothingYet /\ \E entries \in [1 .. 3 -> Entries],
     words \in SeqOf({<<"fire">>, <<"fox">>, <<"code">>, <<"for">>, <<"me">>, <<"up">>}, 3) :
    Give("sentence", [entries |-> [i \in 1 .. 3 |-> entries[i] @@ [id |-> i]], words |-> words])

GiveLaunch ==
  NothingYet /\ \E script \in [kioclient : {"works", "fails", "missing", "hangs"},
                              gtk_launch : {"works", "fails", "missing", "hangs"},
                              systemd_run : {"works", "fails", "hangs"},
                              exec : {<<>>, <<"kate">>}, activates : BOOLEAN],
                   classes \in SeqOf(Apps, 2), focus_if_running \in BOOLEAN :
    Give("launch", [script |-> script, focus_if_running |-> focus_if_running,
                    windows |-> [i \in DOMAIN classes |->
                       WindowOf(i, [class |-> classes[i], title |-> <<"x">>, normal |-> TRUE], i)]])

Next ==
  \/ GivePayload \/ GiveChord \/ GiveGrammar \/ GiveJudging \/ GiveRetries
  \/ GiveSuffix \/ GiveField \/ GiveCase \/ GiveCorpus \/ GiveSignal
  \/ GiveProse \/ GiveWindows \/ GiveDirs \/ GiveSentence \/ GiveLaunch

Spec == Init /\ [][Next]_given
=============================================================================
