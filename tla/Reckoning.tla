----------------------------- MODULE Reckoning -----------------------------
(***************************************************************************)
(* What the pure algorithms promise of an input, whatever one is given.     *)
(***************************************************************************)
EXTENDS Payload, Chords, Grammar, Judging, Matching, Calibration, Prose,
        Places

\* One input to one of the algorithms.
VARIABLE given

Of(algorithm) == given.of = algorithm
The == given.input

\* The thresholds that it is calibrated with, and what is in the store when a
\* dictation is cleaned up.
Hundredths == [min |-> 10, act |-> 20, destructive |-> 50, dictation |-> 50]
StoreWith(replacements) ==
  [replacements |-> replacements, snippets |-> <<[trigger |-> <<"c">>, text |-> <<"a">>]>>,
   apps |-> <<[class |-> {<<"k">>}, code |-> TRUE, cleanup |-> FALSE]>>]

\* A message is passed on as it was said, whichever path finds it: by a cue
\* (payload.rs) or as the capture of a rule (grammar, lib.rs); and a dictation
\* is typed as it was said, with or without the cleanup model (flow.rs).
WordsAsSaid == /\ Of("payload") => MessageAsSpoken(The.intent, The.said)
               /\ Of("grammar") => CapturesAsSaid(The)
               /\ Of("prose") => TypedAsSaid(StoreWith(The.replacements), The)

\* No built-in rule is hidden by an earlier one (builtin.rs), and a name finds
\* the window or the application it is nearest to, whatever is listed first
\* (windows.rs, desktop.rs), which is opened once (launcher.rs).
FindsWhatWasNamed ==
  /\ Of("grammar") => NothingShadowed(The)
  /\ Of("window") => WindowMeant(The.windows, The.query)
  /\ Of("dirs") => HiddenStaysHidden(The)
  /\ Of("sentence") => ListedWhenNamed(The.entries, The.words, 2)
  /\ Of("launch") => OpenedOnce([class |-> <<"kate">>], The.windows, The.focus_if_running, The.script)

\* Every chord that is read from speech can be pressed, and the grammar and the
\* judged path press the same keys (chord.rs, injector/mod.rs, ydotool.rs).
ChordsArePressed == Of("chord") => ReadsWhatItPresses(The) /\ BothPathsPressAlike(The)

\* What the second round asks is what the build reads, and enough for it
\* (judge.rs); and nothing runs unasked on an answer that is missing, doubtful
\* or invented (policy.rs).
AnswersDecide ==
  Of("judging") =>
    LET asked == Asked(The.cand, The.resp)
        it == Compose(The.cand, The.resp)
    IN /\ AsksWhatItReads(The.cand, The.resp, asked, it)
       /\ RunsOnlyWhatWasAnswered(The.policy, The.cand, The.resp, asked, it)

\* An evaluation with its retries is over in time and gives up no sooner than
\* it must (typesafe.rs).
RetriesEnd == Of("retries") => RetriesInTime(The.script, The.timeout, The.initial)

\* A scratch deletes the text itself or the closest thing to it (a11y.rs), and a
\* correction pass learns nothing but the word that was respelled (router.rs and
\* learned.rs).
TextFoundAgain ==
  /\ Of("suffix") => SuffixIsClosest(The.before, The.expected)
  /\ Of("field") => LearnsOnlyRespellings(The.field, The.typed, The.edit)

\* The calibration counts no act right that was not asked for, and suggests
\* thresholds that no others beat (calibrate.rs).
AdviceIsSound ==
  /\ Of("case") => RightActsAreAskedFor(The.case, The.it, The.dictation, Hundredths)
  /\ Of("corpus") => SuggestsTheBestPair(The, Hundredths)
  /\ Of("signal") => SuggestsWhatSeparates(The)
=============================================================================
