------------------------------ MODULE Commands ------------------------------
(***************************************************************************)
(* The command path of parlad's router (router.rs), with the policy that    *)
(* gates it (policy.rs) and the command parked behind a prompt              *)
(* (confirm.rs).  The worker hears one utterance after the other; between   *)
(* two awaits windows open, close and change what a phrase means, the       *)
(* confirm window elapses, and the user goes on speaking.                   *)
(*                                                                         *)
(* What an utterance says is chosen when it is transcribed.  A spoken       *)
(* description of a window ("konsole", or nothing for the focused one) is   *)
(* a phrase; the fuzzy match, the stacking order and the focus are folded   *)
(* into what it denotes at the moment.  Scratch and edit are not here.      *)
(***************************************************************************)
EXTENDS Naturals, FiniteSets

CONSTANTS Window,     \* KWin's window ids
          Phrase,     \* descriptions of a window, the focused one included
          None,       \* no window, no target
          MaxUtt      \* utterances in a behaviour (bounds the model)

ASSUME CommandsAssumption == /\ MaxUtt \in Nat \ {0}
                             /\ Window \cap Phrase = {}
                             /\ None \notin Window \cup Phrase

Utt    == 1 .. MaxUtt
Target == Phrase \cup Window \cup {None}

\* One command for each way of being gated: closing a window and pressing a
\* chord always ask, focusing a window never does, a KRunner search is judged.
Op       == {"close", "press", "focus", "search"}
OnWindow == {"close", "focus"}
NeedsConfirmation(op) == op \in {"close", "press"}

VARIABLES spoken,     \* utterances recorded so far
          current,    \* the last one the worker took
          phase,      \* where the worker is suspended
          hand,       \* the command it works on
          picked,     \* the window that command will touch
          listed,     \* the windows in the judge's snapshot
          slot,       \* the parked command
          late,       \* its deadline has passed
          open,       \* the windows on the desktop
          closed,     \* ids of windows that are gone; KWin never reuses one
          means       \* the window each phrase denotes at the moment

\* History: the prompt that was up when each utterance was recorded, which
\* utterances reached the command path, what each prompt said, what was done.
VARIABLES seen, routed, prompts, acts

workerVars  == <<current, phase, hand, picked, listed>>
slotVars    == <<slot, late>>
desktopVars == <<open, closed, means>>
userVars    == <<spoken, seen>>
vars == <<userVars, workerVars, slotVars, desktopVars, routed, prompts, acts>>

Phases == {"idle", "looking", "judging", "asking", "checking", "executing", "acting"}

\* A command with the prompt it was confirmed from, 0 for none, and the window
\* that prompt named.
Nothing == [op |-> "none", target |-> None, asker |-> 0, named |-> None]
Command == [op : Op, target : Target, asker : 0 .. MaxUtt, named : Window \cup {None}]
NoPrompt == [op |-> "none", win |-> None]
Prompt  == [op : Op, win : Window \cup {None}]
Act     == [utt : Utt, asker : 0 .. MaxUtt, op : Op, win : Window \cup {None}]

TypeOK == /\ spoken \in 0 .. MaxUtt /\ current \in 0 .. spoken
          /\ phase \in Phases
          /\ hand \in Command \cup {Nothing} /\ slot \in Command \cup {Nothing}
          /\ picked \in Window \cup {None}
          /\ listed \subseteq Window
          /\ late \in BOOLEAN
          /\ open \subseteq Window /\ closed \subseteq Window
          /\ means \in [Phrase -> Window \cup {None}]
          /\ seen \in [Utt -> 0 .. MaxUtt] /\ routed \subseteq Utt
          /\ prompts \in [Utt -> Prompt \cup {NoPrompt}]
          /\ acts \subseteq Act
-----------------------------------------------------------------------------
(* The policy. *)

\* A judged command comes with the judge's confidence below the floor, below
\* what it takes to act unasked, or above; and with what it said of risk and of
\* dictation, if it said anything.
Answer  == {"unsaid", "no", "yes"}
Grammar == [path |-> "grammar", confidence |-> "high", destructive |-> "no", dictation |-> "no"]
Judged  == [path : {"judged"}, confidence : {"low", "middling", "high"},
            destructive : Answer, dictation : Answer]

\* The judge asks about risk only where the intent does not settle it.
SignalsFor(op) ==
  {s \in Judged : s.destructive \in IF op = "search" THEN Answer
                                    ELSE IF NeedsConfirmation(op) THEN {"unsaid"} ELSE {"no"}}

Refused(s) == s.path = "judged" /\ (s.dictation = "yes" \/ s.confidence = "low")
Doubtful(s) == s.path = "judged" /\ \/ s.destructive # "no"
                                    \/ s.dictation = "unsaid"
                                    \/ s.confidence = "middling"

DecideGrammarActs(op, s) ==                                        \* mutant
  IF Refused(s) THEN "refuse"
  ELSE IF s.path = "judged" /\ (NeedsConfirmation(op) \/ Doubtful(s)) THEN "confirm" ELSE "act"
Decide(op, s) == IF Refused(s) THEN "refuse"
                 ELSE IF NeedsConfirmation(op) \/ Doubtful(s) THEN "confirm" ELSE "act"
-----------------------------------------------------------------------------
(* Building blocks. *)

\* The window a target denotes right now; an id that is gone denotes none.
Resolve(t) == IF t \in Phrase THEN means[t] ELSE IF t \in open THEN t ELSE None

\* Which targets a command of this kind may have.
TargetsOf(op, S) == IF op \in OnWindow THEN S ELSE {None}

\* The worker is done with the utterance.
Finished == phase' = "idle" /\ hand' = Nothing /\ picked' = None /\ listed' = {}

\* The next utterance reaches the command path.
Hears == /\ phase = "idle" /\ current < spoken
         /\ current' = current + 1
         /\ routed' = routed \cup {current + 1}

\* Whatever was parked is dropped: the user has moved on.
MovesOnKeeps == UNCHANGED slot                                     \* mutant
MovesOn == slot' = Nothing

\* The policy's gate.
Dispatch(op, t, s) ==
  \/ /\ Decide(op, s) = "refuse" /\ Finished
  \/ /\ Decide(op, s) # "refuse"
     /\ phase' = IF Decide(op, s) = "act" THEN "executing" ELSE "asking"
     /\ hand' = [op |-> op, target |-> t, asker |-> 0, named |-> None]
     /\ picked' = None /\ listed' = {}
-----------------------------------------------------------------------------
(* The user and the desktop. *)

\* A key goes up after speaking, with a prompt on the screen or not.
Speaks ==
  /\ spoken < MaxUtt        \* bounds the model
  /\ spoken' = spoken + 1
  /\ seen' = [seen EXCEPT ![spoken + 1] = slot.asker]
  /\ UNCHANGED <<workerVars, slotVars, desktopVars, routed, prompts, acts>>

\* Windows open and close, focus, titles and stacking change.
DesktopChanges ==
  /\ \E S \in SUBSET (Window \ closed) :
       /\ open' = S /\ closed' = closed \cup (open \ S)
       /\ means' \in [Phrase -> S \cup {None}]
  /\ UNCHANGED <<userVars, workerVars, slotVars, routed, prompts, acts>>

\* The parked command's deadline passes.
WindowElapses ==
  /\ slot # Nothing /\ ~late
  /\ late' = TRUE
  /\ UNCHANGED <<userVars, workerVars, slot, desktopVars, routed, prompts, acts>>
-----------------------------------------------------------------------------
(* The worker. *)

\* An utterance that does not reach the command path: dictation, silence, a
\* locked session.  What is parked stays.
PassedOver ==
  /\ phase = "idle" /\ current < spoken
  /\ current' = current + 1
  /\ UNCHANGED <<userVars, phase, hand, picked, listed, slotVars, desktopVars,
                 routed, prompts, acts>>

\* "Yes": the parked command is taken, and used if it is still in time.
LiveAlways == slot # Nothing                                       \* mutant
Live == slot # Nothing /\ ~late

HearsYes ==
  /\ Hears
  /\ slot' = Nothing
  /\ \/ /\ ~Live /\ Finished
     \/ /\ Live
        /\ phase' = IF slot.op \in OnWindow THEN "checking" ELSE "executing"
        /\ hand' = slot /\ UNCHANGED <<picked, listed>>
  /\ UNCHANGED <<userVars, late, desktopVars, prompts, acts>>

\* "No": the parked command is dropped.
HearsNo ==
  /\ Hears /\ slot' = Nothing /\ Finished
  /\ UNCHANGED <<userVars, late, desktopVars, prompts, acts>>

\* A phrase of the grammar.
HearsCommand(op) ==
  /\ Hears /\ MovesOn
  /\ \E t \in TargetsOf(op, Phrase) : Dispatch(op, t, Grammar)
  /\ UNCHANGED <<userVars, late, desktopVars, prompts, acts>>

\* Scratch, or a phrase nobody knows while the judged path is off.
HearsOther ==
  /\ Hears /\ MovesOn /\ Finished
  /\ UNCHANGED <<userVars, late, desktopVars, prompts, acts>>

\* Anything else is for the judge.
HearsFreely ==
  /\ Hears /\ MovesOn
  /\ phase' = "looking" /\ UNCHANGED <<hand, picked, listed>>
  /\ UNCHANGED <<userVars, late, desktopVars, prompts, acts>>

\* The snapshot: the windows the judge may choose from.
Looks ==
  /\ phase = "looking"
  /\ phase' = "judging" /\ listed' = open
  /\ UNCHANGED <<userVars, current, hand, picked, slotVars, desktopVars,
                 routed, prompts, acts>>

\* The verdict names a window of the snapshot, the focused one, or a program.
Judges(op) ==
  /\ phase = "judging"
  /\ \E t \in TargetsOf(op, listed \cup Phrase), s \in SignalsFor(op) : Dispatch(op, t, s)
  /\ UNCHANGED <<userVars, current, slotVars, desktopVars, routed, prompts, acts>>

\* The target is resolved for the prompt, and the command parked.
ArmedAsSpoken(w) == [hand EXCEPT !.asker = current, !.named = hand.target]  \* mutant
Armed(w) == [hand EXCEPT !.asker = current, !.named = w]

Asks ==
  /\ phase = "asking"
  /\ hand.op \in OnWindow => Resolve(hand.target) # None
  /\ slot' = Armed(Resolve(hand.target)) /\ late' = FALSE
  /\ prompts' = [prompts EXCEPT ![current] = [op |-> hand.op, win |-> Resolve(hand.target)]]
  /\ Finished
  /\ UNCHANGED <<userVars, current, desktopVars, routed, acts>>

\* After a yes the target is resolved again and must be the window the prompt
\* named; its id replaces the target.
SameWindowAny(w) == w # None                                       \* mutant
SameWindow(w) == w = hand.named

Checks ==
  /\ phase = "checking"
  /\ SameWindow(Resolve(hand.target))
  /\ phase' = "executing"
  /\ hand' = [hand EXCEPT !.target = Resolve(hand.target)]
  /\ UNCHANGED <<userVars, current, picked, listed, slotVars, desktopVars,
                 routed, prompts, acts>>

Done(w) == [utt |-> current, asker |-> hand.asker, op |-> hand.op, win |-> w]

\* A command without a window is carried out; one on a window resolves it.
Executes ==
  /\ phase = "executing"
  /\ \/ /\ hand.op \notin OnWindow
        /\ acts' = acts \cup {Done(None)} /\ Finished
     \/ /\ hand.op \in OnWindow /\ Resolve(hand.target) # None
        /\ picked' = Resolve(hand.target) /\ phase' = "acting"
        /\ UNCHANGED <<hand, listed, acts>>
  /\ UNCHANGED <<userVars, current, slotVars, desktopVars, routed, prompts>>

\* KWin is told the window's id; a window that has closed is beyond reach.
Acts ==
  /\ phase = "acting" /\ picked \in open
  /\ acts' = acts \cup {Done(picked)} /\ Finished
  /\ UNCHANGED <<userVars, current, slotVars, desktopVars, routed, prompts>>

\* Any await may fail; the judge may find no command; the window may be gone
\* or another one.
ComesToNothing ==
  /\ phase # "idle" /\ Finished
  /\ UNCHANGED <<userVars, current, slotVars, desktopVars, routed, prompts, acts>>
-----------------------------------------------------------------------------
Init ==
  /\ spoken = 0 /\ current = 0 /\ phase = "idle"
  /\ hand = Nothing /\ picked = None /\ listed = {}
  /\ slot = Nothing /\ late = FALSE
  /\ open \in SUBSET Window /\ closed = {}
  /\ means \in [Phrase -> open \cup {None}]
  /\ seen = [u \in Utt |-> 0] /\ routed = {}
  /\ prompts = [u \in Utt |-> NoPrompt] /\ acts = {}

Next == \/ Speaks \/ DesktopChanges \/ WindowElapses
        \/ PassedOver \/ HearsYes \/ HearsNo \/ HearsOther \/ HearsFreely
        \/ \E op \in Op : HearsCommand(op) \/ Judges(op)
        \/ Looks \/ Asks \/ Checks \/ Executes \/ Acts \/ ComesToNothing

Spec == Init /\ [][Next]_vars
-----------------------------------------------------------------------------
(* Properties. *)

\* What always asks is never carried out without a yes, from either path
\* (Router::dispatch is the only gate, router.rs:471).
RiskyOnlyAsked == \A a \in acts : NeedsConfirmation(a.op) => a.asker # 0

\* A confirmed act is the one its prompt named, on the window it named, however
\* windows came, went and changed names in between (ask, confirm, check_target).
AsNamed ==
  \A a \in acts : a.asker # 0 => prompts[a.asker] = [op |-> a.op, win |-> a.win]

\* A prompt is answered by the next utterance that reaches the command path, or
\* never: whatever else is said drops it (route_command, router.rs:331).
NextReplyDecides ==
  \A a \in acts : a.asker # 0 =>
    /\ a.asker < a.utt
    /\ \A u \in routed : ~(a.asker < u /\ u < a.utt)

\* What became of the prompt that u raised.
PromptOf(u) ==
  IF prompts[u] = NoPrompt THEN "none"
  ELSE IF slot.asker = u THEN IF late THEN "lapsed" ELSE "asked"
  ELSE IF hand.asker = u THEN "granted"
  ELSE IF \E a \in acts : a.asker = u THEN "carriedOut"
  ELSE "dropped"

promptOf == [u \in Utt |-> PromptOf(u)]

Promise == INSTANCE Consent WITH prompt <- promptOf

\* One prompt at a time, never carried out after it lapsed, never twice: the
\* router implements Consent.
KeepsConsent == Promise!Spec
=============================================================================
