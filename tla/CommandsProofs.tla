--------------------------- MODULE CommandsProofs ---------------------------
(***************************************************************************)
(* Proofs about Commands, for every set of windows and phrases and every    *)
(* number of utterances; and about what becomes of an utterance before it   *)
(* is one of its commands, for every input: the evaluation with its retries *)
(* (Judging), the message (Payload), the intent and the decision (Judging), *)
(* the keys of a chord (Chords), and what a calibration advises of the      *)
(* thresholds (Calibration).                                                *)
(***************************************************************************)
EXTENDS Commands, Reckoning, SequenceTheorems, FiniteSetTheorems,
        WellFoundedInduction, NaturalsInduction, TLAPS

\* While the worker is busy nothing is parked, and the utterance it is busy
\* with has raised no prompt.
Busy == phase # "idle" => /\ slot = Nothing
                          /\ current \in Utt
                          /\ prompts[current] = NoPrompt

\* What the worker has in hand, phase by phase.
InHand == /\ hand = Nothing <=> phase \in {"idle", "looking", "judging"}
          /\ hand.op \notin OnWindow => hand.target = None
          /\ phase = "asking" => hand.asker = 0
          /\ phase = "checking" => hand.op \in OnWindow /\ hand.asker # 0
          /\ phase = "acting" => hand.op \in OnWindow
          /\ phase \in {"executing", "acting"} /\ NeedsConfirmation(hand.op) => hand.asker # 0

\* A command with a prompt is what the prompt said, and has not been done.
Prompted(p) == /\ p.op \in Op
               /\ p.asker \in Utt
               /\ prompts[p.asker] = [op |-> p.op, win |-> p.named]
               /\ IF p.op \in OnWindow THEN p.named \in Window ELSE p.named = None /\ p.target = None
               /\ \A a \in acts : a.asker # p.asker

\* No command has been heard since the parked one.
InSlot == slot # Nothing => /\ Prompted(slot)
                            /\ slot.asker <= current
                            /\ \A u \in routed : u <= slot.asker

\* Nor between a confirmed one and its yes.  Once checked, it is pinned to the
\* window that its prompt named.
Confirmed == hand.asker # 0 =>
  /\ Prompted(hand)
  /\ hand.asker < current
  /\ \A u \in routed : ~(hand.asker < u /\ u < current)
  /\ phase \in {"executing", "acting"} /\ hand.op \in OnWindow => hand.target = hand.named
  /\ phase = "acting" => picked = hand.named

\* Nothing is known of utterances that have not been heard.
Unheard == /\ \A u \in routed : u <= current
           /\ \A u \in Utt : u > current => prompts[u] = NoPrompt
           /\ \A a \in acts : a.utt <= current

\* The properties of Commands that speak of what has been done.
Deeds == RiskyOnlyAsked /\ AsNamed /\ NextReplyDecides

Core == Busy /\ InHand /\ InSlot /\ Confirmed /\ Unheard /\ Deeds
Inv  == TypeOK /\ Core
-----------------------------------------------------------------------------
(* Types. *)

\* The gate leaves the worker idle, or with a command in hand.
LEMMA GateTyped ==
  ASSUME NEW op \in Op, NEW t \in TargetsOf(op, Phrase \cup Window), NEW s, Dispatch(op, t, s)
  PROVE  /\ phase' \in Phases /\ hand' \in Command \cup {Nothing}
         /\ picked' = None /\ listed' = {}
<1>1. t \in Target /\ 0 \in 0 .. MaxUtt
  BY CommandsAssumption DEF TargetsOf, Target
<1> QED BY <1>1 DEF Dispatch, Finished, Command, Phases

\* What a phrase or an id denotes is an open window, or none.
LEMMA Resolved == TypeOK => \A t : Resolve(t) \in Window \cup {None}
BY DEF TypeOK, Resolve

\* Types are kept.
LEMMA TypeKept == Inv /\ [Next]_vars => TypeOK'
<1> SUFFICES ASSUME Inv, [Next]_vars PROVE TypeOK'
  OBVIOUS
<1>0. TypeOK
  BY DEF Inv
<1> USE CommandsAssumption DEF userVars, workerVars, slotVars, desktopVars
<1>1. CASE Speaks
  <2>1. slot.asker \in 0 .. MaxUtt
    BY <1>0 DEF TypeOK, Command, Nothing
  <2>2. seen' \in [Utt -> 0 .. MaxUtt]
    BY <1>0, <1>1, <2>1 DEF Speaks, TypeOK
  <2> QED BY <1>0, <1>1, <2>2 DEF Speaks, TypeOK
<1>2. CASE DesktopChanges
  BY <1>0, <1>2 DEF DesktopChanges, TypeOK
<1>3. CASE WindowElapses
  BY <1>0, <1>3 DEF WindowElapses, TypeOK
<1>14. CASE PassedOver
  BY <1>0, <1>14 DEF PassedOver, TypeOK
<1>4. CASE HearsYes
  BY <1>0, <1>4 DEF HearsYes, Hears, Live, Finished, TypeOK, Phases, Utt
<1>5. CASE HearsNo
  BY <1>0, <1>5 DEF HearsNo, Hears, Finished, TypeOK, Phases, Utt
<1>15. CASE HearsOther
  BY <1>0, <1>15 DEF HearsOther, Hears, MovesOn, Finished, TypeOK, Phases, Utt
<1>6. CASE HearsFreely
  BY <1>0, <1>6 DEF HearsFreely, Hears, MovesOn, TypeOK, Phases, Utt
<1>7. ASSUME NEW op \in Op, HearsCommand(op) PROVE TypeOK'
  <2>1. PICK t \in TargetsOf(op, Phrase) : Dispatch(op, t, Grammar)
    BY <1>7 DEF HearsCommand
  <2>2. t \in TargetsOf(op, Phrase \cup Window)
    BY DEF TargetsOf
  <2>3. phase' \in Phases /\ hand' \in Command \cup {Nothing} /\ picked' = None /\ listed' = {}
    BY <2>1, <2>2, GateTyped
  <2> QED BY <1>0, <1>7, <2>3 DEF HearsCommand, Hears, MovesOn, TypeOK, Utt
<1>8. ASSUME NEW op \in Op, Judges(op) PROVE TypeOK'
  <2>1. PICK t \in TargetsOf(op, listed \cup Phrase), s \in SignalsFor(op) : Dispatch(op, t, s)
    BY <1>8 DEF Judges
  <2>2. t \in TargetsOf(op, Phrase \cup Window)
    BY <1>0 DEF TargetsOf, TypeOK
  <2>3. phase' \in Phases /\ hand' \in Command \cup {Nothing} /\ picked' = None /\ listed' = {}
    BY <2>1, <2>2, GateTyped
  <2> QED BY <1>0, <1>8, <2>3 DEF Judges, TypeOK
<1>9. CASE Looks \/ ComesToNothing
  BY <1>0, <1>9 DEF Looks, ComesToNothing, Finished, TypeOK, Phases
<1>10. CASE Asks
  <2> DEFINE w == Resolve(hand.target)
  <2>1. w \in Window \cup {None}
    BY <1>0, Resolved
  <2>2. current \in Utt /\ hand \in Command
    BY <1>0, <1>10 DEF Asks, Inv, Core, Busy, InHand, TypeOK
  <2>3. slot' = [op |-> hand.op, target |-> hand.target, asker |-> current, named |-> w]
    BY <1>10, <2>2 DEF Asks, Armed, Command
  <2>4. slot' \in Command
    BY <2>1, <2>2, <2>3 DEF Command, Utt
  <2>5. prompts' \in [Utt -> Prompt \cup {NoPrompt}]
    <3>1. [op |-> hand.op, win |-> w] \in Prompt
      BY <2>1, <2>2 DEF Prompt, Command
    <3> QED BY <1>0, <1>10, <3>1 DEF Asks, TypeOK
  <2> QED BY <1>0, <1>10, <2>4, <2>5 DEF Asks, Finished, TypeOK, Phases
<1>11. CASE Checks
  <2> DEFINE w == Resolve(hand.target)
  <2>1. w \in Window \cup {None}
    BY <1>0, Resolved
  <2>2. hand \in Command
    BY <1>0, <1>11 DEF Checks, Inv, Core, InHand, TypeOK
  <2>3. hand' = [op |-> hand.op, target |-> w, asker |-> hand.asker, named |-> hand.named]
    BY <1>11, <2>2 DEF Checks, Command
  <2>4. hand' \in Command
    BY <2>1, <2>2, <2>3 DEF Command, Target
  <2> QED BY <1>0, <1>11, <2>4 DEF Checks, TypeOK, Phases
<1>12. CASE Executes \/ Acts
  <2>1. current \in Utt /\ hand \in Command
    BY <1>0, <1>12 DEF Executes, Acts, Inv, Core, Busy, InHand, TypeOK
  <2>2. \A w \in Window \cup {None} : Done(w) \in Act
    BY <2>1 DEF Done, Act, Command
  <2>3. Resolve(hand.target) \in Window \cup {None}
    BY <1>0, Resolved
  <2>4. acts' \subseteq Act
    BY <1>0, <1>12, <2>2 DEF Executes, Acts, TypeOK
  <2> QED BY <1>0, <1>12, <2>3, <2>4 DEF Executes, Acts, Finished, TypeOK, Phases
<1>13. CASE UNCHANGED vars
  BY <1>0, <1>13 DEF vars, TypeOK
<1> QED BY <1>1, <1>2, <1>3, <1>4, <1>5, <1>6, <1>7, <1>8, <1>9, <1>10, <1>11, <1>12, <1>13,
          <1>14, <1>15 DEF Next
-----------------------------------------------------------------------------
(* The inductive step. *)

\* A step that leaves the worker and the parked command alone keeps it.
LEMMA StillKept ==
  Core /\ UNCHANGED <<workerVars, slot, routed, prompts, acts>> => Core'
BY DEF Core, Busy, InHand, InSlot, Confirmed, Unheard, Prompted, Deeds, RiskyOnlyAsked, AsNamed,
       NextReplyDecides, workerVars

\* What was done stays as it was when something new is heard.
LEMMA DeedsKept ==
  ASSUME Inv, Hears, UNCHANGED <<prompts, acts>> PROVE Deeds'
<1>1. \A a \in acts : a.utt \in Utt /\ a.utt <= current
  BY DEF Inv, Core, Unheard, TypeOK, Act
<1>2. current' = current + 1 /\ current \in 0 .. MaxUtt /\ routed' = routed \cup {current + 1}
  BY CommandsAssumption DEF Inv, TypeOK, Hears
<1>3. NextReplyDecides'
  <2> SUFFICES ASSUME NEW a \in acts, a.asker # 0, NEW u \in routed', a.asker < u, u < a.utt
               PROVE  u \in routed
    BY DEF Inv, Core, Deeds, NextReplyDecides
  <2> QED BY <1>1, <1>2 DEF Utt
<1> QED BY <1>3 DEF Inv, Core, Deeds, RiskyOnlyAsked, AsNamed

\* So does a command that is heard and takes nothing from the slot.
LEMMA HeardKept ==
  ASSUME Inv, Hears, slot' = Nothing, UNCHANGED <<spoken, prompts, acts>>,
         hand'.asker = 0, hand' = Nothing <=> phase' \in {"idle", "looking", "judging"},
         hand'.op \notin OnWindow => hand'.target = None,
         phase' \notin {"checking", "acting"},
         phase' = "executing" => ~NeedsConfirmation(hand'.op)
  PROVE  Core'
<1>1. current' \in Utt /\ current' = current + 1 /\ current \in 0 .. MaxUtt
  BY CommandsAssumption DEF Inv, TypeOK, Hears, Utt
<1>2. Busy' /\ InSlot'
  BY <1>1 DEF Inv, Core, Busy, InSlot, Unheard
<1>3. InHand' /\ Confirmed'
  BY DEF InHand, Confirmed
<1>4. Unheard'
  <2>1. \A u \in routed' : u <= current'
    BY <1>1 DEF Hears, Inv, Core, Unheard, TypeOK, Utt
  <2>2. \A u \in Utt : u > current' => prompts'[u] = NoPrompt
    BY <1>1 DEF Inv, Core, Unheard, TypeOK, Utt
  <2>3. \A a \in acts' : a.utt <= current'
    BY <1>1 DEF Inv, Core, Unheard, TypeOK, Act, Utt
  <2> QED BY <2>1, <2>2, <2>3 DEF Unheard
<1> QED BY <1>2, <1>3, <1>4, DeedsKept DEF Core

\* A yes that comes in time takes the parked command out of the slot.
LEMMA TakenKept ==
  ASSUME Inv, Hears, slot # Nothing, slot' = Nothing, hand' = slot,
         phase' = (IF slot.op \in OnWindow THEN "checking" ELSE "executing"),
         UNCHANGED <<spoken, prompts, acts>>
  PROVE  Core'
<1>1. current' \in Utt /\ current' = current + 1 /\ current \in 0 .. MaxUtt
  BY CommandsAssumption DEF Inv, TypeOK, Hears, Utt
<1>2. Prompted(slot) /\ slot.asker <= current /\ \A u \in routed : u <= slot.asker
  BY DEF Inv, Core, InSlot
<1>3. slot.op \in Op /\ slot.asker \in Utt /\ slot.asker # 0
  BY <1>2, CommandsAssumption DEF Prompted, Utt
<1>4. Busy' /\ InSlot'
  BY <1>1 DEF Inv, Core, Busy, InSlot, Unheard
<1>5. InHand'
  <2>1. hand' # Nothing
    OBVIOUS
  <2>2. hand'.op \notin OnWindow => hand'.target = None
    BY <1>2 DEF Prompted
  <2> QED BY <1>3, <2>1, <2>2 DEF InHand
<1>6. Confirmed'
  <2>1. Prompted(hand)'
    BY <1>2 DEF Prompted
  <2>2. hand'.asker < current'
    BY <1>1, <1>2, <1>3 DEF Utt
  <2>3. \A u \in routed' : ~(hand'.asker < u /\ u < current')
    BY <1>1, <1>2, <1>3 DEF Hears, Inv, TypeOK, Utt
  <2>4. phase' \in {"executing", "acting"} /\ hand'.op \in OnWindow => FALSE
    OBVIOUS
  <2> QED BY <2>1, <2>2, <2>3, <2>4 DEF Confirmed
<1>7. Unheard'
  <2>1. \A u \in routed' : u <= current'
    BY <1>1 DEF Hears, Inv, Core, Unheard, TypeOK, Utt
  <2>2. \A u \in Utt : u > current' => prompts'[u] = NoPrompt
    BY <1>1 DEF Inv, Core, Unheard, TypeOK, Utt
  <2>3. \A a \in acts' : a.utt <= current'
    BY <1>1 DEF Inv, Core, Unheard, TypeOK, Act, Utt
  <2> QED BY <2>1, <2>2, <2>3 DEF Unheard
<1> QED BY <1>4, <1>5, <1>6, <1>7, DeedsKept DEF Core

\* So does a worker that finishes without having done anything.
LEMMA FinishedKept ==
  ASSUME Inv, phase # "idle", Finished,
         UNCHANGED <<current, slot, routed, prompts, acts>>
  PROVE  Core'
BY DEF Inv, Core, Busy, InHand, InSlot, Confirmed, Unheard, Deeds, Finished, Nothing, OnWindow,
       RiskyOnlyAsked, AsNamed, NextReplyDecides

\* What is done is done by the utterance in hand, from its prompt if it has one,
\* on the window that the prompt named.
LEMMA DoneKept ==
  ASSUME Inv, phase \in {"executing", "acting"}, Finished, NEW w, acts' = acts \cup {Done(w)},
         IF hand.op \in OnWindow THEN phase = "acting" /\ w = picked ELSE w = None,
         UNCHANGED <<current, slot, routed, prompts>>
  PROVE  Core'
<1>1. current \in Utt /\ slot = Nothing
  BY DEF Inv, Core, Busy
<1>2. Busy' /\ InHand' /\ InSlot' /\ Confirmed'
  BY <1>1 DEF Busy, InHand, InSlot, Confirmed, Finished, Nothing, OnWindow
<1>3. Done(w).utt = current /\ Done(w).asker = hand.asker /\ Done(w).op = hand.op /\ Done(w).win = w
  BY DEF Done
<1>4. Unheard'
  <2>1. Done(w).utt <= current
    BY <1>1, <1>3 DEF Utt
  <2> QED BY <2>1 DEF Inv, Core, Unheard
<1>5. RiskyOnlyAsked'
  <2>1. NeedsConfirmation(hand.op) => hand.asker # 0
    BY DEF Inv, Core, InHand
  <2> QED BY <1>3, <2>1 DEF Inv, Core, Deeds, RiskyOnlyAsked
<1>6. AsNamed'
  <2>1. hand.asker # 0 => prompts[hand.asker] = [op |-> hand.op, win |-> w]
    BY DEF Inv, Core, Confirmed, Prompted
  <2> QED BY <1>3, <2>1 DEF Inv, Core, Deeds, AsNamed
<1>7. NextReplyDecides'
  <2>1. hand.asker # 0 => hand.asker < current /\ \A u \in routed : ~(hand.asker < u /\ u < current)
    BY DEF Inv, Core, Confirmed
  <2> QED BY <1>3, <2>1 DEF Inv, Core, Deeds, NextReplyDecides
<1> QED BY <1>2, <1>4, <1>5, <1>6, <1>7 DEF Core, Deeds

\* What the gate lets through unasked does not need to be asked.
LEMMA GateKept ==
  ASSUME NEW op \in Op, NEW S, NEW t \in TargetsOf(op, S), NEW s, Dispatch(op, t, s)
  PROVE  /\ hand'.asker = 0
         /\ hand' = Nothing <=> phase' = "idle"
         /\ hand'.op \notin OnWindow => hand'.target = None
         /\ phase' \in {"idle", "asking", "executing"}
         /\ phase' = "executing" => ~NeedsConfirmation(hand'.op)
<1>1. CASE Decide(op, s) = "refuse"
  BY <1>1 DEF Dispatch, Finished, Nothing
<1>2. CASE Decide(op, s) # "refuse"
  <2>1. hand' = [op |-> op, target |-> t, asker |-> 0, named |-> None]
    BY <1>2 DEF Dispatch
  <2>2. op # "none"
    BY DEF Op
  <2>3. hand' # Nothing
    BY <2>1, <2>2 DEF Nothing
  <2>4. op \notin OnWindow => t = None
    BY DEF TargetsOf
  <2>5. NeedsConfirmation(op) => Decide(op, s) # "act"
    BY DEF Decide
  <2> QED BY <1>2, <2>1, <2>3, <2>4, <2>5 DEF Dispatch
<1> QED BY <1>1, <1>2

\* Every step keeps it.
LEMMA CoreKept == Inv /\ [Next]_vars => Core'
<1> SUFFICES ASSUME Inv, [Next]_vars PROVE Core'
  OBVIOUS
<1> USE DEF userVars, slotVars
<1>1. CASE Speaks \/ DesktopChanges \/ WindowElapses \/ UNCHANGED vars
  BY <1>1, StillKept DEF Speaks, DesktopChanges, WindowElapses, vars, Inv, Core
<1>2. CASE PassedOver
  <2>1. current \in Nat /\ current' = current + 1
    BY <1>2, CommandsAssumption DEF PassedOver, Inv, TypeOK
  <2>2. phase = "idle" /\ hand = Nothing /\ hand.asker = 0
    BY <1>2 DEF PassedOver, Inv, Core, InHand, Nothing
  <2>3. Busy' /\ InHand' /\ Confirmed'
    BY <1>2, <2>2 DEF PassedOver, Busy, InHand, Confirmed, Inv, Core
  <2>4. InSlot'
    BY <1>2, <2>1, CommandsAssumption DEF PassedOver, Inv, Core, InSlot, Prompted, Utt
  <2>5. Unheard'
    <3>1. \A u \in routed' : u <= current'
      BY <1>2, <2>1, CommandsAssumption DEF PassedOver, Inv, Core, Unheard, TypeOK, Utt
    <3>2. \A u \in Utt : u > current' => prompts'[u] = NoPrompt
      BY <1>2, <2>1, CommandsAssumption DEF PassedOver, Inv, Core, Unheard, Utt
    <3>3. \A a \in acts' : a.utt <= current'
      BY <1>2, <2>1, CommandsAssumption DEF PassedOver, Inv, Core, Unheard, TypeOK, Act, Utt
    <3> QED BY <3>1, <3>2, <3>3 DEF Unheard
  <2>6. Deeds'
    BY <1>2 DEF PassedOver, Inv, Core, Deeds, RiskyOnlyAsked, AsNamed, NextReplyDecides
  <2> QED BY <2>3, <2>4, <2>5, <2>6 DEF Core
<1>3. CASE HearsYes
  <2>1. CASE ~Live
    BY <1>3, <2>1, HeardKept DEF HearsYes, Finished, Nothing
  <2>2. CASE Live
    BY <1>3, <2>2, TakenKept DEF HearsYes, Live
  <2> QED BY <2>1, <2>2
<1>4. CASE HearsNo \/ HearsOther
  BY <1>4, HeardKept DEF HearsNo, HearsOther, MovesOn, Finished, Nothing
<1>5. CASE HearsFreely
  <2>1. hand' = Nothing
    BY <1>5 DEF HearsFreely, Hears, Inv, Core, InHand
  <2> QED BY <1>5, <2>1, HeardKept DEF HearsFreely, MovesOn, Nothing
<1>6. ASSUME NEW op \in Op, HearsCommand(op) PROVE Core'
  <2>1. PICK t \in TargetsOf(op, Phrase) : Dispatch(op, t, Grammar)
    BY <1>6 DEF HearsCommand
  <2>2. /\ hand'.asker = 0
        /\ hand' = Nothing <=> phase' = "idle"
        /\ hand'.op \notin OnWindow => hand'.target = None
        /\ phase' \in {"idle", "asking", "executing"}
        /\ phase' = "executing" => ~NeedsConfirmation(hand'.op)
    BY <2>1, GateKept
  <2> QED BY <1>6, <2>2, HeardKept DEF HearsCommand, MovesOn
<1>7. ASSUME NEW op \in Op, Judges(op) PROVE Core'
  <2>1. PICK t \in TargetsOf(op, listed \cup Phrase), s \in SignalsFor(op) : Dispatch(op, t, s)
    BY <1>7 DEF Judges
  <2>2. /\ hand'.asker = 0
        /\ hand' = Nothing <=> phase' = "idle"
        /\ hand'.op \notin OnWindow => hand'.target = None
        /\ phase' \in {"idle", "asking", "executing"}
        /\ phase' = "executing" => ~NeedsConfirmation(hand'.op)
    BY <2>1, GateKept
  <2>3. Busy' /\ InSlot' /\ Unheard'
    BY <1>7 DEF Judges, Inv, Core, Busy, InSlot, Unheard
  <2>4. InHand' /\ Confirmed'
    BY <2>2 DEF InHand, Confirmed
  <2>5. Deeds'
    BY <1>7 DEF Judges, Inv, Core, Deeds, RiskyOnlyAsked, AsNamed, NextReplyDecides
  <2> QED BY <2>3, <2>4, <2>5 DEF Core
<1>8. CASE Looks
  BY <1>8 DEF Looks, Inv, Core, Busy, InHand, InSlot, Confirmed, Unheard, Nothing, Deeds,
              RiskyOnlyAsked, AsNamed, NextReplyDecides
<1>9. CASE Asks
  <2> DEFINE w == Resolve(hand.target)
  <2>1. /\ current \in Utt /\ hand \in Command /\ hand.asker = 0 /\ slot = Nothing
        /\ prompts[current] = NoPrompt
    BY <1>9 DEF Asks, Inv, Core, Busy, InHand, TypeOK
  <2>2. IF hand.op \in OnWindow THEN w \in Window ELSE w = None /\ hand.target = None
    <3>1. w \in Window \cup {None}
      BY Resolved DEF Inv
    <3>2. hand.op \notin OnWindow => hand.target = None
      BY DEF Inv, Core, InHand
    <3>3. Resolve(None) = None
      BY CommandsAssumption DEF Resolve, Inv, TypeOK
    <3> QED BY <1>9, <3>1, <3>2, <3>3 DEF Asks
  <2>3. slot' = [op |-> hand.op, target |-> hand.target, asker |-> current, named |-> w]
    BY <1>9, <2>1 DEF Asks, Armed, Command
  <2>4. prompts' = [prompts EXCEPT ![current] = [op |-> hand.op, win |-> w]]
    BY <1>9 DEF Asks
  <2>5. \A a \in acts : a.asker # 0 => a.asker # current /\ a.asker \in Utt
    <3> SUFFICES ASSUME NEW a \in acts, a.asker # 0
                 PROVE  a.asker # current /\ a.asker \in Utt
      OBVIOUS
    <3>1. prompts[a.asker] = [op |-> a.op, win |-> a.win]
      BY DEF Inv, Core, Deeds, AsNamed
    <3>2. a.op # "none" /\ a.asker \in Utt
      BY CommandsAssumption DEF Inv, TypeOK, Act, Op, Utt
    <3>3. prompts[a.asker] # NoPrompt
      BY <3>1, <3>2 DEF NoPrompt
    <3> QED BY <2>1, <3>2, <3>3
  <2>6. prompts \in [Utt -> Prompt \cup {NoPrompt}]
    BY DEF Inv, TypeOK
  <2>7. Busy' /\ InHand' /\ Confirmed'
    BY <1>9 DEF Asks, Finished, Busy, InHand, Confirmed, Nothing, OnWindow
  <2>8. InSlot'
    <3>1. slot'.op \in Op /\ slot'.asker = current
      BY <2>1, <2>3 DEF Command
    <3>2. prompts'[current] = [op |-> slot'.op, win |-> slot'.named]
      BY <2>1, <2>3, <2>4, <2>6
    <3>3. \A a \in acts' : a.asker # slot'.asker
      BY <1>9, <2>1, <2>5, <3>1, CommandsAssumption DEF Asks, Utt
    <3>4. Prompted(slot)'
      BY <2>1, <2>2, <2>3, <3>1, <3>2, <3>3 DEF Prompted
    <3>5. slot'.asker <= current' /\ \A u \in routed' : u <= slot'.asker
      BY <1>9, <2>1, <3>1 DEF Asks, Inv, Core, Unheard, Utt
    <3> QED BY <3>4, <3>5 DEF InSlot
  <2>9. Unheard'
    BY <1>9, <2>1, <2>4, <2>6 DEF Asks, Inv, Core, Unheard, Utt
  <2>10. Deeds'
    BY <1>9, <2>4, <2>5, <2>6 DEF Asks, Inv, Core, Deeds, RiskyOnlyAsked, AsNamed, NextReplyDecides
  <2> QED BY <2>7, <2>8, <2>9, <2>10 DEF Core
<1>10. CASE Checks
  <2> DEFINE w == Resolve(hand.target)
  <2>1. /\ current \in Utt /\ hand \in Command /\ slot = Nothing /\ hand.op \in OnWindow
        /\ w = hand.named
    BY <1>10 DEF Checks, SameWindow, Inv, Core, Busy, InHand, TypeOK
  <2>2. hand' = [op |-> hand.op, target |-> w, asker |-> hand.asker, named |-> hand.named]
    BY <1>10, <2>1 DEF Checks, Command
  <2>3. Busy' /\ InSlot' /\ Unheard' /\ Deeds'
    BY <1>10 DEF Checks, Inv, Core, Busy, InSlot, Unheard, Deeds, RiskyOnlyAsked, AsNamed,
                 NextReplyDecides
  <2>4. InHand'
    <3>1. hand' # Nothing
      BY <2>1, <2>2 DEF Command, Nothing, Op
    <3>2. hand.asker # 0
      BY <1>10 DEF Checks, Inv, Core, InHand
    <3> QED BY <1>10, <2>1, <2>2, <3>1, <3>2 DEF Checks, InHand
  <2>5. Confirmed'
    <3>1. hand.asker # 0 => Prompted(hand)'
      BY <1>10, <2>1, <2>2 DEF Checks, Inv, Core, Confirmed, Prompted
    <3> QED BY <1>10, <2>1, <2>2, <3>1 DEF Checks, Inv, Core, Confirmed
  <2> QED BY <2>3, <2>4, <2>5 DEF Core
<1>11. CASE Executes
  <2>1. CASE hand.op \notin OnWindow
    BY <1>11, <2>1, DoneKept DEF Executes
  <2>2. CASE hand.op \in OnWindow
    <3> DEFINE w == Resolve(hand.target)
    <3>1. picked' = w /\ w # None /\ phase' = "acting" /\ UNCHANGED <<hand, acts>>
      BY <1>11, <2>2 DEF Executes
    <3>2. Busy' /\ InHand' /\ InSlot' /\ Unheard' /\ Deeds'
      BY <1>11, <2>2, <3>1 DEF Executes, Inv, Core, Busy, InHand, InSlot, Unheard, Deeds,
                 RiskyOnlyAsked, AsNamed, NextReplyDecides, Prompted
    <3>3. hand.asker # 0 => w = hand.named
      <4> SUFFICES ASSUME hand.asker # 0 PROVE w = hand.named
        OBVIOUS
      <4>1. hand.target = hand.named /\ hand.named \in Window
        BY <1>11, <2>2 DEF Executes, Inv, Core, Confirmed, Prompted
      <4> QED BY <3>1, <4>1, CommandsAssumption DEF Resolve
    <3>4. Confirmed'
      BY <1>11, <2>2, <3>1, <3>3 DEF Executes, Inv, Core, Confirmed, Prompted
    <3> QED BY <3>2, <3>4 DEF Core
  <2> QED BY <2>1, <2>2
<1>12. CASE Acts
  <2>1. hand.op \in OnWindow
    BY <1>12 DEF Acts, Inv, Core, InHand
  <2> QED BY <1>12, <2>1, DoneKept DEF Acts
<1>13. CASE ComesToNothing
  BY <1>13, FinishedKept DEF ComesToNothing
<1> QED BY <1>1, <1>2, <1>3, <1>4, <1>5, <1>6, <1>7, <1>8, <1>9, <1>10, <1>11, <1>12, <1>13 DEF Next
-----------------------------------------------------------------------------
(* The theorems. *)

\* It holds to begin with.
LEMMA InvHolds == Init => Inv
<1> SUFFICES ASSUME Init PROVE Inv
  OBVIOUS
<1>1. TypeOK
  <2>1. prompts \in [Utt -> Prompt \cup {NoPrompt}] /\ seen \in [Utt -> 0 .. MaxUtt]
    BY CommandsAssumption DEF Init
  <2>2. means \in [Phrase -> Window \cup {None}] /\ open \subseteq Window /\ closed \subseteq Window
    BY DEF Init
  <2>3. spoken \in 0 .. MaxUtt /\ current \in 0 .. spoken /\ phase \in Phases
    BY CommandsAssumption DEF Init, Phases
  <2>4. /\ picked \in Window \cup {None} /\ listed \subseteq Window /\ late \in BOOLEAN
        /\ hand \in {Nothing} /\ slot \in {Nothing} /\ routed = {} /\ acts = {}
    BY DEF Init
  <2> QED BY <2>1, <2>2, <2>3, <2>4 DEF TypeOK
<1>2. Core
  BY CommandsAssumption
  DEF Init, Core, Busy, InHand, InSlot, Confirmed, Unheard, Deeds, RiskyOnlyAsked, AsNamed,
      NextReplyDecides, Nothing, OnWindow
<1> QED BY <1>1, <1>2 DEF Inv

\* And so it always holds.
LEMMA InvCorrect == Spec => []Inv
<1>1. Inv /\ [Next]_vars => Inv'
  BY TypeKept, CoreKept DEF Inv
<1> QED BY <1>1, InvHolds, PTL DEF Spec

\* The router's state is well typed: the parked command and the one in hand are
\* commands or none, and the history is one of prompts and acts.
THEOREM CommandsTyped == Spec => []TypeOK
<1>1. Inv => TypeOK
  BY DEF Inv
<1> QED BY <1>1, InvCorrect, PTL

\* Whatever the judge answers and however the utterances follow each other,
\* closing a window or pressing a chord takes a yes.
THEOREM RiskyAsked == Spec => []RiskyOnlyAsked
<1>1. Inv => RiskyOnlyAsked
  BY DEF Inv, Core, Deeds
<1> QED BY <1>1, InvCorrect, PTL

\* What a yes carries out is what its prompt named, on the window it named, in
\* whatever way the desktop changed in between.
THEOREM ActsAsNamed == Spec => []AsNamed
<1>1. Inv => AsNamed
  BY DEF Inv, Core, Deeds
<1> QED BY <1>1, InvCorrect, PTL

\* A yes answers a prompt only as the first thing heard after it.
THEOREM NextReplyOnly == Spec => []NextReplyDecides
<1>1. Inv => NextReplyDecides
  BY DEF Inv, Core, Deeds
<1> QED BY <1>1, InvCorrect, PTL

\* One verdict gives at least as much reason to act as another: its confidence is
\* no lower, and its answers on risk and on dictation are no less reassuring.
Sureness == [low |-> 0, middling |-> 1, high |-> 2]
Comfort  == [yes |-> 0, unsaid |-> 1, no |-> 2]
AsGood(s, t) == /\ Sureness[s.confidence] <= Sureness[t.confidence]
                /\ Comfort[s.destructive] <= Comfort[t.destructive]
                /\ Comfort[s.dictation] <= Comfort[t.dictation]
Permits == [refuse |-> 0, confirm |-> 1, act |-> 2]

\* Doubt never helps a command: a verdict that gives less reason to act, in any of
\* the policy's signals, is never let do more.
THEOREM DoubtNeverHelps ==
  ASSUME NEW op \in Op, NEW s \in Judged, NEW t \in Judged, AsGood(s, t)
  PROVE  Permits[Decide(op, s)] <= Permits[Decide(op, t)]
<1>1. /\ s.path = "judged" /\ t.path = "judged"
      /\ s.confidence \in {"low", "middling", "high"} /\ t.confidence \in {"low", "middling", "high"}
      /\ s.destructive \in Answer /\ t.destructive \in Answer
      /\ s.dictation \in Answer /\ t.dictation \in Answer
  BY DEF Judged
<1>2. /\ t.confidence = "low" => s.confidence = "low"
      /\ t.confidence = "middling" => s.confidence # "high"
      /\ s.destructive = "no" => t.destructive = "no"
      /\ t.dictation = "yes" => s.dictation = "yes"
      /\ t.dictation = "unsaid" => s.dictation # "no"
  BY <1>1 DEF AsGood, Sureness, Comfort, Answer
<1>3. Refused(t) => Refused(s)
  BY <1>1, <1>2 DEF Refused
<1>4. ~Refused(s) /\ Doubtful(t) => Doubtful(s)
  BY <1>1, <1>2 DEF Refused, Doubtful, Answer
<1>5. Decide(op, t) = "refuse" => Decide(op, s) = "refuse"
  BY <1>3 DEF Decide
<1>6. Decide(op, t) = "confirm" => Decide(op, s) # "act"
  BY <1>4 DEF Decide
<1>7. Decide(op, s) \in {"refuse", "confirm", "act"} /\ Decide(op, t) \in {"refuse", "confirm", "act"}
  BY DEF Decide
<1> QED BY <1>5, <1>6, <1>7 DEF Permits
-----------------------------------------------------------------------------
(* The router implements Consent. *)

\* The prompt of one utterance moves on.
LEMMA OnePromptMoves ==
  ASSUME NEW u \in Utt, NEW g, \A v \in Utt : PromptOf(v)' = IF v = u THEN g ELSE PromptOf(v)
  PROVE  promptOf' = [promptOf EXCEPT ![u] = g]
BY DEF promptOf

\* No prompt moves.
LEMMA NoPromptMoves ==
  ASSUME UNCHANGED <<prompts, acts, slot>>, hand'.asker = hand.asker, UNCHANGED late
  PROVE  UNCHANGED promptOf
BY DEF promptOf, PromptOf

\* The mapping of every kind of step, for the prompt that the step is about.
LEMMA PromptSteps ==
  ASSUME Inv
  PROVE  /\ slot # Nothing /\ ~late /\ WindowElapses => Promise!Lapse(slot.asker)
         /\ slot # Nothing /\ slot' = Nothing /\ hand'.asker = 0
              /\ UNCHANGED <<late, prompts, acts>> => Promise!Drop(slot.asker)
         /\ Live /\ slot' = Nothing /\ hand' = slot
              /\ UNCHANGED <<late, prompts, acts>> => Promise!Grant(slot.asker)
         /\ Asks => Promise!Ask(current)
         /\ hand.asker # 0 /\ hand'.asker = 0
              /\ UNCHANGED <<slot, late, prompts, acts>> => Promise!Drop(hand.asker)
         /\ \A w : hand.asker # 0 /\ hand'.asker = 0 /\ acts' = acts \cup {Done(w)}
              /\ UNCHANGED <<slot, late, prompts>> => Promise!CarryOut(hand.asker)
<1>0. Promise!Utt = Utt
  BY DEF Promise!Utt, Utt
<1>a. \A u \in Utt : promptOf[u] = PromptOf(u)
  BY DEF promptOf
<1>b. 0 \notin Utt /\ Nothing.asker = 0
  BY CommandsAssumption DEF Utt, Nothing
<1>c. slot # Nothing =>
        /\ slot.asker \in Utt /\ hand.asker = 0 /\ prompts[slot.asker] # NoPrompt
        /\ \A a \in acts : a.asker # slot.asker
  <2>1. slot # Nothing => hand.asker = 0
    BY DEF Inv, Core, Busy, InHand, Nothing
  <2>2. "none" \notin Op
    BY DEF Op
  <2> QED BY <2>1, <2>2 DEF Inv, Core, InSlot, Prompted, NoPrompt
<1>d. hand.asker # 0 =>
        /\ hand.asker \in Utt /\ slot = Nothing /\ prompts[hand.asker] # NoPrompt
        /\ \A a \in acts : a.asker # hand.asker
  <2>1. hand.asker # 0 => slot = Nothing
    BY DEF Inv, Core, Busy, InHand, Nothing
  <2>2. "none" \notin Op
    BY DEF Op
  <2> QED BY <2>1, <2>2 DEF Inv, Core, Confirmed, Prompted, NoPrompt
<1>1. ASSUME slot # Nothing, ~late, WindowElapses PROVE Promise!Lapse(slot.asker)
  <2>1. \A v \in Utt : PromptOf(v)' = IF v = slot.asker THEN "lapsed" ELSE PromptOf(v)
    BY <1>1, <1>c DEF WindowElapses, workerVars, PromptOf
  <2>2. PromptOf(slot.asker) = "asked"
    BY <1>1, <1>c DEF PromptOf
  <2> QED BY <1>1, <2>1, <2>2, <1>a, <1>c, OnePromptMoves DEF Promise!Lapse, Promise!Move
<1>2. ASSUME slot # Nothing, slot' = Nothing, hand'.asker = 0, UNCHANGED <<late, prompts, acts>>
      PROVE  Promise!Drop(slot.asker)
  <2>1. \A v \in Utt : PromptOf(v)' = IF v = slot.asker THEN "dropped" ELSE PromptOf(v)
    BY <1>2, <1>b, <1>c DEF PromptOf
  <2>2. PromptOf(slot.asker) \in {"asked", "lapsed"}
    BY <1>2, <1>c DEF PromptOf
  <2> QED BY <1>2, <2>1, <2>2, <1>a, <1>c, OnePromptMoves DEF Promise!Drop, Promise!Move, Promise!Up
<1>3. ASSUME Live, slot' = Nothing, hand' = slot, UNCHANGED <<late, prompts, acts>>
      PROVE  Promise!Grant(slot.asker)
  <2>1. \A v \in Utt : PromptOf(v)' = IF v = slot.asker THEN "granted" ELSE PromptOf(v)
    BY <1>3, <1>b, <1>c DEF Live, PromptOf
  <2>2. PromptOf(slot.asker) = "asked"
    BY <1>3, <1>c DEF Live, PromptOf
  <2> QED BY <1>3, <2>1, <2>2, <1>a, <1>c, OnePromptMoves DEF Live, Promise!Grant, Promise!Move
<1>4. ASSUME Asks PROVE Promise!Ask(current)
  <2>1. /\ current \in Utt /\ hand \in Command /\ hand.asker = 0 /\ slot = Nothing
        /\ prompts[current] = NoPrompt /\ prompts \in [Utt -> Prompt \cup {NoPrompt}]
    BY <1>4 DEF Asks, Inv, Core, Busy, InHand, TypeOK
  <2>2. slot'.asker = current /\ late' = FALSE /\ hand'.asker = 0 /\ acts' = acts
    BY <1>4, <2>1 DEF Asks, Armed, Command, Finished, Nothing
  <2>3. prompts'[current] # NoPrompt /\ \A v \in Utt : v # current => prompts'[v] = prompts[v]
    <3>1. hand.op # "none"
      BY <2>1 DEF Command, Op
    <3> QED BY <1>4, <2>1, <3>1 DEF Asks, NoPrompt
  <2>4. \A v \in Utt : PromptOf(v)' = IF v = current THEN "asked" ELSE PromptOf(v)
    BY <1>b, <2>1, <2>2, <2>3 DEF PromptOf
  <2>5. PromptOf(current) = "none"
    BY <2>1 DEF PromptOf
  <2>6. \A v \in Utt : PromptOf(v) \notin {"asked", "lapsed", "granted"}
    BY <1>b, <2>1 DEF PromptOf
  <2>7. \A v \in Utt : v > current => PromptOf(v) = "none"
    BY DEF PromptOf, Inv, Core, Unheard
  <2> QED BY <2>1, <2>4, <2>5, <2>6, <2>7, <1>0, <1>a, OnePromptMoves
          DEF Promise!Ask, Promise!Move, Promise!Up
<1>5. ASSUME hand.asker # 0, hand'.asker = 0, UNCHANGED <<slot, late, prompts, acts>>
      PROVE  Promise!Drop(hand.asker)
  <2>1. \A v \in Utt : PromptOf(v)' = IF v = hand.asker THEN "dropped" ELSE PromptOf(v)
    BY <1>5, <1>b, <1>d DEF PromptOf
  <2>2. PromptOf(hand.asker) = "granted"
    BY <1>5, <1>b, <1>d DEF PromptOf
  <2> QED BY <1>5, <2>1, <2>2, <1>a, <1>d, OnePromptMoves DEF Promise!Drop, Promise!Move
<1>6. ASSUME NEW w, hand.asker # 0, hand'.asker = 0, acts' = acts \cup {Done(w)},
             UNCHANGED <<slot, late, prompts>>
      PROVE  Promise!CarryOut(hand.asker)
  <2>1. Done(w).asker = hand.asker
    BY DEF Done
  <2>2. \A v \in Utt : PromptOf(v)' = IF v = hand.asker THEN "carriedOut" ELSE PromptOf(v)
    BY <1>6, <1>b, <1>d, <2>1 DEF PromptOf
  <2>3. PromptOf(hand.asker) = "granted"
    BY <1>6, <1>b, <1>d DEF PromptOf
  <2> QED BY <1>6, <2>2, <2>3, <1>a, <1>d, OnePromptMoves DEF Promise!CarryOut, Promise!Move
<1> QED BY <1>1, <1>2, <1>3, <1>4, <1>5, <1>6

\* An utterance that is heard and takes no consent drops the prompt that was up.
LEMMA HeardDrops ==
  ASSUME Inv, phase = "idle", slot' = Nothing, hand'.asker = 0, UNCHANGED <<late, prompts, acts>>
  PROVE  Promise!Next \/ UNCHANGED promptOf
<1>1. CASE slot = Nothing
  <2>1. hand.asker = 0
    BY DEF Inv, Core, InHand, Nothing
  <2> QED BY <1>1, <2>1, NoPromptMoves
<1>2. CASE slot # Nothing
  <2>1. slot.asker \in Promise!Utt
    BY <1>2 DEF Inv, Core, InSlot, Prompted, Utt, Promise!Utt
  <2> QED BY <1>2, <2>1, PromptSteps DEF Promise!Next
<1> QED BY <1>1, <1>2

\* The router implements Consent: one prompt at a time, answered in time or not at
\* all, and carried out at most once.
THEOREM ConsentKept == Spec => KeepsConsent
<1>1. Init => Promise!Init
  BY DEF Init, Promise!Init, Promise!Utt, promptOf, PromptOf, Utt
<1>2. Inv /\ [Next]_vars => [Promise!Next]_promptOf
  <2> SUFFICES ASSUME Inv, [Next]_vars PROVE Promise!Next \/ UNCHANGED promptOf
    OBVIOUS
  <2> USE DEF userVars, workerVars, slotVars, desktopVars
  <2>0. /\ slot # Nothing => slot.asker \in Promise!Utt
        /\ hand.asker # 0 => hand.asker \in Promise!Utt
        /\ phase # "idle" => current \in Promise!Utt
    BY DEF Inv, Core, InSlot, Confirmed, Busy, Prompted, Utt, Promise!Utt
  <2>1. CASE Speaks \/ DesktopChanges \/ PassedOver \/ Looks \/ UNCHANGED vars
    BY <2>1, NoPromptMoves DEF Speaks, DesktopChanges, PassedOver, Looks, vars
  <2>2. CASE WindowElapses
    BY <2>0, <2>2, PromptSteps DEF WindowElapses, Promise!Next
  <2>3. CASE HearsYes
    <3>1. CASE ~Live
      BY <2>3, <3>1, HeardDrops DEF HearsYes, Hears, Finished, Nothing
    <3>2. CASE Live
      BY <2>0, <2>3, <3>2, PromptSteps DEF HearsYes, Live, Promise!Next
    <3> QED BY <3>1, <3>2
  <2>4. CASE HearsNo \/ HearsOther
    BY <2>4, HeardDrops DEF HearsNo, HearsOther, MovesOn, Hears, Finished, Nothing
  <2>5. CASE HearsFreely
    <3>1. hand'.asker = 0
      BY <2>5 DEF HearsFreely, Hears, Inv, Core, InHand, Nothing
    <3> QED BY <2>5, <3>1, HeardDrops DEF HearsFreely, MovesOn, Hears
  <2>6. ASSUME NEW op \in Op, HearsCommand(op) PROVE Promise!Next \/ UNCHANGED promptOf
    <3>1. PICK t \in TargetsOf(op, Phrase) : Dispatch(op, t, Grammar)
      BY <2>6 DEF HearsCommand
    <3>2. hand'.asker = 0
      BY <3>1, GateKept
    <3> QED BY <2>6, <3>2, HeardDrops DEF HearsCommand, MovesOn, Hears
  <2>7. ASSUME NEW op \in Op, Judges(op) PROVE Promise!Next \/ UNCHANGED promptOf
    <3>1. PICK t \in TargetsOf(op, listed \cup Phrase), s \in SignalsFor(op) : Dispatch(op, t, s)
      BY <2>7 DEF Judges
    <3>2. hand'.asker = 0
      BY <3>1, GateKept
    <3>3. hand.asker = 0
      BY <2>7 DEF Judges, Inv, Core, InHand, Nothing
    <3> QED BY <2>7, <3>2, <3>3, NoPromptMoves DEF Judges
  <2>8. CASE Asks
    <3>1. phase # "idle"
      BY <2>8 DEF Asks
    <3> QED BY <2>0, <2>8, <3>1, PromptSteps DEF Promise!Next
  <2>9. CASE Checks
    <3>1. hand'.asker = hand.asker
      BY <2>9 DEF Checks, Inv, Core, InHand, TypeOK, Command
    <3> QED BY <2>9, <3>1, NoPromptMoves DEF Checks
  <2>10. ASSUME NEW w, Finished, UNCHANGED <<slot, late, prompts>>,
                acts' = acts \cup {Done(w)} \/ UNCHANGED acts
         PROVE  Promise!Next \/ UNCHANGED promptOf
    <3>1. hand'.asker = 0
      BY <2>10 DEF Finished, Nothing
    <3>2. CASE hand.asker # 0
      BY <2>0, <2>10, <3>1, <3>2, PromptSteps DEF Promise!Next
    <3>3. CASE hand.asker = 0
      <4>1. \A v \in Utt : (\E a \in acts' : a.asker = v) <=> \E a \in acts : a.asker = v
        BY <2>10, <3>3, CommandsAssumption DEF Done, Utt
      <4> QED BY <2>10, <3>1, <3>3, <4>1 DEF promptOf, PromptOf
    <3> QED BY <3>2, <3>3
  <2>11. CASE Executes
    <3>1. CASE hand.op \notin OnWindow
      BY <2>10, <2>11, <3>1 DEF Executes
    <3>2. CASE hand.op \in OnWindow
      BY <2>11, <3>2, NoPromptMoves DEF Executes
    <3> QED BY <3>1, <3>2
  <2>12. CASE Acts
    BY <2>10, <2>12 DEF Acts
  <2>13. CASE ComesToNothing
    BY <2>10, <2>13 DEF ComesToNothing
  <2> QED BY <2>1, <2>2, <2>3, <2>4, <2>5, <2>6, <2>7, <2>8, <2>9, <2>11, <2>12, <2>13 DEF Next
<1> QED BY <1>1, <1>2, InvCorrect, PTL DEF Spec, KeepsConsent, Promise!Spec

-----------------------------------------------------------------------------
(* The client's retries. *)

\* What an attempt may come to, and how long it takes.
Tried == [is : {"ok", "refused", "down", "busy"}, took : Nat, retry_after : Nat \cup {NoAnswer}]

\* A wait has a length.
LEMMA WaitHasLength ==
  ASSUME NEW s \in Tried, NEW n \in 1 .. MAX_ATTEMPTS, NEW initial \in Nat
  PROVE  Wait(s, n, initial) \in Nat
<1>1. Backoff(n, initial) \in Nat
  BY DEF Backoff, MAX_ATTEMPTS
<1> QED BY <1>1 DEF Wait, Tried, NoAnswer

\* When each of the attempts ends, if all are made.
LEMMA Ends ==
  ASSUME NEW initial \in Nat, NEW script \in [1 .. MAX_ATTEMPTS -> Tried]
  PROVE  /\ EndOf(script, 1, initial) = script[1].took
         /\ EndOf(script, 2, initial) = script[2].took
              + (EndOf(script, 1, initial) + Wait(script[1], 1, initial))
         /\ EndOf(script, 3, initial) = script[3].took
              + (EndOf(script, 2, initial) + Wait(script[2], 2, initial))
         /\ \A n \in 1 .. MAX_ATTEMPTS : EndOf(script, n, initial) \in Nat
<1> DEFINE W(k) == Wait(script[k], k, initial)
           IsIt(f) == f = [k \in 1 .. MAX_ATTEMPTS |->
                             script[k].took + IF k = 1 THEN 0
                                              ELSE f[k - 1] + Wait(script[k - 1], k - 1, initial)]
           one == script[1].took
           two == script[2].took + (one + W(1))
           three == script[3].took + (two + W(2))
           it == [k \in 1 .. MAX_ATTEMPTS |-> IF k = 1 THEN one ELSE IF k = 2 THEN two ELSE three]
           f == CHOOSE g : IsIt(g)
<1>1. W(1) \in Nat /\ W(2) \in Nat /\ \A k \in 1 .. 3 : script[k].took \in Nat
  <2>1. 1 \in 1 .. MAX_ATTEMPTS /\ 2 \in 1 .. MAX_ATTEMPTS /\ 1 .. MAX_ATTEMPTS = 1 .. 3
    BY DEF MAX_ATTEMPTS
  <2>2. script[1] \in Tried /\ script[2] \in Tried /\ \A k \in 1 .. 3 : script[k] \in Tried
    BY <2>1
  <2>3. W(1) \in Nat /\ W(2) \in Nat
    BY <2>1, <2>2, WaitHasLength
  <2> QED BY <2>2, <2>3 DEF Tried
<1>2. IsIt(it)
  <2>1. \A k \in 1 .. MAX_ATTEMPTS :
          it[k] = script[k].took + IF k = 1 THEN 0
                                   ELSE it[k - 1] + Wait(script[k - 1], k - 1, initial)
    <3>1. it[1] = one /\ it[2] = two /\ it[3] = three
      BY DEF MAX_ATTEMPTS
    <3>2. script[1].took + 0 = one
      BY <1>1
    <3>3. script[2].took + (it[1] + Wait(script[1], 1, initial)) = two
      BY <3>1
    <3>4. script[3].took + (it[2] + Wait(script[2], 2, initial)) = three
      BY <3>1
    <3> HIDE DEF it, one, two, three
    <3>5. \A k \in 1 .. 3 : k = 1 \/ (k = 2 /\ k - 1 = 1) \/ (k = 3 /\ k - 1 = 2)
      OBVIOUS
    <3> QED BY <3>1, <3>2, <3>3, <3>4, <3>5 DEF MAX_ATTEMPTS
  <2> QED BY <2>1
<1>3. IsIt(f)
  BY <1>2
<1>4. \A n : EndOf(script, n, initial) = f[n]
  BY DEF EndOf
<1> HIDE DEF f
<1>5. /\ f[1] = script[1].took + 0
      /\ f[2] = script[2].took + (f[1] + W(1))
      /\ f[3] = script[3].took + (f[2] + W(2))
  BY <1>3 DEF MAX_ATTEMPTS
<1>6. f[1] \in Nat /\ f[2] \in Nat /\ f[3] \in Nat
  BY <1>1, <1>5
<1>7. f[1] = script[1].took
  BY <1>1, <1>5
<1>8. \A n \in 1 .. MAX_ATTEMPTS : f[n] \in Nat
  BY <1>6 DEF MAX_ATTEMPTS
<1> QED BY <1>4, <1>5, <1>7, <1>8


\* What comes of the nth attempt when it begins at a moment, if later ones come to this.
Then(script, timeout, initial, n, at, later) ==
  LET s == script[n]
      done == at + s.took
      next == done + Wait(s, n, initial)
  IN CASE done >= timeout -> [answer |-> "late", at |-> timeout, sent |-> n]
       [] done < timeout /\ s.is \in {"ok", "refused"} -> [answer |-> s.is, at |-> done, sent |-> n]
       [] OTHER -> IF n = MAX_ATTEMPTS \/ next >= timeout
                   THEN [answer |-> "failed", at |-> done, sent |-> n]
                   ELSE later[n + 1][next]

\* An evaluation is its three attempts.
LEMMA Unrolled ==
  ASSUME NEW timeout \in Nat, NEW initial \in Nat, NEW script \in [1 .. MAX_ATTEMPTS -> Tried]
  PROVE  \E f : /\ Evaluate(script, timeout, initial) = f[1][0]
                /\ \A n \in 1 .. 3, at \in 0 .. timeout :
                     f[n][at] = Then(script, timeout, initial, n, at, f)
<1> DEFINE T(n, g) == [at \in 0 .. timeout |-> Then(script, timeout, initial, n, at, g)]
           IsIt(f) == f = [n \in 1 .. MAX_ATTEMPTS |-> T(n, f)]
           f == CHOOSE g : IsIt(g)
           three == [n \in 1 .. 3 |-> T(3, <<>>)]
           two == [n \in 1 .. 3 |-> T(2, three)]
           it == [n \in 1 .. 3 |-> IF n = 1 THEN T(1, two) ELSE IF n = 2 THEN T(2, three)
                                                          ELSE T(3, <<>>)]
<1>1. ASSUME NEW n \in 1 .. 3, NEW g, NEW h,
             n = 3 \/ g[n + 1] = h[n + 1]
      PROVE  T(n, g) = T(n, h)
  <2>1. ASSUME NEW at \in 0 .. timeout
        PROVE  Then(script, timeout, initial, n, at, g) = Then(script, timeout, initial, n, at, h)
    <3> DEFINE s == script[n]
               done == at + s.took
               next == done + Wait(s, n, initial)
    <3>1. ~(n = MAX_ATTEMPTS \/ next >= timeout) => g[n + 1][next] = h[n + 1][next]
      BY <1>1 DEF MAX_ATTEMPTS
    <3> QED BY <3>1 DEF Then
  <2> QED BY <2>1, Zenon
<1>2. IsIt(it)
  <2>1. /\ it[1] = T(1, two) /\ it[2] = T(2, three) /\ it[3] = T(3, <<>>)
        /\ two[2] = T(2, three) /\ three[3] = T(3, <<>>)
    <3> HIDE DEF T
    <3> QED OBVIOUS
  <2>2. it = [n \in 1 .. 3 |-> it[n]]
    <3> HIDE DEF T
    <3> QED OBVIOUS
  <2> HIDE DEF it, two, three
  <2>3. T(1, two) = T(1, it)
    <3>1. 1 \in 1 .. 3 /\ two[1 + 1] = it[1 + 1]
      <4> HIDE DEF T
      <4> QED BY <2>1
    <3> QED BY <1>1, <3>1, Zenon
  <2>4. T(2, three) = T(2, it)
    <3>1. 2 \in 1 .. 3 /\ three[2 + 1] = it[2 + 1]
      <4> HIDE DEF T
      <4> QED BY <2>1
    <3> QED BY <1>1, <3>1, Zenon
  <2>5. T(3, <<>>) = T(3, it)
    <3>1. 3 \in 1 .. 3
      OBVIOUS
    <3> QED BY <1>1, <3>1, Zenon
  <2> HIDE DEF T
  <2>6. \A n \in 1 .. 3 : it[n] = T(n, it)
    <3>1. \A n \in 1 .. 3 : n = 1 \/ n = 2 \/ n = 3
      OBVIOUS
    <3> QED BY <2>1, <2>3, <2>4, <2>5, <3>1
  <2> QED BY <2>2, <2>6 DEF MAX_ATTEMPTS
<1>3. IsIt(f)
  <2> HIDE DEF IsIt
  <2> QED BY <1>2
<1>4. Evaluate(script, timeout, initial) = f[1][0]
  BY DEF Evaluate, Then
<1> HIDE DEF f
<1>5. \A n \in 1 .. 3 : f[n] = T(n, f)
  <2> HIDE DEF T
  <2> QED BY <1>3 DEF MAX_ATTEMPTS
<1>6. \A n \in 1 .. 3, at \in 0 .. timeout : f[n][at] = Then(script, timeout, initial, n, at, f)
  <2>1. \A n \in 1 .. 3, at \in 0 .. timeout :
          T(n, f)[at] = Then(script, timeout, initial, n, at, f)
    OBVIOUS
  <2> QED BY <1>5, <2>1, Zenon
<1> QED BY <1>4, <1>6, Zenon


\* An evaluation is over by its deadline, takes the answer that an attempt in time brings,
\* gives up no sooner than it must, and is cut off only while an attempt is under way.
LEMMA EvaluationEnds ==
  ASSUME NEW timeout \in Nat \ {0}, NEW initial \in Nat, NEW script \in [1 .. MAX_ATTEMPTS -> Tried]
  PROVE  RetriesInTime(script, timeout, initial)
<1> DEFINE end == Evaluate(script, timeout, initial)
           E(n) == EndOf(script, n, initial)
           W(n) == Wait(script[n], n, initial)
           over(n) == script[n].is \in {"ok", "refused"}
           cutOff(n) == [answer |-> "late", at |-> timeout, sent |-> n]
           answered(n) == [answer |-> script[n].is, at |-> E(n), sent |-> n]
           failed(n) == [answer |-> "failed", at |-> E(n), sent |-> n]
           took(n) == script[n].took
           begin(n) == E(n) - took(n)
<1>1. /\ E(1) = took(1) /\ E(2) = took(2) + (E(1) + W(1))
      /\ E(3) = took(3) + (E(2) + W(2))
      /\ E(1) \in Nat /\ E(2) \in Nat /\ E(3) \in Nat
  BY Ends DEF MAX_ATTEMPTS
<1>2. \A n \in 1 .. 3 : script[n] \in Tried /\ took(n) \in Nat /\ W(n) \in Nat
  <2>1. 1 .. MAX_ATTEMPTS = 1 .. 3
    BY DEF MAX_ATTEMPTS
  <2>2. \A n \in 1 .. 3 : script[n] \in Tried
    BY <2>1
  <2>3. \A n \in 1 .. 3 : W(n) \in Nat
    BY <2>1, <2>2, WaitHasLength
  <2> QED BY <2>2, <2>3 DEF Tried
<1>3. /\ begin(1) = 0 /\ begin(2) = E(1) + W(1) /\ begin(3) = E(2) + W(2)
      /\ W(1) \in Nat /\ W(2) \in Nat
      /\ E(1) <= begin(2) /\ begin(2) <= E(2) /\ E(2) <= begin(3) /\ begin(3) <= E(3)
      /\ begin(2) \in Nat /\ begin(3) \in Nat
      /\ \A n \in 1 .. 3 : begin(n) + took(n) = E(n)
      /\ begin(1) + took(1) + W(1) = begin(2) /\ begin(2) + took(2) + W(2) = begin(3)
  <2>1. W(1) \in Nat /\ W(2) \in Nat /\ took(1) \in Nat /\ took(2) \in Nat /\ took(3) \in Nat
    BY <1>2
  <2>2. \A n \in 1 .. 3 : n = 1 \/ n = 2 \/ n = 3
    OBVIOUS
  <2>3. /\ E(1) - took(1) = 0 /\ E(2) - took(2) = E(1) + W(1) /\ E(3) - took(3) = E(2) + W(2)
        /\ E(1) <= E(1) + W(1) /\ E(1) + W(1) <= E(2) /\ E(2) <= E(2) + W(2) /\ E(2) + W(2) <= E(3)
        /\ E(1) + W(1) \in Nat /\ E(2) + W(2) \in Nat
        /\ 0 + took(1) + W(1) = E(1) + W(1) /\ (E(1) + W(1)) + took(2) + W(2) = E(2) + W(2)
    <3> HIDE DEF E, W, took
    <3> QED BY <1>1, <2>1
  <2>4. begin(1) = 0 /\ begin(2) = E(1) + W(1) /\ begin(3) = E(2) + W(2)
    <3> HIDE DEF E, W, took
    <3> QED BY <2>3
  <2>5. begin(1) + took(1) = E(1) /\ begin(2) + took(2) = E(2) /\ begin(3) + took(3) = E(3)
    <3> HIDE DEF E, W, took, begin
    <3> QED BY <1>1, <2>1, <2>4
  <2>6. \A n \in 1 .. 3 : begin(n) + took(n) = E(n)
    <3> HIDE DEF E, W, took, begin
    <3> QED BY <2>2, <2>5
  <2> HIDE DEF E, W, took, begin
  <2> QED BY <2>1, <2>3, <2>4, <2>6
<1>4. PICK f : /\ end = f[1][0]
               /\ \A n \in 1 .. 3, at \in 0 .. timeout :
                    f[n][at] = Then(script, timeout, initial, n, at, f)
  BY Unrolled
<1> HIDE DEF end
<1>5. ASSUME NEW n \in 1 .. 3, begin(n) \in 0 .. timeout
      PROVE  f[n][begin(n)] = IF E(n) >= timeout THEN cutOff(n)
                              ELSE IF over(n) THEN answered(n)
                              ELSE IF n = 3 \/ begin(n) + took(n) + W(n) >= timeout
                                   THEN failed(n)
                              ELSE f[n + 1][begin(n) + took(n) + W(n)]
  <2>1. begin(n) + script[n].took = E(n)
    BY <1>3
  <2>2. f[n][begin(n)] = Then(script, timeout, initial, n, begin(n), f)
    BY <1>4, <1>5
  <2>3. timeout \in Nat /\ E(n) \in Nat
    BY <1>1
  <2> HIDE DEF E, begin
  <2> QED BY <2>1, <2>2, <2>3 DEF Then, MAX_ATTEMPTS

<1>6. begin(3) < timeout =>
        f[3][begin(3)] = IF E(3) >= timeout THEN cutOff(3)
                         ELSE IF over(3) THEN answered(3) ELSE failed(3)
  <2>1. begin(3) < timeout => begin(3) \in 0 .. timeout
    <3> HIDE DEF begin
    <3> QED BY <1>3
  <2>2. 3 \in 1 .. 3
    OBVIOUS
  <2> HIDE DEF E, W, took, begin, cutOff, over, answered, failed
  <2> QED BY <1>5, <2>1, <2>2
<1>7. begin(2) < timeout =>
        f[2][begin(2)] = IF E(2) >= timeout THEN cutOff(2)
                         ELSE IF over(2) THEN answered(2)
                         ELSE IF begin(3) >= timeout THEN failed(2) ELSE f[3][begin(3)]
  <2>1. begin(2) < timeout => begin(2) \in 0 .. timeout
    <3> HIDE DEF begin
    <3> QED BY <1>3
  <2>2. 2 \in 1 .. 3 /\ 2 # 3 /\ 2 + 1 = 3
    OBVIOUS
  <2> HIDE DEF E, W, took, begin, cutOff, over, answered, failed
  <2> QED BY <1>3, <1>5, <2>1, <2>2
<1>8. f[1][0] = IF E(1) >= timeout THEN cutOff(1)
                ELSE IF over(1) THEN answered(1)
                ELSE IF begin(2) >= timeout THEN failed(1) ELSE f[2][begin(2)]
  <2>1. begin(1) \in 0 .. timeout
    BY <1>3
  <2>2. 1 \in 1 .. 3 /\ 1 # 3 /\ 1 + 1 = 2 /\ begin(1) = 0
    BY <1>3
  <2> HIDE DEF E, W, took, begin, cutOff, over, answered, failed
  <2> QED BY <1>3, <1>5, <2>1, <2>2
<1> DEFINE ok(n) == script[n].is = "ok"
           brings(n) == /\ \A k \in 1 .. n - 1 : script[k].is \notin {"ok", "refused"}
                        /\ script[n].is = "ok" /\ E(n) < timeout
<1>9. (\E n \in 1 .. MAX_ATTEMPTS : brings(n))
        <=> \/ ok(1) /\ E(1) < timeout
            \/ ~over(1) /\ ok(2) /\ E(2) < timeout
            \/ ~over(1) /\ ~over(2) /\ ok(3) /\ E(3) < timeout
  <2>1. brings(1) <=> ok(1) /\ E(1) < timeout
    OBVIOUS
  <2>2. brings(2) <=> ~over(1) /\ ok(2) /\ E(2) < timeout
    <3>1. \A k : k \in 1 .. 2 - 1 <=> k = 1
      OBVIOUS
    <3> QED BY <3>1
  <2>3. brings(3) <=> ~over(1) /\ ~over(2) /\ ok(3) /\ E(3) < timeout
    <3>1. \A k : k \in 1 .. 3 - 1 <=> k = 1 \/ k = 2
      OBVIOUS
    <3> QED BY <3>1
  <2>4. \A n : n \in 1 .. MAX_ATTEMPTS <=> n = 1 \/ n = 2 \/ n = 3
    BY DEF MAX_ATTEMPTS
  <2> HIDE DEF brings, ok, over, E
  <2> QED BY <2>1, <2>2, <2>3, <2>4
<1>10. /\ end.at <= timeout
       /\ end.answer = "ok" <=> \/ ok(1) /\ E(1) < timeout
                                \/ ~over(1) /\ ok(2) /\ E(2) < timeout
                                \/ ~over(1) /\ ~over(2) /\ ok(3) /\ E(3) < timeout
       /\ end.answer = "late" => begin(end.sent) < timeout /\ E(end.sent) >= timeout
  <2>1. timeout \in Nat /\ timeout > 0 /\ end = f[1][0]
    BY <1>4
  <2>2. \A n \in 1 .. 3 : /\ cutOff(n).answer = "late" /\ cutOff(n).at = timeout /\ cutOff(n).sent = n
                          /\ answered(n).answer = script[n].is /\ answered(n).at = E(n)
                          /\ failed(n).answer = "failed" /\ failed(n).at = E(n)
    OBVIOUS
  <2>3. \A n \in 1 .. 3 : (over(n) <=> ok(n) \/ script[n].is = "refused")
                          /\ (over(n) => script[n].is # "late")
    OBVIOUS
  <2> HIDE DEF cutOff, answered, failed, over, ok, E, W, begin
  <2>4. CASE E(1) >= timeout \/ over(1) \/ begin(2) >= timeout
    BY <1>1, <1>3, <1>8, <2>1, <2>2, <2>3, <2>4 DEF ok
  <2>5. CASE ~(E(1) >= timeout \/ over(1) \/ begin(2) >= timeout)
    <3>1. end = f[2][begin(2)]
      BY <1>1, <1>3, <1>8, <2>1, <2>5
    <3>2. CASE E(2) >= timeout \/ over(2) \/ begin(3) >= timeout
      BY <1>1, <1>3, <1>7, <2>1, <2>2, <2>3, <2>5, <3>1, <3>2 DEF ok
    <3>3. CASE ~(E(2) >= timeout \/ over(2) \/ begin(3) >= timeout)
      <4>1. end = IF E(3) >= timeout THEN cutOff(3)
                  ELSE IF over(3) THEN answered(3) ELSE failed(3)
        BY <1>1, <1>3, <1>6, <1>7, <2>1, <2>5, <3>1, <3>3
      <4>2. /\ ~over(1) /\ ~over(2) /\ ~ok(1) /\ ~ok(2)
            /\ E(1) < timeout /\ E(2) < timeout /\ begin(3) < timeout
        BY <1>1, <1>3, <2>1, <2>3, <2>5, <3>3
      <4>3. CASE E(3) >= timeout
        BY <1>1, <1>3, <2>1, <2>2, <4>1, <4>2, <4>3
      <4>4. CASE E(3) < timeout /\ over(3)
        BY <1>1, <1>3, <2>1, <2>2, <2>3, <4>1, <4>2, <4>4 DEF ok
      <4>5. CASE E(3) < timeout /\ ~over(3)
        BY <1>1, <1>3, <2>1, <2>2, <2>3, <4>1, <4>2, <4>5
      <4> QED BY <1>1, <1>3, <2>1, <4>3, <4>4, <4>5
    <3> QED BY <3>2, <3>3
  <2> QED BY <2>4, <2>5
<1> QED BY <1>9, <1>10 DEF RetriesInTime, end

\* RetriesEnd (typesafe.rs, evaluate and attempts), whatever the server answers and however
\* long it takes, for every back-off and every deadline that the configuration allows
\* (config.rs refuses a timeout of zero).
THEOREM EvaluationsEnd ==
  ASSUME Of("retries") => The \in [script : [1 .. MAX_ATTEMPTS -> Tried], timeout : Nat \ {0},
                                   initial : Nat]
  PROVE  RetriesEnd
BY EvaluationEnds DEF RetriesEnd

-----------------------------------------------------------------------------
(* Numbers. *)

\* A set of natural numbers has a least one.
LEMMA HasLeast ==
  ASSUME NEW T, T \subseteq Nat, T # {}
  PROVE  \E x \in T : \A y \in T : x <= y
<1> DEFINE R == OpToRel(<, Nat)
<1>1. PICK x \in T : \A y \in T : ~(<<y, x>> \in R)
  BY WFMin, NatLessThanWellFounded
<1>2. ASSUME NEW y \in T PROVE x <= y
  <2>1. y < x => <<y, x>> \in R
    BY DEF OpToRel
  <2> HIDE DEF R
  <2>2. ~(y < x)
    BY <1>1, <2>1
  <2> QED BY <2>2
<1> QED BY <1>2, Zenon

\* A set in which every number has a lesser one is empty.
LEMMA Descent ==
  ASSUME NEW T, T \subseteq Nat, \A x \in T : \E y \in T : y < x
  PROVE  T = {}
<1> SUFFICES ASSUME T # {} PROVE FALSE
  OBVIOUS
<1>1. PICK x \in T : \A y \in T : x <= y
  BY HasLeast, Zenon
<1>2. PICK y \in T : y < x
  BY <1>1
<1> QED BY <1>1, <1>2

\* A bounded set of numbers has a greatest one.
LEMMA HasGreatest ==
  ASSUME NEW hi \in Nat, NEW S, S \subseteq 0 .. hi, S # {}
  PROVE  \E m \in S : \A x \in S : x <= m
<1> DEFINE T == {hi - x : x \in S}
<1>1. T \subseteq Nat /\ T # {}
  OBVIOUS
<1>2. PICK t \in T : \A y \in T : t <= y
  <2> HIDE DEF T
  <2> QED BY <1>1, HasLeast
<1>3. PICK m \in S : t = hi - m
  OBVIOUS
<1>4. ASSUME NEW x \in S PROVE x <= m
  <2>1. t <= hi - x
    BY <1>2
  <2> QED BY <1>3, <2>1
<1> QED BY <1>4
-----------------------------------------------------------------------------
(* Messages. *)

\* A word as it was heard, and what it ends in.
Word == [is : STRING, end : STRING]

\* What is left of words when some at the front are cut off.
IsTail(s, u) == \E i \in 1 .. Len(u) + 1 : s = From(u, i)

\* The words from a place on.
LEMMA FromHere ==
  ASSUME NEW u \in Seq(Word), NEW i \in 1 .. Len(u) + 1
  PROVE  /\ From(u, i) \in Seq(Word) /\ Len(From(u, i)) = (Len(u) - i) + 1
         /\ \A k \in 1 .. (Len(u) - i) + 1 : From(u, i)[k] = u[(i + k) - 1]
<1>1. Len(u) \in Nat /\ \A k \in 1 .. Len(u) : u[k] \in Word
  OBVIOUS
<1>2. i \in Int /\ Len(u) \in Int /\ \A k \in i .. Len(u) : u[k] \in Word
  BY <1>1
<1>3. /\ SubSeq(u, i, Len(u)) \in Seq(Word)
      /\ Len(SubSeq(u, i, Len(u))) = IF i <= Len(u) THEN (Len(u) - i) + 1 ELSE 0
      /\ \A k \in 1 .. (Len(u) - i) + 1 : SubSeq(u, i, Len(u))[k] = u[(i + k) - 1]
  BY <1>2, SubSeqProperties
<1>4. (Len(u) - i) + 1 = IF i <= Len(u) THEN (Len(u) - i) + 1 ELSE 0
  BY <1>1
<1> QED BY <1>3, <1>4 DEF From

\* A tail is a text.
LEMMA TailTyped ==
  ASSUME NEW u \in Seq(Word), NEW s, IsTail(s, u)
  PROVE  s \in Seq(Word) /\ Len(s) <= Len(u)
<1>1. PICK i \in 1 .. Len(u) + 1 : s = From(u, i)
  BY DEF IsTail
<1>2. Len(u) \in Nat
  OBVIOUS
<1> QED BY <1>1, <1>2, FromHere

\* Cutting off any number of words leaves a tail.
LEMMA CutLeavesTail ==
  ASSUME NEW u \in Seq(Word), NEW i \in Nat \ {0}
  PROVE  IsTail(From(u, i), u)
<1>1. Len(u) \in Nat
  OBVIOUS
<1>2. CASE i <= Len(u) + 1
  <2>1. i \in 1 .. Len(u) + 1
    BY <1>1, <1>2
  <2> QED BY <2>1 DEF IsTail
<1>3. CASE i > Len(u) + 1
  <2>1. From(u, i) = <<>> /\ From(u, Len(u) + 1) = <<>>
    BY <1>1, <1>3, SubSeqEmpty DEF From
  <2>2. Len(u) + 1 \in 1 .. Len(u) + 1
    BY <1>1
  <2> QED BY <2>1, <2>2 DEF IsTail
<1> QED BY <1>1, <1>2, <1>3

\* Nothing is a tail, and everything.
LEMMA WholeAndNothing ==
  ASSUME NEW u \in Seq(Word)
  PROVE  IsTail(u, u) /\ IsTail(<<>>, u)
<1>1. Len(u) \in Nat
  OBVIOUS
<1>2. From(u, 1) = u
  BY <1>1, SubSeqFull DEF From
<1>3. From(u, Len(u) + 1) = <<>>
  BY <1>1, SubSeqEmpty DEF From
<1>4. 1 \in 1 .. Len(u) + 1 /\ Len(u) + 1 \in 1 .. Len(u) + 1
  BY <1>1
<1> QED BY <1>2, <1>3, <1>4 DEF IsTail

\* The words from a place on, from a place on.
LEMMA FromFrom ==
  ASSUME NEW u \in Seq(Word), NEW i \in 1 .. Len(u) + 1, NEW j \in 1 .. ((Len(u) - i) + 1) + 1
  PROVE  From(From(u, i), j) = From(u, (i + j) - 1)
<1> DEFINE s == From(u, i)
           k == (i + j) - 1
<1>1. Len(u) \in Nat
  OBVIOUS
<1>2. k \in 1 .. Len(u) + 1
  BY <1>1
<1>3. s \in Seq(Word) /\ Len(s) = (Len(u) - i) + 1
      /\ \A n \in 1 .. (Len(u) - i) + 1 : s[n] = u[(i + n) - 1]
  BY FromHere
<1>4. j \in 1 .. Len(s) + 1
  BY <1>3
<1> HIDE DEF s
<1>5. From(s, j) \in Seq(Word) /\ Len(From(s, j)) = (Len(s) - j) + 1
      /\ \A n \in 1 .. (Len(s) - j) + 1 : From(s, j)[n] = s[(j + n) - 1]
  BY <1>3, <1>4, FromHere
<1>6. From(u, k) \in Seq(Word) /\ Len(From(u, k)) = (Len(u) - k) + 1
      /\ \A n \in 1 .. (Len(u) - k) + 1 : From(u, k)[n] = u[(k + n) - 1]
  BY <1>2, FromHere
<1>7. (Len(s) - j) + 1 = (Len(u) - k) + 1
  BY <1>1, <1>3
<1>8. ASSUME NEW n \in 1 .. (Len(u) - k) + 1 PROVE From(s, j)[n] = From(u, k)[n]
  <2>1. From(s, j)[n] = s[(j + n) - 1]
    BY <1>5, <1>7
  <2>2. (j + n) - 1 \in 1 .. (Len(u) - i) + 1 /\ (i + ((j + n) - 1)) - 1 = (k + n) - 1
    BY <1>1
  <2>3. s[(j + n) - 1] = u[(k + n) - 1]
    BY <1>3, <2>2
  <2> QED BY <1>6, <2>1, <2>3
<1> HIDE DEF k
<1>9. From(s, j) = From(u, k)
  BY <1>5, <1>6, <1>7, <1>8, SeqEqual
<1> QED BY <1>9 DEF s, k

\* A tail of a tail is a tail.
LEMMA TailOfTail ==
  ASSUME NEW u \in Seq(Word), NEW s, NEW t, IsTail(s, u), IsTail(t, s)
  PROVE  IsTail(t, u)
<1>1. PICK i \in 1 .. Len(u) + 1 : s = From(u, i)
  BY DEF IsTail
<1>2. PICK j \in 1 .. Len(s) + 1 : t = From(s, j)
  BY DEF IsTail
<1>3. Len(u) \in Nat /\ Len(s) = (Len(u) - i) + 1
  BY <1>1, FromHere
<1>4. j \in 1 .. ((Len(u) - i) + 1) + 1 /\ (i + j) - 1 \in 1 .. Len(u) + 1
  BY <1>3
<1>5. t = From(u, (i + j) - 1)
  BY <1>1, <1>2, <1>4, FromFrom
<1> QED BY <1>4, <1>5 DEF IsTail

-----------------------------------------------------------------------------
(* Phrases. *)

\* Every phrase has a length.
Measured(phrases) == \A p \in phrases : Len(p) \in Nat

\* A few words are a sequence.
LEMMA FewAreSeq ==
  \A W, B :
    B \subseteq {<<>>} \cup [1 .. 1 -> W] \cup [1 .. 2 -> W] \cup [1 .. 3 -> W] \cup [1 .. 4 -> W]
      => B \subseteq Seq(W)
<1>1. \A W : \A n \in Nat : \A f \in [1 .. n -> W] : f \in Seq(W)
  OBVIOUS
<1> QED BY <1>1, EmptySeq

\* Each phrase is one phrase joined to another.
JoinedFrom(phrases, B, T) == \A p \in phrases : \E b \in B, t \in T : p = b \o t

\* Phrases joined from words have a length.
LEMMA JoinedMeasured ==
  ASSUME NEW W, NEW B \in SUBSET Seq(W), NEW T \in SUBSET Seq(W), NEW X,
         JoinedFrom(X, B, T)
  PROVE  Measured(X)
<1>1. \A b, t \in Seq(W) : b \o t \in Seq(W)
  BY ConcatProperties
<1>2. \A s \in Seq(W) : Len(s) \in Nat
  OBVIOUS
<1> QED BY <1>1, <1>2 DEF Measured, JoinedFrom

\* Cues and introducers have.
LEMMA CuesMeasured ==
  /\ \A intent : Measured(Cues(intent))
  /\ Measured(POLITE_PREFIXES) /\ Measured(INTRODUCERS)
  /\ Measured(SAYING) /\ Measured(NAME_INTRODUCERS)
<1>1. Measured(POLITE_PREFIXES)
  BY DEF POLITE_PREFIXES, Measured
<1>2. Measured(INTRODUCERS)
  BY DEF INTRODUCERS, Measured
<1>3. Measured(SAYING) /\ Measured(NAME_INTRODUCERS)
  BY DEF SAYING, NAME_INTRODUCERS, Measured
<1>4. Measured(KEY_CUES)
  BY DEF KEY_CUES, Measured
<1>5. Measured(KRUNNER_CUES)
  BY DEF KRUNNER_CUES, Measured
<1>6. Measured(NOTIFY_CUES)
  <2> DEFINE W == {"remind", "me", "on", "screen", "notify", "make", "a", "note", "set",
                   "reminder", "that", "to"}
             B == {<<"remind", "me", "on", "screen">>, <<"remind", "me">>, <<"notify", "me">>,
                   <<"make", "a", "note">>, <<"set", "a", "reminder">>}
             T == {<<>>, <<"that">>, <<"to">>}
             rest == {<<"notify">>, <<"note", "that">>, <<"note">>}
  <2>1. Measured(rest)
    BY DEF Measured
  <2>2. B \subseteq [1 .. 2 -> W] \cup [1 .. 3 -> W] \cup [1 .. 4 -> W]
    <3>1. <<"remind", "me", "on", "screen">> \in [1 .. 4 -> W]
      OBVIOUS
    <3>2. <<"remind", "me">> \in [1 .. 2 -> W] /\ <<"notify", "me">> \in [1 .. 2 -> W]
      OBVIOUS
    <3>3. <<"make", "a", "note">> \in [1 .. 3 -> W] /\ <<"set", "a", "reminder">> \in [1 .. 3 -> W]
      OBVIOUS
    <3> HIDE DEF W
    <3> QED BY <3>1, <3>2, <3>3
  <2>3. T \subseteq {<<>>} \cup [1 .. 1 -> W] \cup [1 .. 2 -> W]
    <3>1. <<"that">> \in [1 .. 1 -> W] /\ <<"to">> \in [1 .. 1 -> W]
      OBVIOUS
    <3> HIDE DEF W
    <3> QED BY <3>1
  <2>4. NOTIFY_CUES = {b \o t : b \in B, t \in T} \cup rest
    BY DEF NOTIFY_CUES
  <2> HIDE DEF B, T, W, rest
  <2> DEFINE X == {b \o t : b \in B, t \in T}
  <2>5. JoinedFrom(X, B, T)
    BY DEF JoinedFrom
  <2>6. \A p : p \in X \cup rest <=> p \in X \/ p \in rest
    OBVIOUS
  <2> HIDE DEF X
  <2>7. Measured(X)
    <3>1. B \in SUBSET Seq(W) /\ T \in SUBSET Seq(W)
      BY <2>2, <2>3, FewAreSeq
    <3> QED BY <2>5, <3>1, JoinedMeasured
  <2> QED BY <2>1, <2>4, <2>6, <2>7 DEF Measured, X
<1>7. Measured(CLAUDE_CUES)
  <2> DEFINE W == {"tell", "ask", "claude", "code", "to"}
             B == {<<"tell", "claude">>, <<"ask", "claude">>}
             T == {<<"code", "to">>, <<"code">>, <<"to">>, <<>>}
             rest == {<<"say", "to", "claude">>, <<"have", "claude">>, <<"get", "claude", "to">>,
                      <<"message", "claude", "that">>, <<"message", "claude">>,
                      <<"claude,">>, <<"claude:">>}
  <2>1. Measured(rest)
    <3>1. \A x, y : Measured({<<"say", "to", "claude">>, <<"have", "claude">>,
                             <<"get", "claude", "to">>, <<"message", "claude", "that">>,
                             <<"message", "claude">>, <<x>>, <<y>>})
      BY DEF Measured
    <3> QED BY <3>1, Zenon
  <2>2. B \subseteq [1 .. 2 -> W] \cup [1 .. 3 -> W] \cup [1 .. 4 -> W]
    OBVIOUS
  <2>3. T \subseteq {<<>>} \cup [1 .. 1 -> W] \cup [1 .. 2 -> W]
    <3>1. /\ <<"code">> \in [1 .. 1 -> W] /\ <<"to">> \in [1 .. 1 -> W]
          /\ <<"code", "to">> \in [1 .. 2 -> W]
      OBVIOUS
    <3> HIDE DEF W
    <3> QED BY <3>1
  <2>4. CLAUDE_CUES = {b \o t : b \in B, t \in T} \cup rest
    BY DEF CLAUDE_CUES
  <2> HIDE DEF B, T, W, rest
  <2> DEFINE X == {b \o t : b \in B, t \in T}
  <2>5. JoinedFrom(X, B, T)
    BY DEF JoinedFrom
  <2>6. \A p : p \in X \cup rest <=> p \in X \/ p \in rest
    OBVIOUS
  <2> HIDE DEF X
  <2>7. Measured(X)
    <3>1. B \in SUBSET Seq(W) /\ T \in SUBSET Seq(W)
      BY <2>2, <2>3, FewAreSeq
    <3> QED BY <2>5, <3>1, JoinedMeasured
  <2> QED BY <2>1, <2>4, <2>6, <2>7 DEF Measured, X
<1>8. \A intent : Measured(Cues(intent))
  <2>1. Measured({})
    BY DEF Measured
  <2> QED BY <1>4, <1>5, <1>6, <1>7, <2>1 DEF Cues
<1> QED BY <1>1, <1>2, <1>3, <1>8

\* Of the phrases that words begin with there is a longest.
LEMMA LongestLeads ==
  ASSUME NEW words \in Seq(Word), NEW phrases, Measured(phrases),
         NEW ps, ps \subseteq Leading(words, phrases), ps # {}
  PROVE  /\ Longest(ps) \in ps /\ Len(Longest(ps)) \in 0 .. Len(words)
         /\ \A p \in ps : Len(p) <= Len(Longest(ps))
<1> DEFINE S == {Len(p) : p \in ps}
<1>1. Len(words) \in Nat
  OBVIOUS
<1>2. ASSUME NEW p \in ps PROVE Len(p) \in 0 .. Len(words)
  <2>1. Len(p) \in Nat /\ Len(p) <= Len(words)
    BY DEF Leading, Starts, Measured
  <2> QED BY <1>1, <2>1
<1>3. S \subseteq 0 .. Len(words) /\ S # {}
  BY <1>2
<1>4. PICK m \in S : \A x \in S : x <= m
  <2> HIDE DEF S
  <2> QED BY <1>1, <1>3, HasGreatest
<1>5. PICK p \in ps : \A q \in ps : Len(q) <= Len(p)
  BY <1>4
<1>6. Longest(ps) \in ps /\ \A q \in ps : Len(q) <= Len(Longest(ps))
  BY <1>5 DEF Longest
<1> QED BY <1>2, <1>6

\* Without a leading phrase words are a tail.
LEMMA StripLeadingTail ==
  ASSUME NEW words \in Seq(Word), NEW phrases, Measured(phrases),
         Leading(words, phrases) # {}
  PROVE  IsTail(StripLeading(words, phrases), words)
<1>1. Len(Longest(Leading(words, phrases))) \in Nat
  BY LongestLeads
<1> QED BY <1>1, CutLeavesTail DEF StripLeading

\* The recursion of StripLeadingAll, up to a number of steps.
StrippedBy(phrases, w) == IF Leading(w, phrases) = {} THEN w ELSE StripLeading(w, phrases)
Stripped(words, phrases, m, f) ==
  f = [n \in 0 .. m |-> IF n = 0 THEN words ELSE StrippedBy(phrases, f[n - 1])]

\* It has a solution for every number.
LEMMA StrippedExists ==
  ASSUME NEW words, NEW phrases, NEW m \in Nat
  PROVE  \E f : Stripped(words, phrases, m, f)
<1> DEFINE T == {k \in Nat : ~\E f : Stripped(words, phrases, k, f)}
<1>1. ASSUME NEW k \in T PROVE \E j \in T : j < k
  <2>1. k # 0
    <3> DEFINE f == [n \in 0 .. 0 |-> words]
    <3>1. Stripped(words, phrases, 0, f)
      BY DEF Stripped
    <3> QED BY <3>1
  <2>2. k - 1 \in Nat /\ k - 1 < k
    BY <2>1
  <2>3. ASSUME NEW g, Stripped(words, phrases, k - 1, g) PROVE FALSE
    <3> DEFINE f == [n \in 0 .. k |-> IF n < k THEN g[n] ELSE StrippedBy(phrases, g[k - 1])]
    <3>1. (\A n \in 0 .. (k - 1) : f[n] = g[n]) /\ f[k] = StrippedBy(phrases, g[k - 1])
      BY <2>2
    <3>2. f = [n \in 0 .. k |-> f[n]]
      OBVIOUS
    <3> HIDE DEF f
    <3>3. \A n \in 0 .. (k - 1) : g[n] = IF n = 0 THEN words ELSE StrippedBy(phrases, g[n - 1])
      BY <2>3 DEF Stripped
    <3>4. ASSUME NEW n \in 0 .. k
          PROVE  f[n] = IF n = 0 THEN words ELSE StrippedBy(phrases, f[n - 1])
      <4>1. CASE n = k
        <5>1. f[n - 1] = g[k - 1]
          BY <2>2, <3>1, <4>1
        <5> QED BY <2>1, <3>1, <4>1, <5>1
      <4>2. CASE n # k
        <5>1. n \in 0 .. (k - 1) /\ (n # 0 => n - 1 \in 0 .. (k - 1))
          BY <2>2, <4>2
        <5>2. f[n] = g[n] /\ (n # 0 => f[n - 1] = g[n - 1])
          BY <3>1, <5>1
        <5> QED BY <3>3, <5>1, <5>2
      <4> QED BY <4>1, <4>2
    <3>5. Stripped(words, phrases, k, f)
      BY <3>2, <3>4 DEF Stripped
    <3> QED BY <3>5
  <2> QED BY <2>2, <2>3
<1> HIDE DEF T
<1>2. T \subseteq Nat
  BY DEF T
<1>3. T = {}
  BY <1>1, <1>2, Descent
<1> QED BY <1>3 DEF T

\* Without all leading phrases words are a tail.
LEMMA StripAllTail ==
  ASSUME NEW words \in Seq(Word), NEW phrases, Measured(phrases)
  PROVE  IsTail(StripLeadingAll(words, phrases), words)
<1> DEFINE f == CHOOSE g : Stripped(words, phrases, Len(words), g)
<1>1. Len(words) \in Nat
  OBVIOUS
<1>2. StripLeadingAll(words, phrases) = f[Len(words)]
  BY DEF StripLeadingAll, Stripped, StrippedBy
<1>3. Stripped(words, phrases, Len(words), f)
  BY <1>1, StrippedExists
<1> HIDE DEF f
<1> DEFINE T == {n \in 0 .. Len(words) : ~IsTail(f[n], words)}
<1>4. ASSUME NEW n \in T PROVE \E j \in T : j < n
  <2>1. f[n] = IF n = 0 THEN words ELSE StrippedBy(phrases, f[n - 1])
    BY <1>3 DEF Stripped
  <2>2. n # 0
    BY <2>1, WholeAndNothing
  <2>3. n - 1 \in 0 .. Len(words) /\ n - 1 < n
    BY <1>1, <2>2
  <2>4. ASSUME IsTail(f[n - 1], words) PROVE FALSE
    <3>1. f[n - 1] \in Seq(Word)
      BY <2>4, TailTyped
    <3>2. IsTail(StrippedBy(phrases, f[n - 1]), f[n - 1])
      BY <3>1, StripLeadingTail, WholeAndNothing DEF StrippedBy
    <3>3. IsTail(f[n], words)
      BY <2>1, <2>2, <2>4, <3>2, TailOfTail
    <3> QED BY <3>3
  <2> QED BY <2>3, <2>4
<1> HIDE DEF T
<1>5. T \subseteq Nat
  BY DEF T
<1>6. T = {}
  BY <1>4, <1>5, Descent
<1> QED BY <1>1, <1>2, <1>6 DEF T


\* "please" at the end is dropped, however often.
LEMMA Dropped ==
  ASSUME NEW u \in Seq(Word)
  PROVE  \E m \in 0 .. Len(u) :
           /\ DropTrailingPlease(u) = SubSeq(u, 1, m)
           /\ m # 0 => ~IsPlease(u[m])
           /\ \A k \in m + 1 .. Len(u) : IsPlease(u[k])
<1> DEFINE kept == {i \in DOMAIN u : ~IsPlease(u[i])}
<1>1. Len(u) \in Nat /\ DOMAIN u = 1 .. Len(u)
  OBVIOUS
<1>2. CASE kept = {}
  <2>1. DropTrailingPlease(u) = SubSeq(u, 1, 0)
    BY <1>2 DEF DropTrailingPlease
  <2>2. \A k \in 0 + 1 .. Len(u) : IsPlease(u[k])
    BY <1>1, <1>2
  <2> QED BY <1>1, <2>1, <2>2
<1>3. CASE kept # {}
  <2> DEFINE m == CHOOSE n \in kept : \A j \in kept : j <= n
  <2>1. DropTrailingPlease(u) = SubSeq(u, 1, m)
    BY <1>3 DEF DropTrailingPlease
  <2>2. kept \subseteq 0 .. Len(u)
    BY <1>1
  <2>3. \E n \in kept : \A j \in kept : j <= n
    <3> HIDE DEF kept
    <3> QED BY <1>1, <1>3, <2>2, HasGreatest
  <2>4. m \in kept /\ \A j \in kept : j <= m
    <3> HIDE DEF kept
    <3> QED BY <2>3
  <2> HIDE DEF m
  <2>5. m \in 1 .. Len(u) /\ ~IsPlease(u[m])
    BY <1>1, <2>4
  <2>6. \A k \in m + 1 .. Len(u) : IsPlease(u[k])
    BY <1>1, <2>4, <2>5
  <2> QED BY <1>1, <2>1, <2>5, <2>6
<1> QED BY <1>2, <1>3

\* The front of a text.
LEMMA FrontOf ==
  ASSUME NEW u \in Seq(Word), NEW m \in 0 .. Len(u)
  PROVE  /\ SubSeq(u, 1, m) \in Seq(Word) /\ Len(SubSeq(u, 1, m)) = m
         /\ \A k \in 1 .. m : SubSeq(u, 1, m)[k] = u[k]
<1>1. Len(u) \in Nat /\ \A k \in 1 .. Len(u) : u[k] \in Word
  OBVIOUS
<1>2. m \in Int /\ 1 \in Int /\ \A k \in 1 .. m : u[k] \in Word
  BY <1>1
<1>3. /\ SubSeq(u, 1, m) \in Seq(Word)
      /\ Len(SubSeq(u, 1, m)) = IF 1 <= m THEN (m - 1) + 1 ELSE 0
      /\ \A k \in 1 .. (m - 1) + 1 : SubSeq(u, 1, m)[k] = u[(1 + k) - 1]
  BY <1>2, SubSeqProperties
<1>4. (IF 1 <= m THEN (m - 1) + 1 ELSE 0) = m /\ (m - 1) + 1 = m
      /\ \A k \in 1 .. m : (1 + k) - 1 = k
  BY <1>1
<1> QED BY <1>3, <1>4

\* What is dropped at the end of a tail is dropped at the end of the whole.
LEMMA DropFrom ==
  ASSUME NEW u \in Seq(Word), NEW i \in 1 .. Len(u), DropTrailingPlease(From(u, i)) # <<>>
  PROVE  IsTail(DropTrailingPlease(From(u, i)), DropTrailingPlease(u))
<1> DEFINE s == From(u, i)
<1>1. Len(u) \in Nat
  OBVIOUS
<1>2. s \in Seq(Word) /\ Len(s) = (Len(u) - i) + 1
      /\ \A k \in 1 .. (Len(u) - i) + 1 : s[k] = u[(i + k) - 1]
  BY <1>1, FromHere
<1>3. DropTrailingPlease(s) # <<>>
  OBVIOUS
<1> HIDE DEF s
<1>4. PICK n \in 0 .. Len(s) : /\ DropTrailingPlease(s) = SubSeq(s, 1, n)
                               /\ n # 0 => ~IsPlease(s[n])
                               /\ \A k \in n + 1 .. Len(s) : IsPlease(s[k])
  BY <1>2, Dropped
<1>5. PICK m \in 0 .. Len(u) : /\ DropTrailingPlease(u) = SubSeq(u, 1, m)
                               /\ m # 0 => ~IsPlease(u[m])
                               /\ \A k \in m + 1 .. Len(u) : IsPlease(u[k])
  BY Dropped
<1> DEFINE said == SubSeq(u, 1, m)
           left == SubSeq(s, 1, n)
<1>6. left \in Seq(Word) /\ Len(left) = n /\ \A k \in 1 .. n : left[k] = s[k]
  BY <1>2, FrontOf
<1>7. said \in Seq(Word) /\ Len(said) = m /\ \A k \in 1 .. m : said[k] = u[k]
  BY FrontOf
<1> HIDE DEF said, left
<1>8. n # 0
  <2>1. n = 0 => left = <<>>
    BY <1>6, EmptySeq
  <2> QED BY <1>3, <1>4, <2>1 DEF left
<1>9. m = (i + n) - 1
  <2>1. (i + n) - 1 \in 1 .. Len(u) /\ s[n] = u[(i + n) - 1]
    BY <1>1, <1>2, <1>8
  <2>2. m >= (i + n) - 1
    BY <1>1, <1>4, <1>5, <1>8, <2>1
  <2>3. ASSUME m > (i + n) - 1 PROVE FALSE
    <3> DEFINE k == (m - i) + 1
    <3>1. i \in Nat /\ m \in Nat /\ n \in Nat /\ m <= Len(u)
      BY <1>1
    <3>2. k \in 1 .. (Len(u) - i) + 1 /\ k \in n + 1 .. Len(s) /\ (i + k) - 1 = m /\ m # 0
      BY <1>1, <1>2, <1>8, <2>3, <3>1
    <3> HIDE DEF k
    <3>3. s[k] = u[m] /\ IsPlease(s[k])
      BY <1>2, <1>4, <3>2
    <3> QED BY <1>5, <3>2, <3>3
  <2> QED BY <1>1, <2>1, <2>2, <2>3
<1>10. i \in 1 .. Len(said) + 1 /\ (Len(said) - i) + 1 = n
  BY <1>7, <1>8, <1>9
<1>11. From(said, i) \in Seq(Word) /\ Len(From(said, i)) = n
       /\ \A k \in 1 .. n : From(said, i)[k] = said[(i + k) - 1]
  BY <1>7, <1>10, FromHere
<1>12. ASSUME NEW k \in 1 .. n PROVE left[k] = From(said, i)[k]
  <2>1. (i + k) - 1 \in 1 .. m /\ k \in 1 .. (Len(u) - i) + 1
    BY <1>1, <1>2, <1>9
  <2>2. left[k] = u[(i + k) - 1]
    BY <1>2, <1>6, <2>1
  <2>3. From(said, i)[k] = u[(i + k) - 1]
    BY <1>7, <1>11, <2>1
  <2> QED BY <2>2, <2>3
<1>13. left = From(said, i)
  BY <1>6, <1>11, <1>12, SeqEqual
<1>14. IsTail(left, said)
  BY <1>10, <1>13 DEF IsTail
<1> QED BY <1>4, <1>5, <1>14 DEF left, said, s

\* What stands behind the colon is a tail of what was said.
LEMMA QuotedTail ==
  ASSUME NEW u \in Seq(Word)
  PROVE  AtColon(u).after = <<>> \/ IsTail(AtColon(u).after, DropTrailingPlease(u))
<1> DEFINE colons == {i \in 1 .. Len(u) - 1 : u[i].end = ":"}
<1>1. Len(u) \in Nat
  OBVIOUS
<1>2. CASE colons = {}
  BY <1>2 DEF AtColon
<1>3. CASE colons # {}
  <2> DEFINE i == CHOOSE n \in colons : \A m \in colons : n <= m
  <2>1. AtColon(u).after = DropTrailingPlease(From(u, i + 1))
    BY <1>3 DEF AtColon
  <2>2. colons \subseteq Nat
    OBVIOUS
  <2>3. \E n \in colons : \A m \in colons : n <= m
    <3> HIDE DEF colons
    <3> QED BY <1>3, <2>2, HasLeast
  <2>4. i \in colons
    <3> HIDE DEF colons
    <3> QED BY <2>3
  <2> HIDE DEF i
  <2>5. i + 1 \in 1 .. Len(u)
    BY <1>1, <2>4
  <2> QED BY <2>1, <2>5, DropFrom
<1> QED BY <1>2, <1>3

\* What is left behind an introducer is a tail.
LEMMA IntroducedTail ==
  ASSUME NEW words \in Seq(Word), NEW phrases, Measured(phrases)
  PROVE  \/ AfterIntroducer(words, phrases) = NoMessage
         \/ IsTail(AfterIntroducer(words, phrases), words)
<1> DEFINE left(i, p) == StripLeadingAll(From(words, i + Len(p)), SAYING)
           at(i) == {p \in Leading(From(words, i), phrases) : left(i, p) # <<>>}
           places == {i \in DOMAIN words : at(i) # {}}
           i == CHOOSE n \in places : \A m \in places : n <= m
<1>1. Len(words) \in Nat /\ DOMAIN words = 1 .. Len(words)
  OBVIOUS
<1>2. ASSUME NEW k \in 1 .. Len(words), NEW p, Len(p) \in Nat
      PROVE  IsTail(left(k, p), words)
  <2>1. k + Len(p) \in Nat \ {0}
    BY <1>2
  <2>2. IsTail(From(words, k + Len(p)), words)
    BY <2>1, CutLeavesTail
  <2>3. From(words, k + Len(p)) \in Seq(Word)
    BY <2>2, TailTyped
  <2>4. IsTail(left(k, p), From(words, k + Len(p)))
    BY <2>3, CuesMeasured, StripAllTail
  <2> HIDE DEF left
  <2> QED BY <2>2, <2>4, TailOfTail
<1>3. AfterIntroducer(words, phrases)
        = IF places = {} THEN NoMessage ELSE left(i, Longest(at(i)))
  BY DEF AfterIntroducer
<1>4. CASE places # {}
  <2>1. places \subseteq Nat
    BY <1>1
  <2>2. \E n \in places : \A m \in places : n <= m
    <3> HIDE DEF places
    <3> QED BY <1>4, <2>1, HasLeast
  <2>3. i \in places
    <3> HIDE DEF places
    <3> QED BY <2>2
  <2> HIDE DEF i
  <2>4. i \in 1 .. Len(words) /\ at(i) # {} /\ at(i) \subseteq Leading(From(words, i), phrases)
    BY <1>1, <2>3
  <2>5. From(words, i) \in Seq(Word)
    BY <1>1, <2>4, FromHere
  <2> HIDE DEF at, left, places
  <2>6. Len(Longest(at(i))) \in Nat
    BY <1>1, <2>4, <2>5, LongestLeads
  <2>7. IsTail(left(i, Longest(at(i))), words)
    BY <1>2, <2>4, <2>6
  <2> QED BY <1>3, <1>4, <2>7
<1> HIDE DEF places, left, at, i
<1> QED BY <1>3, <1>4

\* What is left behind "called" is a tail.
LEMMA NamedTail ==
  ASSUME NEW words \in Seq(Word)
  PROVE  AfterNameIntroducer(words) = NoMessage \/ IsTail(AfterNameIntroducer(words), words)
<1> DEFINE left(i) == StripLeading(From(words, i), NAME_INTRODUCERS)
           places == {i \in 2 .. Len(words) :
                        /\ words[i - 1].is \in NAMED_THINGS /\ words[i - 1].end \notin {",", ":"}
                        /\ Leading(From(words, i), NAME_INTRODUCERS) # {}
                        /\ left(i) # <<>>}
           i == CHOOSE n \in places : \A m \in places : n <= m
<1>1. Len(words) \in Nat
  OBVIOUS
<1>2. AfterNameIntroducer(words) = IF places = {} THEN NoMessage ELSE left(i)
  BY DEF AfterNameIntroducer
<1>3. CASE places # {}
  <2>1. places \subseteq Nat
    <3>1. \A n \in places : n \in 2 .. Len(words)
      <4> HIDE DEF left
      <4> QED BY Zenon
    <3>2. 2 .. Len(words) \subseteq Nat
      OBVIOUS
    <3> HIDE DEF places
    <3> QED BY <3>1, <3>2
  <2>2. \E n \in places : \A m \in places : n <= m
    <3> HIDE DEF places
    <3> QED BY <1>3, <2>1, HasLeast
  <2>3. i \in places
    <3> HIDE DEF places
    <3> QED BY <2>2
  <2> HIDE DEF i
  <2>4. i \in 2 .. Len(words) /\ Leading(From(words, i), NAME_INTRODUCERS) # {}
    BY <2>3
  <2>5. i \in 1 .. Len(words) + 1
    BY <1>1, <2>4
  <2>6. From(words, i) \in Seq(Word) /\ IsTail(From(words, i), words)
    BY <2>5, FromHere DEF IsTail
  <2>7. IsTail(left(i), From(words, i))
    BY <2>4, <2>6, CuesMeasured, StripLeadingTail
  <2> HIDE DEF left, places
  <2>8. IsTail(left(i), words)
    BY <2>6, <2>7, TailOfTail
  <2> QED BY <1>2, <1>3, <2>8
<1> HIDE DEF places, left, i
<1> QED BY <1>2, <1>3

\* A message is what was said, from some word on.
LEMMA SaidFrom ==
  ASSUME NEW intent, NEW utterance \in Seq(Word)
  PROVE  AsItWasSaid(intent, utterance)
<1> DEFINE message == StripCue(intent, utterance)
           said == DropTrailingPlease(utterance)
           after == AtColon(utterance).after
           quoted == IF intent = "key" THEN <<>> ELSE after
           words == StripLeadingAll(said, POLITE_PREFIXES)
           cued == Uncued(intent, words, quoted)
           rest == Named(intent, cued)
           Left(t) == t = NoMessage \/ IsTail(t, said)
<1>1. said \in Seq(Word)
  BY Dropped, FrontOf
<1>2. IsTail(words, said) /\ words \in Seq(Word)
  <2>1. IsTail(words, said)
    BY <1>1, CuesMeasured, StripAllTail
  <2> HIDE DEF words, said
  <2> QED BY <1>1, <2>1, TailTyped
<1>3. Left(quoted)
  BY QuotedTail DEF NoMessage
<1>4. message = NoMessage \/ message = Join(quoted) \/ message = Join(rest)
  BY DEF StripCue
<1> HIDE DEF message, words, quoted, after, said
<1>5. Left(cued)
  <2>1. ASSUME NEW t, IsTail(t, words) PROVE IsTail(t, said)
    BY <1>1, <1>2, <2>1, TailOfTail
  <2>2. CASE Leading(words, Cues(intent)) # {}
    <3>1. IsTail(StripLeading(words, Cues(intent)), words)
      BY <1>2, <2>2, CuesMeasured, StripLeadingTail
    <3>2. cued = StripLeading(words, Cues(intent))
      BY <2>2 DEF Uncued
    <3> QED BY <2>1, <3>1, <3>2
  <2>3. CASE Leading(words, Cues(intent)) = {}
    <3>1. Left(AfterIntroducer(words, INTRODUCERS))
      BY <1>2, <2>1, CuesMeasured, IntroducedTail
    <3>2. cued = NoMessage \/ cued = AfterIntroducer(words, INTRODUCERS) \/ cued = quoted
      BY <2>3 DEF Uncued, IfAny
    <3> QED BY <1>3, <3>1, <3>2
  <2> QED BY <2>2, <2>3
<1> HIDE DEF cued
<1>6. Left(rest)
  <2>1. rest = cued \/ (rest = AfterNameIntroducer(cued) /\ cued # NoMessage)
        \/ cued = NoMessage
    BY DEF Named, IfAny
  <2>2. CASE cued # NoMessage
    <3>1. IsTail(cued, said) /\ cued \in Seq(Word)
      BY <1>1, <1>5, <2>2, TailTyped
    <3>2. Left(AfterNameIntroducer(cued))
      BY <1>1, <3>1, NamedTail, TailOfTail
    <3> QED BY <1>5, <2>1, <2>2, <3>2
  <2>3. CASE cued = NoMessage
    <3>1. <<>> \in Seq(Word) /\ Len(<<>>) = 0
      BY EmptySeq
    <3>2. AfterNameIntroducer(<<>>) = NoMessage
      <4>1. \A i : i \notin 2 .. Len(<<>>)
        BY <3>1
      <4> QED BY <4>1 DEF AfterNameIntroducer
    <3> QED BY <2>3, <3>2 DEF Named, IfAny, NoMessage
  <2> QED BY <2>2, <2>3
<1> HIDE DEF rest
<1>7. ASSUME NEW t, Left(t)
      PROVE  Join(t) = NoMessage \/ \E i \in DOMAIN said : Join(t) = Join(From(said, i))
  <2>1. CASE t = <<>>
    BY <2>1 DEF Join, NoMessage
  <2>2. CASE t # <<>>
    <3>1. PICK i \in 1 .. Len(said) + 1 : t = From(said, i)
      BY <1>7, <2>2 DEF IsTail, NoMessage
    <3>2. i # Len(said) + 1
      BY <1>1, <2>2, <3>1, SubSeqEmpty DEF From
    <3>3. i \in DOMAIN said
      BY <1>1, <3>1, <3>2
    <3> QED BY <3>1, <3>3
  <2> QED BY <2>1, <2>2
<1> QED BY <1>3, <1>4, <1>6, <1>7 DEF message, said, AsItWasSaid

\* Joining keeps the number of words.
LEMMA JoinLength ==
  ASSUME NEW t \in Seq(Word)
  PROVE  Len(Join(t)) = Len(t)
<1>1. CASE Join(t) # t
  <2> DEFINE m == Len(t) - 1
             front == SubSeq(t, 1, m)
             l == [t[Len(t)] EXCEPT !.end = ""]
             S == Word \cup {l}
  <2>1. t # <<>> /\ Join(t) = Append(front, l)
    BY <1>1 DEF Join, Front, Last
  <2>2. m \in 0 .. Len(t) /\ m + 1 = Len(t)
    <3>1. Len(t) \in Nat /\ (Len(t) = 0 => t = <<>>)
      BY EmptySeq
    <3>2. \A n \in Nat : n # 0 => n - 1 \in 0 .. n /\ (n - 1) + 1 = n
      OBVIOUS
    <3> QED BY <2>1, <3>1, <3>2
  <2>3. front \in Seq(Word) /\ Len(front) = m
    BY <2>2, FrontOf
  <2>4. Word \subseteq S /\ l \in S
    OBVIOUS
  <2> HIDE DEF front, l, S, m
  <2>5. front \in Seq(S)
    BY <2>3, <2>4, SeqMonotonic
  <2>6. Len(Append(front, l)) = m + 1
    BY <2>3, <2>4, <2>5, AppendProperties
  <2> QED BY <2>1, <2>2, <2>6
<1> QED BY <1>1

\* A message is what was said, from some word on: the politeness before the request and its
\* cue go, and the "please" at its end, but nothing is left out between, nothing added and
\* nothing moved, and where no colon marks it nothing of the longest cue stays in it
\* (payload.rs, strip_cue), whatever is said and whichever cue is found.
THEOREM MessagesAreHeard ==
  ASSUME NEW intent, NEW utterance \in Seq(Word)
  PROVE  AsItWasSaid(intent, utterance) /\ BehindItsCue(intent, utterance)
<1> DEFINE message == StripCue(intent, utterance)
           said == DropTrailingPlease(utterance)
           words == StripLeadingAll(said, POLITE_PREFIXES)
           leading == Leading(words, Cues(intent))
           cued == StripLeading(words, Cues(intent))
           rest == Named(intent, cued)
<1> SUFFICES ASSUME AtColon(utterance).after = <<>>, NEW cue \in leading
             PROVE  Len(message) <= Len(words) - Len(cue)
  BY SaidFrom DEF BehindItsCue
<1>1. Cues(intent) # {} /\ leading # {}
  BY DEF Leading
<1>2. message = Join(rest)
  <2> DEFINE quoted == IF intent = "key" THEN <<>> ELSE AtColon(utterance).after
  <2>1. quoted = <<>>
    OBVIOUS
  <2>2. message = Join(Named(intent, Uncued(intent, words, quoted)))
    <3> HIDE DEF words
    <3>1. CASE quoted # <<>>
      BY <2>1, <3>1
    <3>2. CASE quoted = <<>>
      BY <1>1, <3>2 DEF StripCue, words
    <3> QED BY <3>1, <3>2
  <2> HIDE DEF quoted, words, message
  <2>3. Uncued(intent, words, quoted) = cued
    BY <1>1 DEF Uncued
  <2> QED BY <2>2, <2>3
<1>3. words \in Seq(Word)
  <2>1. said \in Seq(Word)
    BY Dropped, FrontOf
  <2> HIDE DEF said
  <2>2. IsTail(words, said)
    BY <2>1, CuesMeasured, StripAllTail
  <2> HIDE DEF words
  <2> QED BY <2>1, <2>2, TailTyped
<1> HIDE DEF words, message
<1> DEFINE long == Len(Longest(leading))
<1>4. long \in 0 .. Len(words) /\ Len(cue) <= long /\ Len(cue) \in Nat
  <2>1. Measured(Cues(intent)) /\ leading \subseteq Leading(words, Cues(intent))
    BY CuesMeasured
  <2>2. Len(cue) \in Nat
    BY <2>1 DEF Measured, Leading
  <2> QED BY <1>1, <1>3, <2>1, <2>2, LongestLeads
<1>5. cued \in Seq(Word) /\ Len(cued) = Len(words) - long
  <2>1. cued = From(words, long + 1)
    BY DEF StripLeading
  <2>2. Len(words) \in Nat
    BY <1>3
  <2>3. long + 1 \in 1 .. Len(words) + 1 /\ (Len(words) - (long + 1)) + 1 = Len(words) - long
    BY <1>4, <2>2
  <2> HIDE DEF long, cued
  <2> QED BY <1>3, <2>1, <2>3, FromHere
<1> HIDE DEF cued, long
<1>6. rest \in Seq(Word) /\ Len(rest) <= Len(cued)
  <2>1. \/ rest = cued
        \/ rest = AfterNameIntroducer(cued) /\ rest # NoMessage
    BY DEF Named, IfAny
  <2>2. AfterNameIntroducer(cued) # NoMessage => IsTail(AfterNameIntroducer(cued), cued)
    BY <1>5, NamedTail
  <2> HIDE DEF rest
  <2>3. Len(cued) \in Nat
    BY <1>5
  <2> QED BY <1>5, <2>1, <2>2, <2>3, TailTyped
<1> HIDE DEF rest
<1>7. Len(message) = Len(rest)
  BY <1>2, <1>6, JoinLength
<1>8. Len(words) \in Nat /\ Len(rest) \in Nat /\ Len(cued) \in Nat
  BY <1>3, <1>5, <1>6
<1> QED BY <1>4, <1>5, <1>6, <1>7, <1>8 DEF message, words

-----------------------------------------------------------------------------
(* Judging. *)

\* What may be put to the model, for any apps and windows.
CandidatesOf(App, Win) ==
  [utterance : Seq(Word), apps : Seq(App), windows : Seq(Win), spans : Nat,
   desktop_count : Nat, last_dictation : BOOLEAN]

\* What is known of an answer is how likely it is.
Likely(resp) ==
  \A id \in DOMAIN resp :
    /\ resp[id].type \in {"choice", "noul"} => resp[id].p \in Nat
    /\ resp[id].type = "choice" => resp[id].text \in Nat \cup {NoAnswer}

\* Thresholds, in hundredths.
Policies == [min : Nat, act : Nat, destructive : Nat, dictation : Nat]

\* What an intent says.
FIELDS ==
  {"verdict", "name", "query", "n", "words", "window_id", "entry_id", "confidence",
   "destructive", "dictation"}

\* An intent as it is built.
Formed(b) == b.verdict = "act" /\ DOMAIN b = FIELDS

\* Every intent starts out the same.
LEMMA Fresh ==
  ASSUME NEW name
  PROVE  /\ Formed(Intent(name)) /\ Intent(name).name = name /\ Intent(name).query = ""
         /\ Intent(name).n = 0 /\ Intent(name).words = <<>> /\ Intent(name).window_id = ""
         /\ Intent(name).entry_id = ""
  BY DEF Intent, Formed, FIELDS

\* What is built on it is an intent with these fields.
LEMMA Kept ==
  ASSUME NEW b, Formed(b), NEW c, NEW d, NEW e
  PROVE  LET it == [b EXCEPT !.confidence = c, !.destructive = d, !.dictation = e]
         IN /\ it.verdict = "act" /\ it.name = b.name /\ it.query = b.query /\ it.n = b.n
            /\ it.words = b.words /\ it.window_id = b.window_id /\ it.entry_id = b.entry_id
            /\ it.confidence = c /\ it.destructive = d /\ it.dictation = e
  BY DEF Formed, FIELDS

\* An intent with one argument is as fresh otherwise.
AtWindow(name, q, i) == [Intent(name) EXCEPT !.query = q, !.window_id = i]
AtApp(name, q, i) == [Intent(name) EXCEPT !.query = q, !.entry_id = i]
Names(b, name, q, window_id, entry_id) ==
  /\ Formed(b) /\ b.name = name /\ b.query = q /\ b.window_id = window_id
  /\ b.entry_id = entry_id /\ b.words = <<>>

\* Of a window.
LEMMA WithWindow ==
  ASSUME NEW name, NEW q, NEW i
  PROVE  Names(AtWindow(name, q, i), name, q, i, "")
  BY DEF Intent, Formed, FIELDS, AtWindow, Names

\* Of an app.
LEMMA WithApp ==
  ASSUME NEW name, NEW q, NEW i
  PROVE  Names(AtApp(name, q, i), name, q, "", i)
  BY DEF Intent, Formed, FIELDS, AtApp, Names

\* Of a query.
LEMMA WithQuery ==
  ASSUME NEW name, NEW q
  PROVE  LET b == [Intent(name) EXCEPT !.query = q]
         IN /\ Formed(b) /\ b.name = name /\ b.window_id = "" /\ b.entry_id = ""
            /\ b.words = <<>>
  BY DEF Intent, Formed, FIELDS

\* Of a number.
LEMMA WithNumber ==
  ASSUME NEW name, NEW n
  PROVE  LET b == [Intent(name) EXCEPT !.n = n]
         IN /\ Formed(b) /\ b.name = name /\ b.n = n /\ b.window_id = "" /\ b.entry_id = ""
            /\ b.words = <<>>
  BY DEF Intent, Formed, FIELDS

\* Of words.
LEMMA Worded ==
  ASSUME NEW name, NEW w
  PROVE  LET b == [Intent(name) EXCEPT !.words = w]
         IN /\ Formed(b) /\ b.name = name /\ b.words = w /\ b.window_id = ""
            /\ b.entry_id = ""
  BY DEF Intent, Formed, FIELDS

\* What runs unasked is clear, likely, harmless and no prose.
LEMMA WhatActs ==
  ASSUME NEW policy, NEW resp, NEW it, Decision(policy, resp, it) = "act"
  PROVE  /\ it # Unclear /\ ~IsProse(policy, Dictation(resp)) /\ ~AlwaysAsked(it.name)
         /\ it.destructive # NoAnswer /\ ~(it.destructive >= policy.destructive)
         /\ it.dictation # NoAnswer /\ ~IsProse(policy, it.dictation)
         /\ ~(it.confidence < policy.act)
  BY DEF Decision, PolicyDecides


\* An intent on offer is an action, and "edit_text" is offered behind a dictation only.
LEMMA OnOffer ==
  ASSUME NEW cand, NEW resp, Chosen(cand, resp, "intent")
  PROVE  LET name == resp["intent"].key.kind
         IN name \in Actions /\ (name = "edit_text" => cand.last_dictation)
<1> DEFINE key == resp["intent"].key
<1>1. key \in OfferedIntents(cand) /\ key # NO_TARGET
  BY DEF Chosen, Options
<1> HIDE DEF key
<1>2. PICK a \in Actions : key = Option(a) /\ (a # "edit_text" \/ cand.last_dictation)
  BY <1>1 DEF OfferedIntents
<1>3. key.kind = a
  BY <1>2 DEF Option
<1> QED BY <1>2, <1>3 DEF key

\* A target on offer is there.
LEMMA Targets ==
  ASSUME NEW App, NEW Win, NEW cand \in CandidatesOf(App, Win),
         NEW key \in Options(cand, "target")
  PROVE  /\ key.kind = "window" => cand.windows[key.n + 1] \in Range(cand.windows)
         /\ key.kind = "app" => cand.apps[key.n + 1] \in Range(cand.apps)
         /\ key.kind \in {"window", "app", "focused", "none"}
         /\ key.kind = "focused" => key = FOCUSED
         /\ key.kind = "none" => key = NO_TARGET
<1>1. cand.windows \in Seq(Win) /\ cand.apps \in Seq(App)
  BY DEF CandidatesOf
<1>2. \/ key \in Counted("app", 0 .. Len(cand.apps) - 1)
      \/ key \in Counted("window", 0 .. Len(cand.windows) - 1)
      \/ key = FOCUSED \/ key = NO_TARGET
  BY DEF Options
<1>3. FOCUSED.kind = "focused" /\ NO_TARGET.kind = "none"
  BY DEF FOCUSED, NO_TARGET, Option
<1>4. CASE key \in Counted("app", 0 .. Len(cand.apps) - 1)
  <2>1. key.kind = "app" /\ key.n \in 0 .. Len(cand.apps) - 1
    BY <1>4 DEF Counted
  <2>2. key.n + 1 \in DOMAIN cand.apps
    BY <1>1, <2>1
  <2> QED BY <2>1, <2>2 DEF Range
<1>5. CASE key \in Counted("window", 0 .. Len(cand.windows) - 1)
  <2>1. key.kind = "window" /\ key.n \in 0 .. Len(cand.windows) - 1
    BY <1>5 DEF Counted
  <2>2. key.n + 1 \in DOMAIN cand.windows
    BY <1>1, <2>1
  <2> QED BY <2>1, <2>2 DEF Range
<1> QED BY <1>2, <1>3, <1>4, <1>5

\* What is built of its answer is sound: it is named as it was meant, has an argument that is
\* there, and says what was said.
Meant(name, b) == b.name = name \/ (name = "show_app" /\ b.name \in {"focus_window", "launch_app"})
Heard(cand, words) == \A w \in Range(words) : w.is \in {u.is : u \in Range(cand.utterance)}
There(cand, b) ==
  /\ b.window_id # "" => \E w \in Range(cand.windows) : w.id = b.window_id /\ w.title = b.query
  /\ b.entry_id # "" => \E a \in Range(cand.apps) : a.id = b.entry_id /\ a.name = b.query
Sound(cand, resp, name, b) ==
  /\ Formed(b) /\ Meant(name, b) /\ There(cand, b)
  /\ name = "virtual_desktop" => b.n \in 1 .. cand.desktop_count
  /\ name # "key" => Heard(cand, b.words)
  /\ \/ Reads(cand, name) = "nothing" \/ Chosen(cand, resp, Reads(cand, name))
     \/ name = "start_claude" /\ Reads(cand, name) = "claude_model"

\* Nothing is heard where no words are.
LEMMA NothingHeard == \A cand : Heard(cand, <<>>)
<1>1. Range(<<>>) = {}
  BY DEF Range
<1> QED BY <1>1 DEF Heard

\* An intent on a window or an app.
LEMMA TargetSound ==
  ASSUME NEW App, NEW Win, NEW cand \in CandidatesOf(App, Win), NEW resp, NEW name,
         name \in {"show_app", "close_window", "minimize_window", "maximize_window"},
         Argued(cand, resp, name) # Unclear
  PROVE  Sound(cand, resp, name, Argued(cand, resp, name))
<1> DEFINE key == resp["target"].key
           b == Argued(cand, resp, name)
           w == cand.windows[key.n + 1]
           app == cand.apps[key.n + 1]
<1>1. Chosen(cand, resp, "target") /\ b = OnTarget(cand, name, key)
  BY DEF Argued
<1>2. key \in Options(cand, "target") /\ Reads(cand, name) = "target"
  BY <1>1 DEF Chosen, Reads
<1>3. name # "virtual_desktop" /\ name # "key"
  OBVIOUS
<1> HIDE DEF b, key
<1>4. b # Unclear
  BY DEF b
<1>5. CASE key.kind = "window"
  <2> DEFINE to == IF name = "show_app" THEN "focus_window" ELSE name
             q == w.title
             i == w.id
  <2>1. b = AtWindow(to, q, i)
    BY <1>1, <1>5 DEF OnTarget, AtWindow
  <2>2. Names(b, to, q, i, "")
    <3> HIDE DEF to, q, i
    <3> QED BY <2>1, WithWindow
  <2>3. w \in Range(cand.windows)
    BY <1>2, <1>5, Targets DEF w
  <2> QED BY <1>1, <1>2, <1>3, <2>2, <2>3, NothingHeard DEF Sound, Meant, There, Names, b
<1>6. CASE key.kind = "app"
  <2>1. CASE name = "show_app"
    <3> DEFINE q == app.name
               i == app.id
    <3>1. b = AtApp("launch_app", q, i)
      BY <1>1, <1>6, <2>1 DEF OnTarget, AtApp
    <3>2. Names(b, "launch_app", q, "", i)
      <4> HIDE DEF q, i
      <4> QED BY <3>1, WithApp
    <3>3. app \in Range(cand.apps)
      BY <1>2, <1>6, Targets DEF app
    <3> QED BY <1>1, <1>2, <1>3, <2>1, <3>2, <3>3, NothingHeard DEF Sound, Meant, There, Names, b
  <2>2. CASE name # "show_app"
    <3>1. b = [Intent(name) EXCEPT !.query = app.name]
      BY <1>1, <1>6, <2>2 DEF OnTarget
    <3> HIDE DEF w, app
    <3>2. /\ Formed(b) /\ b.name = name /\ b.window_id = "" /\ b.entry_id = "" /\ b.words = <<>>
      BY <3>1, WithQuery
    <3> QED BY <1>1, <1>2, <1>3, <3>2, NothingHeard DEF Sound, Meant, There, b
  <2> QED BY <2>1, <2>2
<1>7. CASE key.kind \notin {"window", "app"}
  <2>1. b = Intent(name)
    BY <1>1, <1>4, <1>7 DEF OnTarget
  <2>2. /\ Formed(b) /\ b.name = name /\ b.window_id = "" /\ b.entry_id = "" /\ b.words = <<>>
    BY <2>1, Fresh
  <2> QED BY <1>1, <1>2, <1>3, <2>2, NothingHeard DEF Sound, Meant, There, b
<1> QED BY <1>5, <1>6, <1>7

\* An intent with a desktop, a direction or a model.
LEMMA ArgumentSound ==
  ASSUME NEW App, NEW Win, NEW cand \in CandidatesOf(App, Win), NEW resp, NEW name,
         name \in {"virtual_desktop", "virtual_desktop_rel", "start_claude", "claude_model",
                   "open_terminal", "claude_read"},
         Argued(cand, resp, name) # Unclear
  PROVE  Sound(cand, resp, name, Argued(cand, resp, name))
<1> DEFINE b == Argued(cand, resp, name)
           NamesNothing(x) == /\ Formed(x) /\ x.name = name /\ x.window_id = "" /\ x.entry_id = ""
                       /\ x.words = <<>>
<1>1. ASSUME NamesNothing(b), name = "virtual_desktop" => b.n \in 1 .. cand.desktop_count,
             \/ Reads(cand, name) = "nothing" \/ Chosen(cand, resp, Reads(cand, name))
             \/ name = "start_claude" /\ Reads(cand, name) = "claude_model"
      PROVE  Sound(cand, resp, name, b)
  <2> HIDE DEF b
  <2>1. name # "key"
    OBVIOUS
  <2> QED BY <1>1, <2>1, NothingHeard DEF Sound, Meant, There
<1>2. CASE name = "virtual_desktop"
  <2> DEFINE n == resp["desktop_number"].key.n
  <2>1. /\ Chosen(cand, resp, "desktop_number") /\ n \in 1 .. cand.desktop_count
        /\ b = [Intent(name) EXCEPT !.n = n] /\ Reads(cand, name) = "desktop_number"
    BY <1>2 DEF Argued, Reads
  <2> HIDE DEF b, n
  <2>2. NamesNothing(b) /\ b.n = n
    BY <2>1, WithNumber
  <2> QED BY <1>1, <2>1, <2>2 DEF b
<1>3. CASE name = "virtual_desktop_rel"
  <2> DEFINE n == IF resp["desktop_direction"].key = Option("next") THEN 1 ELSE -1
  <2>1. /\ Chosen(cand, resp, "desktop_direction")
        /\ b = [Intent(name) EXCEPT !.n = n] /\ Reads(cand, name) = "desktop_direction"
    BY <1>3 DEF Argued, Reads
  <2> HIDE DEF b, n
  <2>2. NamesNothing(b)
    BY <2>1, WithNumber
  <2> QED BY <1>1, <1>3, <2>1, <2>2 DEF b
<1>4. CASE name \in {"start_claude", "claude_model"}
  <2>1. Reads(cand, name) = "claude_model"
    BY <1>4 DEF Reads
  <2>2. CASE Chosen(cand, resp, "claude_model")
    <3> DEFINE q == resp["claude_model"].key.kind
    <3>1. b = [Intent(name) EXCEPT !.query = q]
      BY <1>4, <2>2 DEF Argued
    <3> HIDE DEF b, q
    <3>2. NamesNothing(b)
      BY <3>1, WithQuery
    <3> QED BY <1>1, <1>4, <2>1, <2>2, <3>2 DEF b
  <2>3. CASE ~Chosen(cand, resp, "claude_model")
    <3>1. name = "start_claude" /\ b = Intent(name)
      BY <1>4, <2>3 DEF Argued
    <3> HIDE DEF b
    <3>2. NamesNothing(b)
      BY <3>1, Fresh
    <3> QED BY <1>1, <2>1, <3>1, <3>2 DEF b
  <2> QED BY <2>2, <2>3
<1>5. CASE name \in {"open_terminal", "claude_read"}
  <2>1. b = Intent(name) /\ Reads(cand, name) = "nothing"
    BY <1>5 DEF Argued, Reads
  <2> HIDE DEF b
  <2>2. NamesNothing(b)
    BY <2>1, Fresh
  <2> QED BY <1>1, <1>5, <2>1, <2>2 DEF b
<1> QED BY <1>2, <1>3, <1>4, <1>5


\* The words of a tail were said.
LEMMA TailHeard ==
  ASSUME NEW u \in Seq(Word), NEW s, IsTail(s, u)
  PROVE  \A w \in Range(s) : w \in Range(u)
<1>1. PICK i \in 1 .. Len(u) + 1 : s = From(u, i)
  BY DEF IsTail
<1>2. /\ s \in Seq(Word) /\ Len(s) = (Len(u) - i) + 1
      /\ \A k \in 1 .. (Len(u) - i) + 1 : s[k] = u[(i + k) - 1]
  BY <1>1, FromHere
<1>3. ASSUME NEW w \in Range(s) PROVE w \in Range(u)
  <2>1. PICK k \in 1 .. (Len(u) - i) + 1 : w = s[k]
    BY <1>2, <1>3 DEF Range
  <2>2. Len(u) \in Nat /\ (i + k) - 1 \in 1 .. Len(u)
    BY <2>1
  <2>3. (i + k) - 1 \in DOMAIN u /\ w = u[(i + k) - 1]
    BY <1>2, <2>1, <2>2
  <2> QED BY <2>3 DEF Range
<1> QED BY <1>3

\* JoinedMeasured words are the same words, whatever the last one ends in.
LEMMA JoinHeard ==
  ASSUME NEW t \in Seq(Word)
  PROVE  \A w \in Range(Join(t)) : \E v \in Range(t) : w.is = v.is
<1>1. Len(t) \in Nat /\ DOMAIN t = 1 .. Len(t) /\ \A k \in 1 .. Len(t) : t[k] \in Word
  OBVIOUS
<1>2. CASE Join(t) = t
  BY <1>2
<1>3. CASE Join(t) # t
  <2> DEFINE m == Len(t) - 1
             front == SubSeq(t, 1, m)
             l == [t[Len(t)] EXCEPT !.end = ""]
  <2>1. t # <<>> /\ Join(t) = Append(front, l)
    BY <1>3 DEF Join, Front, Last
  <2>2. Len(t) # 0 /\ m \in 0 .. Len(t)
    <3>1. Len(t) = 0 => t = <<>>
      BY EmptySeq
    <3>2. Len(t) # 0
      BY <2>1, <3>1
    <3>3. \A n \in Nat : n # 0 => n - 1 \in 0 .. n
      OBVIOUS
    <3> QED BY <1>1, <3>2, <3>3
  <2>3. front \in Seq(Word) /\ Len(front) = m /\ \A k \in 1 .. m : front[k] = t[k]
    BY <2>2, FrontOf
  <2>4. l.is = t[Len(t)].is
    <3>1. t[Len(t)] \in Word
      BY <1>1, <2>2
    <3> QED BY <3>1 DEF Word
  <2> HIDE DEF front, l
  <2> DEFINE S == Word \cup {l}
  <2>5. /\ Append(front, l) \in Seq(S) /\ Len(Append(front, l)) = Len(t)
        /\ \A k \in 1 .. m : Append(front, l)[k] = t[k]
        /\ Append(front, l)[Len(t)] = l
    <3>1. Word \subseteq S /\ l \in S
      OBVIOUS
    <3> HIDE DEF S
    <3>2. front \in Seq(S)
      BY <2>3, <3>1, SeqMonotonic
    <3>3. /\ Append(front, l) \in Seq(S) /\ Len(Append(front, l)) = m + 1
          /\ \A k \in 1 .. m : Append(front, l)[k] = front[k]
          /\ Append(front, l)[m + 1] = l
      BY <2>3, <3>1, <3>2, AppendProperties
    <3>4. m + 1 = Len(t)
      BY <1>1
    <3> QED BY <2>3, <3>3, <3>4
  <2> HIDE DEF S
  <2>6. ASSUME NEW w \in Range(Join(t)) PROVE \E v \in Range(t) : w.is = v.is
    <3>1. PICK k \in 1 .. Len(t) : w = Append(front, l)[k]
      BY <2>1, <2>5, <2>6 DEF Range
    <3>2. w.is = t[k].is
      <4>1. CASE k = Len(t)
        BY <2>4, <2>5, <3>1, <4>1
      <4>2. CASE k # Len(t)
        <5>1. \A n \in Nat : \A j \in 1 .. n : j # n => j \in 1 .. n - 1
          OBVIOUS
        <5>2. k \in 1 .. m
          BY <1>1, <4>2, <5>1
        <5> QED BY <2>5, <3>1, <5>2
      <4> QED BY <4>1, <4>2
    <3>3. t[k] \in Range(t)
      BY <1>1 DEF Range
    <3> QED BY <3>2, <3>3
  <2> QED BY <2>6
<1> QED BY <1>2, <1>3

\* A message found by its cue is heard.
LEMMA CueHeard ==
  ASSUME NEW App, NEW Win, NEW cand \in CandidatesOf(App, Win), NEW intent
  PROVE  Heard(cand, StripCue(intent, cand.utterance))
<1> DEFINE u == cand.utterance
           message == StripCue(intent, u)
           said == DropTrailingPlease(u)
<1>1. u \in Seq(Word)
  BY DEF CandidatesOf
<1> HIDE DEF u
<1>2. PICK m \in 0 .. Len(u) : said = SubSeq(u, 1, m)
  BY <1>1, Dropped
<1>3. said \in Seq(Word) /\ Len(said) = m /\ \A k \in 1 .. m : said[k] = u[k]
  BY <1>1, <1>2, FrontOf
<1>4. \A w \in Range(said) : w \in Range(u)
  <2>1. Len(u) \in Nat /\ DOMAIN u = 1 .. Len(u) /\ DOMAIN said = 1 .. m
    BY <1>1, <1>3
  <2> HIDE DEF said
  <2> QED BY <1>3, <2>1 DEF Range
<1>5. message = NoMessage \/ \E i \in DOMAIN said : message = Join(From(said, i))
  BY <1>1, MessagesAreHeard DEF AsItWasSaid
<1> HIDE DEF message, said
<1>6. CASE message = NoMessage
  BY <1>6, NothingHeard DEF NoMessage, message, u
<1>7. CASE message # NoMessage
  <2>1. PICK i \in DOMAIN said : message = Join(From(said, i))
    BY <1>5, <1>7
  <2>2. i \in 1 .. Len(said) + 1
    BY <1>3, <2>1
  <2>3. IsTail(From(said, i), said) /\ From(said, i) \in Seq(Word)
    BY <1>3, <2>2, FromHere DEF IsTail
  <2>4. \A w \in Range(From(said, i)) : w \in Range(said)
    BY <1>3, <2>3, TailHeard
  <2>5. \A w \in Range(message) : \E v \in Range(From(said, i)) : w.is = v.is
    BY <2>1, <2>3, JoinHeard
  <2>6. \A w \in Range(message) : \E v \in Range(u) : w.is = v.is
    BY <1>4, <2>4, <2>5
  <2>7. Heard(cand, message)
    BY <2>6 DEF Heard, u
  <2> QED BY <2>7 DEF message, u
<1> QED BY <1>6, <1>7

\* So is one that the model marks off.
LEMMA SpanHeard ==
  ASSUME NEW App, NEW Win, NEW cand \in CandidatesOf(App, Win),
         NEW key \in Options(cand, "payload") \ {NO_TARGET}
  PROVE  /\ IsTail(Span(cand, key), cand.utterance) /\ Heard(cand, Span(cand, key))
         /\ cand.spans <= Len(cand.utterance) /\ cand.utterance # <<>> => Span(cand, key) # <<>>
<1> DEFINE u == cand.utterance
           s == Span(cand, key)
<1>1. u \in Seq(Word) /\ Len(u) \in Nat /\ cand.spans \in Nat
  BY DEF CandidatesOf
<1>2. key = WHOLE \/ key.n \in 1 .. cand.spans - 1
  BY DEF Options, Counted
<1>3. s = IF key = WHOLE THEN u ELSE From(u, key.n + 1)
  BY DEF Span
<1>4. s = u \/ (key.n \in 1 .. cand.spans - 1 /\ s = From(u, key.n + 1))
  BY <1>2, <1>3
<1> HIDE DEF u, s
<1>5. IsTail(s, u)
  <2>1. key.n \in 1 .. cand.spans - 1 => key.n + 1 \in Nat \ {0}
    BY <1>1
  <2> QED BY <1>1, <1>4, <2>1, CutLeavesTail, WholeAndNothing
<1>6. Heard(cand, s)
  <2>1. \A w \in Range(s) : w \in Range(u)
    BY <1>1, <1>5, TailHeard
  <2> QED BY <2>1 DEF Heard, u
<1>7. cand.spans <= Len(u) /\ u # <<>> => s # <<>>
  <2>1. ASSUME cand.spans <= Len(u), key.n \in 1 .. cand.spans - 1
        PROVE  From(u, key.n + 1) # <<>>
    <3>1. key.n + 1 \in 1 .. Len(u) /\ key.n + 1 \in 1 .. Len(u) + 1
      BY <1>1, <2>1
    <3>2. /\ From(u, key.n + 1) \in Seq(Word)
          /\ Len(From(u, key.n + 1)) = (Len(u) - (key.n + 1)) + 1
      BY <1>1, <3>1, FromHere
    <3>3. Len(From(u, key.n + 1)) # 0
      BY <1>1, <3>1, <3>2
    <3> QED BY <3>2, <3>3, EmptySeq
  <2> QED BY <1>4, <2>1
<1> QED BY <1>5, <1>6, <1>7 DEF u, s


\* An intent with words.
LEMMA WordsSound ==
  ASSUME NEW App, NEW Win, NEW cand \in CandidatesOf(App, Win), NEW resp, NEW name,
         name \in {"krunner", "claude_tell", "notify", "edit_text"},
         Argued(cand, resp, name) # Unclear
  PROVE  Sound(cand, resp, name, Argued(cand, resp, name))
<1> DEFINE b == Argued(cand, resp, name)
           Says(words) == /\ Formed(b) /\ b.name = name /\ b.words = words /\ b.window_id = ""
                          /\ b.entry_id = ""
<1>1. ASSUME NEW words, Heard(cand, words), Says(words),
             Reads(cand, name) = "nothing" \/ Chosen(cand, resp, Reads(cand, name))
      PROVE  Sound(cand, resp, name, b)
  <2> HIDE DEF b
  <2>1. name # "virtual_desktop"
    OBVIOUS
  <2> QED BY <1>1, <2>1 DEF Sound, Meant, There
<1>2. CASE name = "edit_text"
  <2> DEFINE words == cand.utterance
  <2>1. b = [Intent(name) EXCEPT !.words = words] /\ Reads(cand, name) = "nothing"
    BY <1>2 DEF Argued, Reads
  <2>2. Heard(cand, words)
    BY DEF Heard
  <2> HIDE DEF b, words
  <2>3. Says(words)
    BY <2>1, Worded
  <2> QED BY <1>1, <2>1, <2>2, <2>3 DEF b
<1>3. CASE name # "edit_text"
  <2> DEFINE cued == StripCue(name, cand.utterance)
             spanned == Span(cand, resp["payload"].key)
             words == Message(cand, resp, name)
  <2>1. name \in {"krunner", "claude_tell", "notify"}
    BY <1>3
  <2>2. b = WithWords(name, words)
    BY <2>1 DEF Argued
  <2>3. words # <<>> /\ b = [Intent(name) EXCEPT !.words = words]
    <3> HIDE DEF words
    <3>1. b # Unclear
      OBVIOUS
    <3> HIDE DEF b
    <3> QED BY <2>2, <3>1 DEF WithWords
  <2>4. words = cued \/ (cued = NoMessage /\ Chosen(cand, resp, "payload") /\ words = spanned)
    BY <2>3 DEF Message, IfAny, NoMessage
  <2>5. cued # NoMessage \/ Chosen(cand, resp, "payload")
    <3> HIDE DEF words, cued, spanned
    <3> QED BY <2>3, <2>4 DEF NoMessage
  <2>6. Reads(cand, name) = IF cued = NoMessage THEN "payload" ELSE "nothing"
    BY <2>1 DEF Reads
  <2>7. Heard(cand, words)
    <3>1. Heard(cand, cued)
      BY CueHeard
    <3>2. Chosen(cand, resp, "payload") => Heard(cand, spanned)
      BY SpanHeard DEF Chosen
    <3> HIDE DEF words, cued, spanned
    <3> QED BY <2>4, <3>1, <3>2
  <2> HIDE DEF b, words, cued, spanned
  <2>8. Says(words)
    BY <2>3, Worded
  <2> QED BY <1>1, <2>5, <2>6, <2>7, <2>8 DEF b
<1> QED BY <1>2, <1>3

\* Every intent but a chord, which is always asked about.
LEMMA ArguedSound ==
  ASSUME NEW App, NEW Win, NEW cand \in CandidatesOf(App, Win), NEW resp,
         NEW name \in Actions \ {"key"}, Argued(cand, resp, name) # Unclear
  PROVE  Sound(cand, resp, name, Argued(cand, resp, name))
<1>1. \/ name \in {"show_app", "close_window", "minimize_window", "maximize_window"}
      \/ name \in {"virtual_desktop", "virtual_desktop_rel", "start_claude", "claude_model",
                   "open_terminal", "claude_read"}
      \/ name \in {"krunner", "claude_tell", "notify", "edit_text"}
  BY DEF Actions
<1> QED BY <1>1, TargetSound, ArgumentSound, WordsSound

\* And a chord is an intent.
LEMMA ChordNamed ==
  ASSUME NEW cand, NEW resp, Argued(cand, resp, "key") # Unclear
  PROVE  Argued(cand, resp, "key").name = "key" /\ Formed(Argued(cand, resp, "key"))
<1> DEFINE b == Argued(cand, resp, "key")
           words == Chord(Message(cand, resp, "key"))
<1>1. b = WithWords("key", words)
  BY DEF Argued
<1> HIDE DEF words
<1>2. b = [Intent("key") EXCEPT !.words = words]
  BY <1>1 DEF WithWords
<1> HIDE DEF b
<1>3. b.name = "key" /\ Formed(b)
  BY <1>2, Worded
<1> QED BY <1>3 DEF b

\* The questions that an intent is asked in the second round.
LEMMA SecondAsks ==
  ASSUME NEW cand, NEW name \in Actions
  PROVE  /\ SecondRound(cand, name) \subseteq {Reads(cand, name), "is_destructive"}
         /\ "nothing" \notin SecondRound(cand, name)
         /\ Reads(cand, name) # "nothing" => Reads(cand, name) \in SecondRound(cand, name)
         /\ Reads(cand, name) \notin {"intent", "is_dictation", "is_destructive"}
         /\ "is_destructive" \in SecondRound(cand, name) <=> Risk(name) = "judged"
<1> DEFINE risk == IF Risk(name) = "judged" THEN {"is_destructive"} ELSE {}
           cued == StripCue(name, cand.utterance) # NoMessage
           argument == IF Reads(cand, name) = "nothing" THEN {} ELSE {Reads(cand, name)}
<1>1. name # "none" /\ Reads(cand, name) \in {"target", "desktop_number", "desktop_direction",
                                              "claude_model", "payload", "nothing"}
  BY DEF Actions, Reads
<1>2. SecondRound(cand, name) = argument \cup risk
  <2>1. CASE name \in {"show_app", "close_window", "minimize_window", "maximize_window"}
    BY <1>1, <2>1 DEF SecondRound, Reads
  <2>2. CASE name = "virtual_desktop"
    BY <1>1, <2>2 DEF SecondRound, Reads
  <2>3. CASE name = "virtual_desktop_rel"
    BY <1>1, <2>3 DEF SecondRound, Reads
  <2>4. CASE name \in {"start_claude", "claude_model"}
    BY <1>1, <2>4 DEF SecondRound, Reads
  <2>5. CASE name \in {"krunner", "claude_tell", "notify", "key"}
    BY <1>1, <2>5 DEF SecondRound, Reads
  <2>6. CASE name \in {"edit_text", "open_terminal", "claude_read"}
    BY <1>1, <2>6 DEF SecondRound, Reads
  <2> QED BY <2>1, <2>2, <2>3, <2>4, <2>5, <2>6 DEF Actions
<1> HIDE DEF argument
<1>3. argument = IF Reads(cand, name) = "nothing" THEN {} ELSE {Reads(cand, name)}
  BY DEF argument
<1> QED BY <1>1, <1>2, <1>3


\* What runs unasked rests on an answer to every question that was asked, each as certain as
\* the policy wants, names a window, an app or a desktop that is there, and passes on words
\* that were said (judge.rs, build, and policy.rs, decide), for all thresholds, any candidates
\* and whatever the model answers, be it more than it was asked for, less, or nonsense.
THEOREM ActsOnAnswers ==
  ASSUME NEW App, NEW Win, NEW cand \in CandidatesOf(App, Win), NEW policy \in Policies,
         NEW resp, Likely(resp)
  PROVE  RunsOnlyWhatWasAnswered(policy, cand, resp, Asked(cand, resp), Compose(cand, resp))
<1> DEFINE it == Compose(cand, resp)
           asked == Asked(cand, resp)
           name == resp["intent"].key.kind
           b == Argued(cand, resp, name)
           read == Reads(cand, name)
           sure == Folded(resp, read, resp["intent"].p)
           destructive == CASE Risk(name) = "never" -> 0
                            [] Risk(name) = "always_confirmed" -> NoAnswer
                            [] OTHER -> Noul(resp, "is_destructive")
           dictation == Dictation(resp)
<1> SUFFICES ASSUME Decision(policy, resp, it) = "act"
             PROVE  /\ \A id \in asked \ {"is_destructive", "is_dictation"} :
                         \/ Answered(cand, resp, id) /\ resp[id].p >= policy.act
                         \/ it.name = "start_claude" /\ id = "claude_model" /\ ~IsChoice(resp, id)
                    /\ "is_destructive" \in asked =>
                         Noul(resp, "is_destructive") \in 0 .. policy.destructive - 1
                    /\ Dictation(resp) \in 0 .. policy.dictation - 1
                    /\ There(cand, it)
                    /\ it.name = "virtual_desktop" => it.n \in 1 .. cand.desktop_count
                    /\ it.name = "edit_text" => cand.last_dictation
                    /\ Heard(cand, it.words)
  BY DEF RunsOnlyWhatWasAnswered, There, Heard
<1>1. /\ it # Unclear /\ ~IsProse(policy, dictation) /\ ~AlwaysAsked(it.name)
      /\ it.destructive # NoAnswer /\ ~(it.destructive >= policy.destructive)
      /\ it.dictation # NoAnswer /\ ~(it.confidence < policy.act)
  BY WhatActs
<1>2. /\ Chosen(cand, resp, "intent") /\ b # Unclear /\ ~Invented(cand, resp, read)
      /\ it = [b EXCEPT !.confidence = sure, !.destructive = destructive, !.dictation = dictation]
  BY <1>1 DEF Compose, Weighed
<1>3. name \in Actions /\ (name = "edit_text" => cand.last_dictation)
  BY <1>2, OnOffer
<1>4. Formed(b)
  BY <1>2, <1>3, ArguedSound, ChordNamed DEF Sound
<1>5. /\ it.name = b.name /\ it.query = b.query /\ it.n = b.n /\ it.words = b.words
      /\ it.window_id = b.window_id /\ it.entry_id = b.entry_id /\ it.confidence = sure
      /\ it.destructive = destructive /\ it.dictation = dictation
  <2> HIDE DEF b, sure, destructive, dictation, it
  <2> QED BY <1>2, <1>4, Kept
<1>6. name # "key"
  <2>1. name = "key" => it.name = "key"
    BY <1>2, <1>5, ChordNamed
  <2> HIDE DEF name, it, b
  <2> QED BY <1>1, <2>1 DEF AlwaysAsked
<1>7. Sound(cand, resp, name, b)
  BY <1>2, <1>3, <1>6, ArguedSound
<1>8. asked = FirstRound \cup SecondRound(cand, name)
  BY <1>2 DEF Asked, Chosen
<1>9. /\ IsChoice(resp, "intent") /\ resp["intent"].p \in Nat
      /\ IsChoice(resp, read) => resp[read].p \in Nat
      /\ Noul(resp, "is_destructive") \in Nat \cup {NoAnswer}
      /\ dictation \in Nat \cup {NoAnswer}
  BY <1>2 DEF Likely, IsChoice, Chosen, Noul, Dictation
<1>10. policy.act \in Nat /\ policy.destructive \in Nat /\ policy.dictation \in Nat
  BY DEF Policies
<1>11. /\ resp["intent"].p >= policy.act
       /\ IsChoice(resp, read) => resp[read].p >= policy.act
  BY <1>1, <1>5, <1>9, <1>10 DEF Folded, Lesser
<1> HIDE DEF it, asked, b, read, sure, destructive, dictation, name
<1>12. ASSUME NEW id \in asked \ {"is_destructive", "is_dictation"}
       PROVE  \/ Answered(cand, resp, id) /\ resp[id].p >= policy.act
              \/ it.name = "start_claude" /\ id = "claude_model" /\ ~IsChoice(resp, id)
  <2>1. id = "intent" \/ (id = read /\ id # "nothing")
    BY <1>3, <1>8, SecondAsks DEF FirstRound, read
  <2>2. CASE id = "intent"
    BY <1>2, <1>11, <2>2 DEF Answered, Chosen
  <2>3. CASE id = read /\ id # "nothing"
    <3>1. Chosen(cand, resp, id) \/ (name = "start_claude" /\ id = "claude_model")
      BY <1>7, <2>3 DEF Sound, read
    <3>2. id # "is_destructive"
      OBVIOUS
    <3>3. CASE IsChoice(resp, id)
      <4>1. resp[id].key \in Options(cand, id)
        BY <1>2, <2>3, <3>3 DEF Invented
      <4> QED BY <1>11, <2>3, <3>2, <3>3, <4>1 DEF Answered
    <3>4. CASE ~IsChoice(resp, id)
      <4>1. name = "start_claude" /\ id = "claude_model"
        BY <3>1, <3>4 DEF Chosen
      <4>2. it.name = "start_claude"
        BY <1>5, <1>7, <4>1 DEF Sound, Meant
      <4> QED BY <3>4, <4>1, <4>2
    <3> QED BY <3>3, <3>4
  <2> QED BY <2>1, <2>2, <2>3
<1>13. "is_destructive" \in asked => Noul(resp, "is_destructive") \in 0 .. policy.destructive - 1
  <2>1. "is_destructive" \in asked => Risk(name) = "judged"
    BY <1>3, <1>8, SecondAsks DEF FirstRound
  <2>2. Risk(name) = "judged" => destructive = Noul(resp, "is_destructive")
    BY DEF destructive
  <2> QED BY <1>1, <1>5, <1>9, <1>10, <2>1, <2>2
<1>14. Dictation(resp) \in 0 .. policy.dictation - 1
  <2>1. dictation # NoAnswer /\ ~(dictation >= policy.dictation)
    BY <1>1, <1>5 DEF IsProse
  <2>2. dictation \in 0 .. policy.dictation - 1
    BY <1>9, <1>10, <2>1
  <2> QED BY <2>2 DEF dictation
<1>15. There(cand, it)
  BY <1>5, <1>7 DEF Sound, There
<1>16. Heard(cand, it.words)
  BY <1>5, <1>6, <1>7 DEF Sound
<1>17. /\ it.name = "virtual_desktop" => it.n \in 1 .. cand.desktop_count
       /\ it.name = "edit_text" => cand.last_dictation
  BY <1>3, <1>5, <1>7 DEF Sound, Meant
<1> QED BY <1>12, <1>13, <1>14, <1>15, <1>16, <1>17 DEF it, asked


\* Two replies say the same of a question.
Same(resp, other, id) ==
  /\ id \in DOMAIN other <=> id \in DOMAIN resp
  /\ id \in DOMAIN resp => other[id] = resp[id]

\* Then it is read the same.
LEMMA ReadAlike ==
  ASSUME NEW cand, NEW resp, NEW other, NEW id, Same(resp, other, id)
  PROVE  /\ IsChoice(other, id) <=> IsChoice(resp, id)
         /\ Chosen(cand, other, id) <=> Chosen(cand, resp, id)
         /\ Invented(cand, other, id) <=> Invented(cand, resp, id)
         /\ Chosen(cand, resp, id) => other[id] = resp[id]
         /\ IsChoice(resp, id) => other[id] = resp[id]
         /\ Noul(other, id) = Noul(resp, id)
         /\ \A p : Folded(other, id, p) = Folded(resp, id, p)
<1>1. IsChoice(other, id) <=> IsChoice(resp, id)
  BY DEF Same, IsChoice
<1>2. IsChoice(resp, id) => other[id] = resp[id]
  BY DEF Same, IsChoice
<1>3. Noul(other, id) = Noul(resp, id)
  BY DEF Same, Noul
<1>4. Chosen(cand, other, id) <=> Chosen(cand, resp, id)
  BY <1>1, <1>2 DEF Chosen
<1>5. Invented(cand, other, id) <=> Invented(cand, resp, id)
  BY <1>1, <1>2 DEF Invented
<1>6. Chosen(cand, resp, id) => other[id] = resp[id]
  BY <1>2 DEF Chosen
<1>7. ASSUME NEW p PROVE Folded(other, id, p) = Folded(resp, id, p)
  BY <1>1, <1>2 DEF Folded
<1> QED BY <1>1, <1>2, <1>3, <1>4, <1>5, <1>6, <1>7

\* What is built depends on the answer to one question.
LEMMA ArguedAlike ==
  ASSUME NEW cand, NEW name \in Actions, NEW resp, NEW other,
         Same(resp, other, Reads(cand, name))
  PROVE  Argued(cand, other, name) = Argued(cand, resp, name)
<1> DEFINE read == Reads(cand, name)
<1>1. /\ Chosen(cand, other, read) <=> Chosen(cand, resp, read)
      /\ Chosen(cand, resp, read) => other[read] = resp[read]
  BY ReadAlike
<1>2. CASE name \in {"show_app", "close_window", "minimize_window", "maximize_window"}
  <2>1. read = "target"
    BY <1>2 DEF Reads
  <2> HIDE DEF read
  <2> QED BY <1>1, <1>2, <2>1 DEF Argued
<1>3. CASE name = "virtual_desktop"
  <2>1. read = "desktop_number"
    BY <1>3 DEF Reads
  <2> HIDE DEF read
  <2> QED BY <1>1, <1>3, <2>1 DEF Argued
<1>4. CASE name = "virtual_desktop_rel"
  <2>1. read = "desktop_direction"
    BY <1>4 DEF Reads
  <2> HIDE DEF read
  <2> QED BY <1>1, <1>4, <2>1 DEF Argued
<1>5. CASE name \in {"start_claude", "claude_model"}
  <2>1. read = "claude_model"
    BY <1>5 DEF Reads
  <2> HIDE DEF read
  <2> QED BY <1>1, <1>5, <2>1 DEF Argued
<1>6. CASE name \in {"krunner", "claude_tell", "notify", "key"}
  <2> DEFINE cued == StripCue(name, cand.utterance)
  <2>1. cued = NoMessage => read = "payload"
    BY <1>6 DEF Reads
  <2> HIDE DEF read
  <2>2. Message(cand, other, name) = Message(cand, resp, name)
    BY <1>1, <2>1 DEF Message, IfAny
  <2> QED BY <1>6, <2>2 DEF Argued
<1>7. CASE name \in {"edit_text", "open_terminal", "claude_read"}
  BY <1>7 DEF Argued
<1> QED BY <1>2, <1>3, <1>4, <1>5, <1>6, <1>7 DEF Actions

\* Answers to what was not asked change nothing.
LEMMA Undisturbed ==
  ASSUME NEW cand, NEW resp, NEW other,
         \A id \in Asked(cand, resp) \cup {"nothing"} : Same(resp, other, id)
  PROVE  Compose(cand, other) = Compose(cand, resp)
<1> DEFINE asked == Asked(cand, resp)
           name == resp["intent"].key.kind
           read == Reads(cand, name)
<1>1. Same(resp, other, "intent") /\ Same(resp, other, "is_dictation")
  BY DEF Asked, FirstRound
<1>2. Chosen(cand, other, "intent") <=> Chosen(cand, resp, "intent")
  BY <1>1, ReadAlike
<1>3. CASE ~Chosen(cand, resp, "intent")
  BY <1>2, <1>3 DEF Compose
<1>4. CASE Chosen(cand, resp, "intent")
  <2>1. other["intent"] = resp["intent"]
    BY <1>1, <1>4, ReadAlike
  <2>2. name \in Actions
    BY <1>4, OnOffer
  <2>3. asked = FirstRound \cup SecondRound(cand, name)
    BY <1>4 DEF Asked, Chosen
  <2> HIDE DEF name
  <2>4. read \in asked \cup {"nothing"}
    BY <2>2, <2>3, SecondAsks
  <2>5. Same(resp, other, read)
    BY <2>4
  <2>6. Argued(cand, other, name) = Argued(cand, resp, name)
    BY <2>2, <2>5, ArguedAlike
  <2>7. /\ Invented(cand, other, read) <=> Invented(cand, resp, read)
        /\ \A p : Folded(other, read, p) = Folded(resp, read, p)
    <3> HIDE DEF read
    <3>1. Invented(cand, other, read) <=> Invented(cand, resp, read)
      BY <2>5, ReadAlike
    <3>2. \A p : Folded(other, read, p) = Folded(resp, read, p)
      BY <2>5 DEF Folded, Same, IsChoice
    <3> QED BY <3>1, <3>2
  <2>8. Dictation(other) = Dictation(resp)
    BY <1>1 DEF Dictation, IsChoice, Same
  <2>9. Risk(name) \notin {"never", "always_confirmed"}
          => Noul(other, "is_destructive") = Noul(resp, "is_destructive")
    <3>1. Risk(name) \notin {"never", "always_confirmed"} => Risk(name) = "judged"
      BY DEF Risk
    <3>2. Risk(name) = "judged" => "is_destructive" \in asked
      BY <2>2, <2>3, SecondAsks
    <3> QED BY <3>1, <3>2, ReadAlike
  <2>10. other["intent"].key.kind = name /\ resp["intent"].key.kind = name
    BY <2>1 DEF name
  <2> DEFINE built == Argued(cand, resp, name)
             folded == Folded(resp, read, resp["intent"].p)
             d == CASE Risk(name) = "never" -> 0
                    [] Risk(name) = "always_confirmed" -> NoAnswer
                    [] OTHER -> Noul(resp, "is_destructive")
             dOther == CASE Risk(name) = "never" -> 0
                    [] Risk(name) = "always_confirmed" -> NoAnswer
                    [] OTHER -> Noul(other, "is_destructive")
  <2>11. d = dOther
    BY <2>9
  <2>12. Compose(cand, resp) = IF built = Unclear \/ Invented(cand, resp, read) THEN Unclear
                               ELSE [built EXCEPT !.confidence = folded, !.destructive = d,
                                                  !.dictation = Dictation(resp)]
    BY <1>4, <2>10 DEF Compose, Weighed
  <2>13. Compose(cand, other) = IF built = Unclear \/ Invented(cand, resp, read) THEN Unclear
                               ELSE [built EXCEPT !.confidence = folded, !.destructive = d,
                                                  !.dictation = Dictation(resp)]
    <3> HIDE DEF d, dOther, built, folded, read
    <3>1. Compose(cand, other)
            = IF built = Unclear \/ Invented(cand, other, read) THEN Unclear
              ELSE [built EXCEPT !.confidence = Folded(other, read, other["intent"].p),
                                 !.destructive = dOther, !.dictation = Dictation(other)]
      BY <1>2, <1>4, <2>6, <2>10 DEF Compose, Weighed, read, dOther, built
    <3>2. Folded(other, read, other["intent"].p) = folded
      BY <2>1, <2>7 DEF folded
    <3> QED BY <2>7, <2>8, <2>11, <3>1, <3>2
  <2> QED BY <2>12, <2>13
<1> QED BY <1>3, <1>4


\* An intent is not "unclear".
LEMMA Clear == \A b : b.verdict = "act" => b # Unclear
<1>1. Unclear.verdict # "act"
  BY DEF Unclear
<1> QED BY <1>1

\* Every question with a proper answer leads to an intent, unless it has nothing to name,
\* nothing to show or no chord to press.
LEMMA ArguedInFull ==
  ASSUME NEW App, NEW Win, NEW cand \in CandidatesOf(App, Win), NEW resp,
         NEW name \in Actions, cand.utterance # <<>>, cand.spans <= Len(cand.utterance),
         Reads(cand, name) = "nothing" \/ Chosen(cand, resp, Reads(cand, name))
           \/ name = "start_claude",
         ~NothingToName(cand, resp, name)
  PROVE  Argued(cand, resp, name) # Unclear
<1> DEFINE b == Argued(cand, resp, name)
           read == Reads(cand, name)
<1>1. ASSUME Formed(b) PROVE b # Unclear
  <2> HIDE DEF b
  <2> QED BY <1>1, Clear DEF Formed
<1>2. CASE name \in {"show_app", "close_window", "minimize_window", "maximize_window"}
  <2> DEFINE key == resp["target"].key
             w == cand.windows[key.n + 1]
             app == cand.apps[key.n + 1]
  <2>1. Chosen(cand, resp, "target")
    <3>1. read = "target" /\ name # "start_claude"
      BY <1>2 DEF Reads
    <3> QED BY <3>1
  <2>2. b = OnTarget(cand, name, key) /\ key \in Options(cand, "target") /\ key # NO_TARGET
    BY <1>2, <2>1 DEF Argued, Chosen
  <2> HIDE DEF b
  <2>3. ~(name = "show_app" /\ key = FOCUSED)
    BY DEF NothingToName
  <2> HIDE DEF key
  <2>4. CASE key.kind = "window"
    <3> DEFINE to == IF name = "show_app" THEN "focus_window" ELSE name
               q == w.title
               i == w.id
    <3>1. b = AtWindow(to, q, i)
      BY <2>2, <2>4 DEF OnTarget, AtWindow
    <3>2. Names(b, to, q, i, "")
      <4> HIDE DEF to, q, i
      <4> QED BY <3>1, WithWindow
    <3> HIDE DEF to, q, i
    <3> QED BY <1>1, <3>2 DEF Names, b
  <2>5. CASE key.kind = "app" /\ name = "show_app"
    <3> DEFINE q == app.name
               i == app.id
    <3>1. b = AtApp("launch_app", q, i)
      BY <2>2, <2>5 DEF OnTarget, AtApp
    <3>2. Names(b, "launch_app", q, "", i)
      <4> HIDE DEF q, i
      <4> QED BY <3>1, WithApp
    <3> HIDE DEF q, i
    <3> QED BY <1>1, <3>2 DEF Names, b
  <2>6. CASE key.kind = "app" /\ name # "show_app"
    <3> DEFINE q == app.name
    <3>1. b = [Intent(name) EXCEPT !.query = q]
      BY <2>2, <2>6 DEF OnTarget
    <3> HIDE DEF q
    <3>2. Formed(b)
      BY <3>1, WithQuery
    <3> QED BY <1>1, <3>2 DEF b
  <2>7. CASE key.kind \notin {"window", "app"}
    <3>1. key.kind = "focused" /\ name # "show_app"
      BY <2>2, <2>3, <2>7, Targets
    <3>2. b = Intent(name)
      BY <2>2, <3>1 DEF OnTarget
    <3>3. Formed(b)
      BY <3>2, Fresh
    <3> QED BY <1>1, <3>3 DEF b
  <2> QED BY <2>4, <2>5, <2>6, <2>7 DEF b
<1>3. CASE name = "virtual_desktop"
  <2> DEFINE n == resp["desktop_number"].key.n
  <2>1. Chosen(cand, resp, "desktop_number")
    <3>1. read = "desktop_number" /\ name # "start_claude"
      BY <1>3 DEF Reads
    <3> QED BY <3>1
  <2>2. n \in 1 .. cand.desktop_count
    BY <2>1 DEF Chosen, Options, Counted
  <2>3. b = [Intent(name) EXCEPT !.n = n]
    BY <1>3, <2>1, <2>2 DEF Argued
  <2> HIDE DEF b, n
  <2>4. Formed(b)
    BY <2>3, WithNumber
  <2> QED BY <1>1, <2>4 DEF b
<1>4. CASE name = "virtual_desktop_rel"
  <2> DEFINE n == IF resp["desktop_direction"].key = Option("next") THEN 1 ELSE -1
  <2>1. Chosen(cand, resp, "desktop_direction")
    <3>1. read = "desktop_direction" /\ name # "start_claude"
      BY <1>4 DEF Reads
    <3> QED BY <3>1
  <2>2. b = [Intent(name) EXCEPT !.n = n]
    BY <1>4, <2>1 DEF Argued
  <2> HIDE DEF b, n
  <2>3. Formed(b)
    BY <2>2, WithNumber
  <2> QED BY <1>1, <2>3 DEF b
<1>5. CASE name \in {"start_claude", "claude_model"}
  <2> DEFINE q == resp["claude_model"].key.kind
  <2>1. Chosen(cand, resp, "claude_model") \/ name = "start_claude"
    <3>1. read = "claude_model"
      BY <1>5 DEF Reads
    <3> QED BY <3>1
  <2>2. b = [Intent(name) EXCEPT !.query = q] \/ b = Intent(name)
    BY <1>5, <2>1 DEF Argued
  <2> HIDE DEF b, q
  <2>3. Formed(b)
    <3>1. CASE b = [Intent(name) EXCEPT !.query = q]
      BY <3>1, WithQuery
    <3>2. CASE b = Intent(name)
      BY <3>2, Fresh
    <3> QED BY <2>2, <3>1, <3>2
  <2> QED BY <1>1, <2>3 DEF b
<1>6. CASE name \in {"krunner", "claude_tell", "notify", "key", "edit_text"}
  <2> DEFINE message == Message(cand, resp, name)
             cued == StripCue(name, cand.utterance)
             spanned == Span(cand, resp["payload"].key)
             words == CASE name = "edit_text" -> cand.utterance
                        [] name = "key" -> Chord(message)
                        [] OTHER -> message
  <2>1. b = [Intent(name) EXCEPT !.words = words] \/ words = <<>>
    BY <1>6 DEF Argued, WithWords
  <2>2. name \in {"krunner", "claude_tell", "notify"} => message # <<>>
    <3>1. CASE cued # NoMessage
      BY <3>1 DEF Message, IfAny, NoMessage
    <3>2. CASE cued = NoMessage /\ name \in {"krunner", "claude_tell", "notify"}
      <4>1. read = "payload" /\ name # "start_claude"
        BY <3>2 DEF Reads
      <4>2. Chosen(cand, resp, "payload")
        BY <4>1
      <4>3. spanned # <<>>
        BY <4>2, SpanHeard DEF Chosen
      <4>4. message = spanned
        BY <3>2, <4>2 DEF Message, IfAny
      <4> QED BY <4>3, <4>4
    <3> QED BY <3>1, <3>2
  <2>3. name = "key" => Chord(message) # <<>>
    BY DEF NothingToName, NoChord
  <2>4. words # <<>>
    <3> HIDE DEF message
    <3> QED BY <1>6, <2>2, <2>3
  <2> HIDE DEF b, words
  <2>5. Formed(b)
    <3>1. b = [Intent(name) EXCEPT !.words = words]
      BY <2>1, <2>4
    <3> QED BY <3>1, Worded
  <2> QED BY <1>1, <2>5 DEF b
<1>7. CASE name \in {"open_terminal", "claude_read"}
  <2>1. b = Intent(name)
    BY <1>7 DEF Argued
  <2> HIDE DEF b
  <2>2. Formed(b)
    BY <2>1, Fresh
  <2> QED BY <1>1, <2>2 DEF b
<1> QED BY <1>2, <1>3, <1>4, <1>5, <1>6, <1>7 DEF Actions

\* The questions of the second round are the ones that the build reads: answers to others
\* change nothing, and when each has a proper answer an intent comes of it (judge.rs,
\* round_two and build), whatever was said, whatever is on offer and whatever else the model
\* answers.
THEOREM AskedIsRead ==
  ASSUME NEW App, NEW Win, NEW cand \in CandidatesOf(App, Win),
         cand.utterance # <<>>, cand.spans <= Len(cand.utterance),
         NEW resp, "nothing" \notin DOMAIN resp
  PROVE  AsksWhatItReads(cand, resp, Asked(cand, resp), Compose(cand, resp))
<1> DEFINE asked == Asked(cand, resp)
           name == resp["intent"].key.kind
           it == Compose(cand, resp)
           unread == [id \in (DOMAIN Babble \ asked) \cup DOMAIN resp |->
                        IF id \in DOMAIN resp THEN resp[id] ELSE Babble[id]]
<1>1. Compose(cand, unread) = it
  <2>1. \A id \in asked \cup {"nothing"} : Same(resp, unread, id)
    <3> HIDE DEF asked
    <3>1. "nothing" \notin DOMAIN Babble
      BY DEF Babble
    <3> QED BY <3>1 DEF Same
  <2> HIDE DEF unread
  <2> QED BY <2>1, Undisturbed
<1>2. ASSUME AnsweredInFull(cand, resp, asked), ~NothingToName(cand, resp, name)
      PROVE  it # Unclear
  <2> DEFINE read == Reads(cand, name)
             b == Argued(cand, resp, name)
             sure == Folded(resp, read, resp["intent"].p)
             destructive == CASE Risk(name) = "never" -> 0
                              [] Risk(name) = "always_confirmed" -> NoAnswer
                              [] OTHER -> Noul(resp, "is_destructive")
             dictation == Dictation(resp)
  <2>1. "intent" \in asked
    BY DEF Asked, FirstRound
  <2>2. Chosen(cand, resp, "intent")
    BY <1>2, <2>1 DEF AnsweredInFull, Answered, Chosen
  <2>3. name \in Actions /\ asked = FirstRound \cup SecondRound(cand, name)
    <3>1. name \in Actions
      BY <2>2, OnOffer
    <3> QED BY <2>2, <3>1 DEF Asked, Chosen
  <2>4. read = "nothing" \/ (read \in asked /\ Answered(cand, resp, read)
                              /\ read # "is_destructive")
    BY <1>2, <2>3, SecondAsks DEF AnsweredInFull
  <2>5. ~Invented(cand, resp, read)
    BY <2>4 DEF Invented, Answered, IsChoice
  <2>6. read = "claude_model" => name = "start_claude" \/ name = "claude_model"
    BY DEF Reads
  <2>7. name = "claude_model" => resp["intent"].key = Option("claude_model")
    <3>1. resp["intent"].key \in OfferedIntents(cand) /\ resp["intent"].key # NO_TARGET
      BY <2>2 DEF Chosen, Options
    <3> QED BY <3>1 DEF OfferedIntents, Option
  <2>8. read = "nothing" \/ Chosen(cand, resp, read) \/ name = "start_claude"
    <3> HIDE DEF read, name, asked
    <3> QED BY <1>2, <2>4, <2>6, <2>7 DEF AnsweredInFull, Answered, Chosen
  <2>9. b # Unclear
    BY <1>2, <2>3, <2>8, ArguedInFull
  <2>10. Formed(b)
    BY <2>3, <2>9, ArguedSound, ChordNamed DEF Sound
  <2>11. it = [b EXCEPT !.confidence = sure, !.destructive = destructive, !.dictation = dictation]
    BY <2>2, <2>5, <2>9 DEF Compose, Weighed
  <2> HIDE DEF b, sure, destructive, dictation, it
  <2>12. it.verdict = "act"
    BY <2>10, <2>11, Kept
  <2> QED BY <2>12, Clear
<1> QED BY <1>1, <1>2 DEF AsksWhatItReads

\* What is judged: candidates as they are listed, of words that were said, and a reply with
\* likelihoods in it.
Judgeable(App, Win, x) ==
  /\ x.policy \in Policies /\ x.cand \in CandidatesOf(App, Win)
  /\ x.cand.utterance # <<>> /\ x.cand.spans <= Len(x.cand.utterance)
  /\ Likely(x.resp) /\ "nothing" \notin DOMAIN x.resp

\* AnswersDecide, for both of the above.
THEOREM JudgedByAnswers ==
  ASSUME NEW App, NEW Win, Of("judging") => Judgeable(App, Win, The)
  PROVE  AnswersDecide
BY ActsOnAnswers, AskedIsRead DEF AnswersDecide, Judgeable
-----------------------------------------------------------------------------
(* Calibration. *)

\* An act that is counted right was asked for.
LEMMA RightWhereAsked ==
  ASSUME NEW case, NEW it, NEW dictation, NEW policy, NEW W,
         it # Unclear => it.words \in Seq(W)
  PROVE  RightActsAreAskedFor(case, it, dictation, policy)
<1> DEFINE outcome == Assess(case, it, dictation, policy)
<1> SUFFICES ASSUME Decided(outcome, policy) = "act", Right(outcome)
             PROVE  /\ ExpectsAction(case) /\ JudgedName(it.name) \in {case.expect} \cup case.accept
                    /\ case.target.text \notin {"", "focused"} =>
                         {it.query, it.window_id, it.entry_id}
                           \cap (case.target.part_of \cup {case.target.text}) # {}
                    /\ case.payload # <<>> /\ it.name \in {"claude_tell", "notify", "krunner"} =>
                         \E n \in {0, 1} : Len(it.words) = Len(case.payload) + n
  BY DEF RightActsAreAskedFor
<1>1. /\ outcome.it = it /\ outcome.dictation = dictation
      /\ outcome.intent_ok = (CASE it = Unclear -> ~ExpectsAction(case)
                                [] it # Unclear /\ ~ExpectsAction(case) -> IsProse(policy, dictation)
                                [] OTHER -> JudgedName(it.name) \in {case.expect} \cup case.accept)
      /\ outcome.args_ok = (it = Unclear \/ (outcome.intent_ok /\ CheckArgs(case, it)))
      /\ outcome.target_ok = (CASE it = Unclear \/ case.target.text = "" -> ""
                                [] it # Unclear /\ outcome.intent_ok -> CheckTarget(case, it)
                                [] OTHER -> "bad")
  BY DEF Assess
<1>2. outcome.intent_ok /\ outcome.args_ok /\ outcome.target_ok # "bad"
  BY DEF Right
<1> HIDE DEF outcome
<1>3. ~IsProse(policy, dictation) /\ it # Unclear
  BY <1>1 DEF Decided
<1>4. ExpectsAction(case) /\ JudgedName(it.name) \in {case.expect} \cup case.accept
  BY <1>1, <1>2, <1>3
<1>5. ASSUME case.target.text \notin {"", "focused"}
      PROVE  {it.query, it.window_id, it.entry_id}
               \cap (case.target.part_of \cup {case.target.text}) # {}
  <2>1. CheckTarget(case, it) # "bad"
    BY <1>1, <1>2, <1>3, <1>5
  <2>2. \/ it.query \in case.target.part_of \/ it.window_id = case.target.text
        \/ it.entry_id \in case.target.part_of
    BY <1>5, <2>1 DEF CheckTarget
  <2> QED BY <2>2
<1>6. ASSUME case.payload # <<>>, it.name \in {"claude_tell", "notify", "krunner"}
      PROVE  \E n \in {0, 1} : Len(it.words) = Len(case.payload) + n
  <2> DEFINE words == [i \in DOMAIN it.words |-> it.words[i].is]
  <2>1. CheckArgs(case, it)
    BY <1>1, <1>2, <1>3
  <2>2. PayloadMatches(words, case.payload)
    BY <1>6, <2>1 DEF CheckArgs
  <2>3. words \in Seq({w.is : w \in W}) /\ Len(words) = Len(it.words)
    BY <1>3
  <2> HIDE DEF words
  <2>4. CASE words = case.payload
    BY <2>3, <2>4
  <2>5. CASE words # <<>> /\ Tail(words) = case.payload
    <3>1. Len(Tail(words)) = Len(words) - 1
      BY <2>3, <2>5, HeadTailProperties
    <3> QED BY <2>3, <2>5, <3>1
  <2> QED BY <2>2, <2>4, <2>5 DEF PayloadMatches
<1> QED BY <1>4, <1>5, <1>6

\* The middle of numbers is one of them.
LEMMA MiddleIsOne ==
  ASSUME NEW hi \in Nat, NEW S, S \subseteq 0 .. hi, S # {}
  PROVE  Middle(S) \in S
<1> DEFINE below(n) == {m \in S : m < n}
           upto(n) == {m \in S : m <= n}
           half == Cardinality(S) \div 2
           T == {n \in Nat : Cardinality(upto(n)) > half}
<1>0. IsFiniteSet(S) /\ \A m \in S : m \in Nat
  <2>1. IsFiniteSet(0 .. hi)
    <3>1. 0 \in Int /\ hi \in Int
      OBVIOUS
    <3> QED BY <3>1, FS_Interval
  <2>2. S \in SUBSET (0 .. hi)
    OBVIOUS
  <2>3. IsFiniteSet(S)
    BY <2>1, <2>2, FS_Subset
  <2> QED BY <2>2, <2>3
<1>1. \A n : below(n) \subseteq S /\ upto(n) \subseteq S
  OBVIOUS
<1>2. \A n : /\ IsFiniteSet(below(n)) /\ Cardinality(below(n)) \in Nat
             /\ IsFiniteSet(upto(n)) /\ Cardinality(upto(n)) \in Nat
  <2> HIDE DEF below, upto
  <2> QED BY <1>0, <1>1, FS_Subset, FS_CardinalityType
<1>3. Cardinality(S) \in Nat /\ Cardinality(S) > 0 /\ half \in Nat /\ half < Cardinality(S)
  <2>1. Cardinality(S) \in Nat /\ Cardinality(S) # 0
    BY <1>0, FS_CardinalityType, FS_EmptySet
  <2> HIDE DEF half
  <2> QED BY <2>1 DEF half
<1>4. T # {}
  <2>1. PICK max \in S : \A m \in S : m <= max
    BY HasGreatest
  <2>2. upto(max) = S /\ max \in Nat
    BY <1>0, <2>1
  <2> HIDE DEF upto, half
  <2> QED BY <1>3, <2>2
<1>5. PICK n \in T : \A m \in T : n <= m
  <2> HIDE DEF upto, half
  <2> QED BY <1>4, HasLeast
<1>6. n \in Nat /\ Cardinality(upto(n)) > half
  <2> HIDE DEF upto, half
  <2> QED BY <1>5
<1>7. Cardinality(below(n)) <= half
  <2>1. CASE n = 0
    <3>1. below(n) = {}
      <4>1. \A m \in S : ~(m < n)
        BY <1>0, <2>1
      <4> QED BY <4>1
    <3> HIDE DEF below, half
    <3> QED BY <1>3, <3>1, FS_EmptySet
  <2>2. CASE n # 0
    <3>1. n - 1 \in Nat /\ n - 1 < n
      BY <1>6, <2>2
    <3>2. below(n) = upto(n - 1)
      <4>1. \A m \in S : m < n <=> m <= n - 1
        BY <1>0, <1>6
      <4> QED BY <4>1
    <3>3. n - 1 \notin T
      <4> HIDE DEF T
      <4> QED BY <1>5, <1>6, <3>1
    <3>4. ~(Cardinality(upto(n - 1)) > half)
      <4> HIDE DEF upto, half
      <4> QED BY <3>1, <3>3
    <3> HIDE DEF below, upto, half
    <3> QED BY <1>2, <1>3, <3>2, <3>4
  <2> QED BY <2>1, <2>2
<1>8. n \in S
  <2>0. SUFFICES ASSUME n \notin S PROVE FALSE
    OBVIOUS
  <2>1. below(n) = upto(n)
    <3>1. \A m \in S : m < n <=> m <= n
      BY <1>0, <1>6, <2>0
    <3> QED BY <3>1
  <2> HIDE DEF below, upto, half
  <2> QED BY <1>2, <1>3, <1>6, <1>7, <2>1
<1>9. Cardinality(upto(n)) = Cardinality(below(n)) + 1
  <2>1. upto(n) = below(n) \cup {n} /\ n \notin below(n)
    <3>1. \A m \in S : (m <= n <=> m < n \/ m = n) /\ ~(n < n)
      BY <1>0, <1>6
    <3> QED BY <1>8, <3>1
  <2> HIDE DEF below, upto
  <2> QED BY <1>2, <2>1, FS_AddElement
<1>10. Cardinality(below(n)) = half
  <2> HIDE DEF below, upto, half
  <2> QED BY <1>2, <1>3, <1>6, <1>7, <1>9
<1>11. \E k \in S : Cardinality({m \in S : m < k}) = Cardinality(S) \div 2
  BY <1>8, <1>10
<1> QED BY <1>11 DEF Middle

\* The thresholds that are tried are numbers.
LEMMA GridTyped ==
  /\ Range(Grid) = {5 * i : i \in 1 .. GRID_POINTS} /\ Range(Grid) # {}
  /\ Range(Grid) \subseteq 0 .. 5 * GRID_POINTS /\ 5 * GRID_POINTS \in Nat
<1>1. GRID_POINTS \in Nat /\ GRID_POINTS >= 1
  BY CalibrationAssumption
<1>2. DOMAIN Grid = 1 .. GRID_POINTS /\ \A i \in 1 .. GRID_POINTS : Grid[i] = 5 * i
  BY DEF Grid
<1>3. Range(Grid) = {5 * i : i \in 1 .. GRID_POINTS}
  BY <1>2 DEF Range
<1>4. \A i \in 1 .. GRID_POINTS : 5 * i \in 0 .. 5 * GRID_POINTS
  BY <1>1
<1>5. 5 * 1 \in Range(Grid)
  BY <1>1, <1>3
<1> QED BY <1>1, <1>3, <1>4, <1>5

\* What a policy is worth is at most a point for each outcome.
LEMMA ScoreBounded ==
  ASSUME NEW W, NEW outcomes \in Seq(W), NEW policy
  PROVE  Score(outcomes, policy) \in Int /\ Score(outcomes, policy) <= Len(outcomes)
<1> DEFINE D == DOMAIN outcomes
           those(decided) == {i \in D : Decided(outcomes[i], policy) = decided}
           right == {i \in D : Right(outcomes[i])}
           wanted == {i \in D : ExpectsAction(outcomes[i].case)}
<1>1. IsFiniteSet(D) /\ Cardinality(D) = Len(outcomes) /\ Len(outcomes) \in Nat
  <2>1. D = 1 .. Len(outcomes) /\ Len(outcomes) \in Nat /\ 1 \in Int
    OBVIOUS
  <2> HIDE DEF D
  <2> QED BY <2>1, FS_Interval
<1>2. \A S \in SUBSET D : Cardinality(S) \in Nat /\ Cardinality(S) <= Len(outcomes)
  <2> HIDE DEF D
  <2> QED BY <1>1, FS_Subset, FS_CardinalityType
<1>3. /\ those("act") \cap right \in SUBSET D /\ those("act") \ right \in SUBSET D
      /\ those("confirm") \cap right \in SUBSET D
      /\ those("refuse") \cap right \cap wanted \in SUBSET D
  OBVIOUS
<1>4. Score(outcomes, policy)
        = Cardinality(those("act") \cap right) - 5 * Cardinality(those("act") \ right)
            - Cardinality(those("confirm") \cap right)
            - 2 * Cardinality(those("refuse") \cap right \cap wanted)
  BY DEF Score
<1> HIDE DEF those, right, wanted, D
<1>5. PICK a, b, c, d \in Nat : a <= Len(outcomes) /\ Score(outcomes, policy) = a - 5 * b - c - 2 * d
  BY <1>2, <1>3, <1>4
<1> QED BY <1>1, <1>5

\* The pair that is suggested is one of those that are worth most.
LEMMA BestPairIsBest ==
  ASSUME NEW W, NEW outcomes \in Seq(W), NEW policy
  PROVE  SuggestsTheBestPair(outcomes, policy)
<1> DEFINE worth(pair) == Score(outcomes, At(policy, pair))
           score == [pair \in Pairs |-> worth(pair)]
           tied == {pair \in Pairs : \A other \in Pairs : score[other] <= score[pair]}
           top == 5 * GRID_POINTS
           firsts == {pair[1] : pair \in tied}
           min == Middle(firsts)
           seconds == {pair[2] : pair \in {p \in tied : p[1] = min}}
           best == <<min, Middle(seconds)>>
<1>1. /\ \A pair \in Pairs : /\ pair[1] \in Range(Grid) /\ pair[2] \in Range(Grid)
                             /\ pair[1] <= pair[2] /\ pair = <<pair[1], pair[2]>>
      /\ Pairs # {}
  <2>1. PICK t : t \in Range(Grid)
    BY GridTyped
  <2>2. <<t, t>> \in Pairs
    BY <2>1, GridTyped DEF Pairs
  <2> QED BY <2>2 DEF Pairs
<1>2. \A pair : worth(pair) \in Int /\ worth(pair) <= Len(outcomes)
  BY ScoreBounded
<1>3. Len(outcomes) \in Nat /\ \A pair \in Pairs : score[pair] = worth(pair)
  OBVIOUS
<1> HIDE DEF worth
<1>4. tied # {}
  <2> DEFINE short == {Len(outcomes) - worth(pair) : pair \in Pairs}
  <2>1. short \subseteq Nat /\ short # {}
    BY <1>1, <1>2, <1>3
  <2> HIDE DEF short
  <2>2. PICK least \in short : \A n \in short : least <= n
    BY <2>1, HasLeast
  <2>3. PICK pair \in Pairs : least = Len(outcomes) - worth(pair)
    BY DEF short
  <2>4. ASSUME NEW other \in Pairs PROVE worth(other) <= worth(pair)
    <3>1. least <= Len(outcomes) - worth(other)
      BY <2>2 DEF short
    <3> QED BY <1>2, <1>3, <2>3, <3>1
  <2>5. pair \in tied
    BY <1>3, <2>4
  <2> QED BY <2>5
<1>5. tied \subseteq Pairs
  OBVIOUS
<1>6. \A p \in tied : \A other \in Pairs : worth(other) <= worth(p)
  BY <1>3
<1>7. BestPair(outcomes, policy) = best
  BY DEF BestPair, worth
<1> HIDE DEF tied, top
<1>8. top \in Nat /\ \A p \in tied : p[1] \in 0 .. top /\ p[2] \in 0 .. top
  BY <1>1, <1>5, GridTyped DEF top
<1>9. min \in firsts
  <2>1. firsts \subseteq 0 .. top /\ firsts # {}
    BY <1>4, <1>8
  <2> HIDE DEF firsts
  <2> QED BY <1>8, <2>1, MiddleIsOne
<1> HIDE DEF min
<1>10. Middle(seconds) \in seconds
  <2>1. seconds \subseteq 0 .. top /\ seconds # {}
    BY <1>8, <1>9
  <2> HIDE DEF seconds
  <2> QED BY <1>8, <2>1, MiddleIsOne
<1>11. PICK p \in tied : p[1] = min /\ p[2] = Middle(seconds)
  <2>1. \A x \in seconds : \E p \in tied : p[1] = min /\ p[2] = x
    OBVIOUS
  <2> HIDE DEF seconds
  <2> QED BY <1>10, <2>1
<1> HIDE DEF seconds
<1>12. best = p /\ p \in Pairs
  BY <1>1, <1>5, <1>11
<1> HIDE DEF best
<1> QED BY <1>1, <1>6, <1>7, <1>12 DEF SuggestsTheBestPair, worth

\* An F1 is a fraction of at most one, and it is one where nothing is wrong.
LEMMA F1IsFraction ==
  ASSUME NEW W, NEW judged \in Seq(W), NEW t
  PROVE  /\ F1(judged, t)[1] \in Nat /\ F1(judged, t)[2] \in Nat \ {0}
         /\ F1(judged, t)[1] <= F1(judged, t)[2]
         /\ F1(judged, t)[1] = F1(judged, t)[2]
              <=> Alarms(judged, t) = {} /\ Misses(judged, t) = {}
<1> DEFINE tp == Cardinality(Hits(judged, t))
           fp == Cardinality(Alarms(judged, t))
           fn == Cardinality(Misses(judged, t))
<1>1. IsFiniteSet(DOMAIN judged)
  <2>1. DOMAIN judged = 1 .. Len(judged) /\ Len(judged) \in Int /\ 1 \in Int
    OBVIOUS
  <2> QED BY <2>1, FS_Interval
<1>2. /\ Hits(judged, t) \in SUBSET DOMAIN judged /\ Alarms(judged, t) \in SUBSET DOMAIN judged
      /\ Misses(judged, t) \in SUBSET DOMAIN judged
  BY DEF Hits, Alarms, Misses
<1>3. /\ tp \in Nat /\ fp \in Nat /\ fn \in Nat
      /\ fp = 0 <=> Alarms(judged, t) = {}
      /\ fn = 0 <=> Misses(judged, t) = {}
  BY <1>1, <1>2, FS_Subset, FS_CardinalityType, FS_EmptySet
<1>4. F1(judged, t) = IF tp + (fp + fn) = 0 THEN <<1, 1>> ELSE <<2 * tp, 2 * tp + (fp + fn)>>
  BY DEF F1
<1> HIDE DEF tp, fp, fn
<1>5. CASE tp + (fp + fn) = 0
  BY <1>3, <1>4, <1>5
<1>6. CASE tp + (fp + fn) # 0
  BY <1>3, <1>4, <1>6
<1> QED BY <1>5, <1>6

\* Fractions are ordered.
LEMMA FractionsOrdered ==
  ASSUME NEW a \in Nat, NEW b \in Nat, NEW c \in Nat, NEW A \in Nat \ {0}, NEW B \in Nat \ {0},
         NEW C \in Nat \ {0}, a * B <= b * A, b * C <= c * B
  PROVE  a * C <= c * A
<1>1. \A x, y, z \in Nat : x <= y => x * z <= y * z
  OBVIOUS
<1>2. \A x, y \in Nat, z \in Nat \ {0} : x * z <= y * z => x <= y
  OBVIOUS
<1>3. a * B \in Nat /\ b * A \in Nat /\ b * C \in Nat /\ c * B \in Nat /\ a * C \in Nat /\ c * A \in Nat
  OBVIOUS
<1>4. (a * B) * C <= (b * A) * C /\ (b * C) * A <= (c * B) * A
  BY <1>1, <1>3
<1>5. (b * A) * C = (b * C) * A /\ (a * B) * C = (a * C) * B /\ (c * B) * A = (c * A) * B
  OBVIOUS
<1>6. (a * C) * B <= (c * A) * B
  <2>1. (a * C) * B \in Nat /\ (b * A) * C \in Nat /\ (c * A) * B \in Nat
    OBVIOUS
  <2> QED BY <1>4, <1>5, <2>1
<1> QED BY <1>2, <1>3, <1>6

\* Of the thresholds that are tried some have the best F1.
LEMMA SomeAreBest ==
  ASSUME NEW W, NEW judged \in Seq(W)
  PROVE  \E t \in Range(Grid) : \A s \in Range(Grid) : AtMostAs(F1(judged, s), F1(judged, t))
<1> DEFINE num(i) == F1(judged, 5 * i)[1]
           den(i) == F1(judged, 5 * i)[2]
           atMost(i, k) == num(i) * den(k) <= num(k) * den(i)
           G == GRID_POINTS
           best(n, k) == k \in 1 .. n /\ \A i \in 1 .. n : atMost(i, k)
           T == {n \in 1 .. G : \A k \in 1 .. n : ~best(n, k)}
<1>1. \A i : num(i) \in Nat /\ den(i) \in Nat \ {0}
  BY F1IsFraction
<1>2. G \in Nat \ {0}
  BY CalibrationAssumption
<1>3. \A i, k : AtMostAs(F1(judged, 5 * i), F1(judged, 5 * k)) <=> atMost(i, k)
  BY DEF AtMostAs
<1> HIDE DEF num, den, G
<1>4. \A i, k, l : atMost(i, k) /\ atMost(k, l) => atMost(i, l)
  BY <1>1, FractionsOrdered
<1>5. \A i, k : atMost(i, i) /\ (atMost(i, k) \/ atMost(k, i))
  <2>1. \A x, y \in Int : x <= y \/ y <= x
    OBVIOUS
  <2>2. \A i, k : num(i) * den(k) \in Int
    BY <1>1
  <2> QED BY <2>1, <2>2
<1> HIDE DEF atMost
<1>6. \A n \in T : \E m \in T : m < n
  <2> SUFFICES ASSUME NEW n \in T PROVE n - 1 \in T /\ n - 1 < n
    OBVIOUS
  <2>1. n \in 1 .. G /\ \A k \in 1 .. n : ~best(n, k)
    OBVIOUS
  <2>2. n # 1
    <3>1. 1 .. 1 = {1}
      OBVIOUS
    <3>2. best(1, 1)
      BY <1>5, <3>1
    <3> HIDE DEF best
    <3> QED BY <2>1, <3>1, <3>2
  <2>3. n - 1 \in 1 .. G /\ n - 1 < n /\ \A i : i \in 1 .. n <=> i \in 1 .. n - 1 \/ i = n
    <3>1. n \in Nat /\ n > 1 /\ n <= G
      BY <1>2, <2>1, <2>2
    <3>2. \A i \in 1 .. n : i \in 1 .. n - 1 \/ i = n
      BY <3>1
    <3>3. n - 1 \in 1 .. G /\ n - 1 < n /\ n \in 1 .. n /\ \A i \in 1 .. n - 1 : i \in 1 .. n
      BY <1>2, <3>1
    <3> QED BY <3>2, <3>3
  <2>4. ASSUME NEW k \in 1 .. n - 1, best(n - 1, k) PROVE FALSE
    <3>1. CASE atMost(n, k)
      <4>1. best(n, k)
        BY <2>3, <2>4, <3>1
      <4> HIDE DEF best
      <4> QED BY <2>1, <2>3, <4>1
    <3>2. CASE atMost(k, n)
      <4>1. \A i \in 1 .. n : atMost(i, n)
        BY <1>4, <1>5, <2>3, <2>4, <3>2
      <4>2. best(n, n) /\ n \in 1 .. n
        BY <2>3, <4>1
      <4> HIDE DEF best
      <4> QED BY <2>1, <4>2
    <3> QED BY <1>5, <3>1, <3>2
  <2> HIDE DEF best
  <2> QED BY <2>3, <2>4
<1>7. T = {}
  <2>1. T \subseteq Nat
    BY <1>2
  <2> HIDE DEF T
  <2> QED BY <1>6, <2>1, Descent
<1>8. PICK k \in 1 .. G : \A i \in 1 .. G : atMost(i, k)
  <2>1. G \in 1 .. G
    BY <1>2
  <2> QED BY <1>7, <2>1
<1>9. Range(Grid) = {5 * i : i \in 1 .. G}
  BY GridTyped DEF G
<1>10. 5 * k \in Range(Grid)
  BY <1>9
<1>11. \A s \in Range(Grid) : \E i \in 1 .. G : s = 5 * i
  BY <1>9
<1> QED BY <1>3, <1>8, <1>10, <1>11

\* Where a threshold tells cases apart, the ones that are suggested do.
LEMMA SuggestionSeparates ==
  ASSUME NEW W, NEW judged \in Seq(W)
  PROVE  SuggestsWhatSeparates(judged)
<1> DEFINE tied == {t \in Range(Grid) :
                      \A s \in Range(Grid) : AtMostAs(F1(judged, s), F1(judged, t))}
           separates(t) == Alarms(judged, t) = {} /\ Misses(judged, t) = {}
           low == BestThreshold(judged, "low")
           middle == BestThreshold(judged, "middle")
<1>1. tied # {} /\ tied \subseteq 0 .. 5 * GRID_POINTS /\ 5 * GRID_POINTS \in Nat
  BY SomeAreBest, GridTyped
<1>2. ASSUME NEW t \in Range(Grid), separates(t), NEW b \in tied PROVE separates(b)
  <2> DEFINE n == F1(judged, t)[1]
             d == F1(judged, t)[2]
             m == F1(judged, b)[1]
             e == F1(judged, b)[2]
  <2>1. n \in Nat /\ d \in Nat \ {0} /\ n = d /\ m \in Nat /\ e \in Nat \ {0} /\ m <= e
    BY <1>2, F1IsFraction
  <2>2. n * e <= m * d
    BY <1>2 DEF AtMostAs
  <2>3. m = e <=> separates(b)
    BY F1IsFraction
  <2> HIDE DEF n, d, m, e, separates
  <2>4. \A x, y \in Nat, z \in Nat \ {0} : z * x <= y * z => x <= y
    OBVIOUS
  <2>5. e <= m
    BY <2>1, <2>2, <2>4
  <2> QED BY <2>1, <2>3, <2>5
<1>3. middle = Middle(tied) /\ low = CHOOSE t \in tied : \A s \in tied : t <= s
  BY DEF BestThreshold
<1> HIDE DEF tied, separates, low, middle
<1>4. middle \in tied
  BY <1>1, <1>3, MiddleIsOne
<1>5. low \in tied /\ \A s \in tied : low <= s
  <2>1. tied \subseteq Nat
    BY <1>1
  <2>2. \E t \in tied : \A s \in tied : t <= s
    BY <1>1, <2>1, HasLeast
  <2> QED BY <1>3, <2>2
<1> QED BY <1>2, <1>4, <1>5 DEF SuggestsWhatSeparates, separates, low, middle

\* AdviceIsSound (calibrate.rs, assess, summarize and best_threshold), for a case of any words
\* with anything built of it, any corpus and any signal.
THEOREM AdviceHolds ==
  ASSUME NEW W, Of("case") /\ The.it # Unclear => The.it.words \in Seq(W),
         Of("corpus") \/ Of("signal") => The \in Seq(W)
  PROVE  AdviceIsSound
BY RightWhereAsked, BestPairIsBest, SuggestionSeparates DEF AdviceIsSound
-----------------------------------------------------------------------------
(* Chords. *)

\* Every key that words can name.
KeyNames == Plain \cup Letters \cup Figures \cup FKeys
              \cup {"-", "=", ".", "/", "'", "\\", "comma", "semicolon", "grave"}
Others == KeyNames \ MODIFIERS

\* The function keys are keys.
LEMMA FunctionKeysAreKeys == \A n : FunctionKey(n) \in FKeys \cup {"none"}
BY DEF FunctionKey, FKeys

\* A word is a key or none.
LEMMA WordIsKeyOrNone == \A w : KeyOf(w) \in KeyNames \cup {"none"}
<1> TAKE w
<1>1. w \in Plain \cup Letters \cup Figures => w \in KeyNames
  BY DEF KeyNames
<1>2. w \in DOMAIN KEYS => KEYS[w] \in KeyNames
  BY DEF KEYS, KeyNames, Plain
<1>3. FunctionKey(AfterF[w]) \in KeyNames \cup {"none"}
  BY FunctionKeysAreKeys DEF KeyNames
<1>4. w \in DOMAIN DIGITS => DIGITS[w] \in KeyNames
  BY DEF DIGITS, KeyNames, Figures
<1> QED BY <1>1, <1>2, <1>3, <1>4, Zenon DEF KeyOf

\* Whatever the words, a modifier is a name of its own.
LEMMA ModifiersAreKeys == MODIFIERS \subseteq KeyNames
BY DEF MODIFIERS, KeyNames, Plain

\* What is not a key is not named like one.
LEMMA NoneIsNoKey == "none" \notin KeyNames /\ "" \notin KeyNames
BY DEF KeyNames, Plain, Arrows, Letters, Figures, FKeys

\* Every key has a code, a modifier the code of a modifier, and no other.
LEMMA KeysHaveCodes ==
  \A k \in KeyNames : /\ Keycode(NameOf(k)) # "none"
                      /\ Keycode(NameOf(k)) \in MODIFIERS <=> k \in MODIFIERS
<1> TAKE k \in KeyNames
<1>1. CASE k \in Plain
  BY <1>1 DEF Plain, Arrows, NameOf, Keycode, Signs, MODIFIERS
<1>2. CASE k \in Letters
  BY <1>2 DEF Letters, NameOf, Keycode, Plain, Arrows, Signs, MODIFIERS
<1>3. CASE k \in Figures
  BY <1>3 DEF Figures, NameOf, Keycode, Plain, Arrows, Signs, MODIFIERS
<1>4. CASE k \in FKeys
  BY <1>4 DEF FKeys, NameOf, Keycode, Plain, Arrows, Signs, MODIFIERS
<1>5. CASE k \in {"-", "=", ".", "/", "'", "\\", "comma", "semicolon", "grave"}
  BY <1>5 DEF NameOf, Keycode, Plain, Arrows, Signs, MODIFIERS
<1> QED BY <1>1, <1>2, <1>3, <1>4, <1>5 DEF KeyNames

\* A word that has a code has the code of the key that it names.
LEMMA SameCode ==
  \A w : Keycode(NameOf(w)) # "none" /\ KeyOf(w) # "none" =>
           Keycode(NameOf(KeyOf(w))) = Keycode(NameOf(w))
<1> TAKE w
<1>1. CASE KeyOf(w) = w
  BY <1>1
<1>2. CASE w \in DOMAIN KEYS /\ w \notin Plain
  <2>1. KeyOf(w) = KEYS[w]
    BY <1>2 DEF KeyOf, KEYS, AfterF, DIGITS, Letters, Figures
  <2>2. CASE w \in {"control", "ctl", "option", "super", "win", "windows", "command", "cmd",
                    "return", "esc", "spacebar", "del"}
    BY <2>1, <2>2 DEF KEYS, NameOf, Keycode, Signs, Plain, Arrows, Letters, Figures, FKeys
  <2>3. CASE w \in {"minus", "dash", "hyphen", "equals", "equal", "plus", "comma", "period",
                    "dot", "slash", "semicolon", "apostrophe", "grave", "backtick", "backslash"}
    BY <2>1, <2>3 DEF KEYS, NameOf, Keycode, Signs, Plain, Arrows, Letters, Figures, FKeys
  <2> QED BY <1>2, <2>2, <2>3 DEF KEYS
<1>3. CASE w \in DOMAIN AfterF
  <2>1. KeyOf(w) = FunctionKey(AfterF[w])
    BY <1>3 DEF KeyOf, AfterF, Plain, Arrows, KEYS, DIGITS, Letters, Figures
  <2>2. CASE w \in FKeys
    BY <2>1, <2>2 DEF FKeys, AfterF, FunctionKey
  <2>3. CASE w \notin FKeys
    BY <1>3, <2>3 DEF FKeys, AfterF, NameOf, Keycode, Signs, Plain, Arrows, Letters, Figures
  <2> QED BY <2>2, <2>3
<1>4. CASE w \in DOMAIN DIGITS
  BY <1>4 DEF DIGITS, NameOf, Keycode, Signs, Plain, Arrows, Letters, Figures, FKeys
<1>5. w \in Plain \cup Letters \cup Figures => KeyOf(w) = w
  BY DEF KeyOf, KEYS, AfterF, DIGITS, Plain, Arrows, Letters, Figures
<1> QED BY <1>1, <1>2, <1>3, <1>4, <1>5 DEF KeyOf

\* A reading takes one word or two, for a key, for none, or for filler.
LEMMA ReadTyped ==
  ASSUME NEW words, NEW i
  PROVE  Read(words, i).took \in {1, 2} /\ Read(words, i).key \in KeyNames \cup {"none", ""}
<1>1. \A k \in Arrows \cup {"pageup", "pagedown"} : k \in KeyNames
  BY DEF KeyNames, Plain
<1>2. \A n : FunctionKey(n) \in KeyNames \cup {"none"}
  BY FunctionKeysAreKeys DEF KeyNames
<1>3. KeyOf(words[i]) \in KeyNames \cup {"none"}
  BY WordIsKeyOrNone
<1> QED BY <1>1, <1>2, <1>3 DEF Read

\* The recursion of KeysRead, from a word on.
NoKeys == [modifiers |-> <<>>, rest |-> <<>>]
ReadFrom(words, i, keys) ==
  IF i > Len(words) THEN NoKeys
  ELSE Parted(Read(words, i).key, keys[i + Read(words, i).took])
Reading(words, k, keys) == keys = [i \in k .. Len(words) + 2 |-> ReadFrom(words, i, keys)]

\* It goes on behind the word.
LEMMA ReadsOn ==
  ASSUME NEW W, NEW words \in Seq(W), NEW i \in 1 .. Len(words)
  PROVE  i + Read(words, i).took \in (i + 1) .. (Len(words) + 2)
<1>1. Len(words) \in Nat
  OBVIOUS
<1>2. Read(words, i).took \in {1, 2}
  BY ReadTyped
<1> QED BY <1>1, <1>2

\* It has a solution from every word on.
LEMMA ReadingExists ==
  ASSUME NEW W, NEW words \in Seq(W), NEW k \in 1 .. Len(words) + 2
  PROVE  \E keys : Reading(words, k, keys)
<1> DEFINE end == Len(words) + 2
           bad == {j \in 1 .. end : ~\E keys : Reading(words, j, keys)}
<1>1. Len(words) \in Nat /\ end \in Nat
  OBVIOUS
<1>2. SUFFICES ASSUME bad # {} PROVE FALSE
  OBVIOUS
<1>3. bad \subseteq 0 .. end
  BY <1>1
<1>4. \E m \in bad : \A j \in bad : j <= m
  <2> HIDE DEF bad, end
  <2> QED BY <1>1, <1>2, <1>3, HasGreatest
<1>5. PICK m \in bad : \A j \in bad : j <= m
  BY <1>4
<1>6. m \in 1 .. end /\ ~\E keys : Reading(words, m, keys)
  OBVIOUS
<1>7. m # end
  <2> DEFINE f == [i \in end .. end |-> NoKeys]
  <2>1. \A i \in end .. end : ReadFrom(words, i, f) = NoKeys
    BY <1>1 DEF ReadFrom
  <2>2. Reading(words, end, f)
    BY <2>1 DEF Reading
  <2> QED BY <1>6, <2>2
<1>8. m + 1 \in 1 .. end /\ m + 1 \notin bad
  <2>1. m + 1 \in 1 .. end /\ ~(m + 1 <= m)
    BY <1>1, <1>6, <1>7
  <2> HIDE DEF bad
  <2> QED BY <1>5, <2>1
<1>9. PICK g : Reading(words, m + 1, g)
  BY <1>8
<1> HIDE DEF bad
<1> DEFINE f == [i \in m .. end |-> IF i = m THEN ReadFrom(words, m, g) ELSE g[i]]
<1>10. ASSUME NEW i \in m .. end PROVE f[i] = ReadFrom(words, i, f)
  <2>1. i \in 1 .. end /\ m \in 1 .. end
    BY <1>1, <1>6
  <2>2. i > Len(words) \/ i + Read(words, i).took \in (i + 1) .. end
    BY <1>1, <2>1, ReadsOn
  <2>3. \A j \in (m + 1) .. end : f[j] = g[j]
    BY <1>6
  <2>4. ReadFrom(words, i, f) = ReadFrom(words, i, g)
    <3>1. CASE i > Len(words)
      BY <3>1 DEF ReadFrom
    <3>2. CASE ~(i > Len(words))
      <4>1. i + Read(words, i).took \in (m + 1) .. end
        BY <1>1, <2>1, <2>2, <3>2
      <4> HIDE DEF f
      <4> QED BY <2>3, <4>1 DEF ReadFrom
    <3> QED BY <3>1, <3>2
  <2>5. CASE i = m
    BY <2>4, <2>5
  <2>6. CASE i # m
    <3>1. i \in (m + 1) .. end
      BY <1>1, <2>1, <2>6
    <3>2. g[i] = ReadFrom(words, i, g)
      BY <1>9, <3>1 DEF Reading
    <3> QED BY <2>3, <2>4, <3>1, <3>2
  <2> QED BY <2>5, <2>6
<1>11. Reading(words, m, f)
  <2>1. f = [i \in m .. end |-> f[i]]
    OBVIOUS
  <2> HIDE DEF f
  <2> QED BY <1>10, <2>1 DEF Reading
<1> QED BY <1>6, <1>11

\* KeysRead is what the recursion gives from the first word on.
LEMMA KeysReadByReading ==
  ASSUME NEW W, NEW words \in Seq(W)
  PROVE  \E keys : Reading(words, 1, keys) /\ KeysRead(words) = keys[1]
<1> DEFINE read == CHOOSE keys : Reading(words, 1, keys)
<1>1. KeysRead(words) = read[1]
  BY DEF KeysRead, Reading, ReadFrom, NoKeys
<1>2. Len(words) \in Nat /\ 1 \in 1 .. Len(words) + 2
  OBVIOUS
<1>3. Reading(words, 1, read)
  BY <1>2, ReadingExists
<1> HIDE DEF read
<1> QED BY <1>1, <1>3

\* Keys that are parted, and all of them together.
PartedKeys == [modifiers : Seq(MODIFIERS), rest : Seq(Others \cup {"none"})]
AllKeys(keys) == Range(keys.modifiers) \cup Range(keys.rest)

Before(key, s) == <<key>> \o s

\* A key that is put first comes on top of the keys that are there.
LEMMA OneMoreFirst ==
  ASSUME NEW S, NEW key \in S, NEW s \in Seq(S)
  PROVE  Before(key, s) \in Seq(S) /\ Range(Before(key, s)) = {key} \cup Range(s)
<1>1. <<key>> \in Seq(S) /\ Len(<<key>>) = 1 /\ <<key>>[1] = key
  OBVIOUS
<1>2. /\ <<key>> \o s \in Seq(S) /\ Len(<<key>> \o s) = Len(<<key>>) + Len(s)
      /\ \A i \in 1 .. Len(<<key>>) + Len(s) :
           (<<key>> \o s)[i] = IF i <= Len(<<key>>) THEN <<key>>[i] ELSE s[i - Len(<<key>>)]
  BY <1>1, ConcatProperties
<1>3. Len(s) \in Nat /\ DOMAIN s = 1 .. Len(s)
  OBVIOUS
<1> DEFINE c == <<key>> \o s
<1>4. c \in Seq(S) /\ Len(c) = 1 + Len(s)
  BY <1>1, <1>2
<1>5. c[1] = key /\ \A i \in 1 .. Len(s) : c[i + 1] = s[i]
  <2>1. c[1] = key
    BY <1>1, <1>2, <1>3
  <2>2. ASSUME NEW i \in 1 .. Len(s) PROVE c[i + 1] = s[i]
    <3>1. i + 1 \in 1 .. 1 + Len(s) /\ ~(i + 1 <= 1) /\ (i + 1) - 1 = i
      BY <1>3
    <3> QED BY <1>1, <1>2, <3>1
  <2> QED BY <2>1, <2>2
<1> HIDE DEF c
<1>6. DOMAIN c = 1 .. 1 + Len(s)
  BY <1>4
<1>7. ASSUME NEW k \in Range(c) PROVE k \in {key} \cup Range(s)
  <2>1. PICK i \in 1 .. 1 + Len(s) : k = c[i]
    BY <1>6, <1>7 DEF Range
  <2>2. CASE i = 1
    BY <1>5, <2>1, <2>2
  <2>3. CASE i # 1
    <3>1. i - 1 \in 1 .. Len(s) /\ (i - 1) + 1 = i
      BY <1>3, <2>3
    <3>2. k = s[i - 1]
      BY <1>5, <2>1, <3>1
    <3> QED BY <1>3, <3>1, <3>2 DEF Range
  <2> QED BY <2>2, <2>3
<1>8. key \in Range(c)
  BY <1>3, <1>5, <1>6 DEF Range
<1>9. ASSUME NEW k \in Range(s) PROVE k \in Range(c)
  <2>1. PICK i \in 1 .. Len(s) : k = s[i]
    BY <1>3, <1>9 DEF Range
  <2>2. i + 1 \in 1 .. 1 + Len(s) /\ c[i + 1] = k
    BY <1>3, <1>5, <2>1
  <2> QED BY <1>6, <2>2 DEF Range
<1> QED BY <1>4, <1>7, <1>8, <1>9 DEF c, Before

\* Parted keys take one more.
LEMMA OneMoreParted ==
  ASSUME NEW key \in KeyNames \cup {"none", ""}, NEW keys \in PartedKeys
  PROVE  /\ Parted(key, keys) \in PartedKeys
         /\ AllKeys(Parted(key, keys)) = AllKeys(keys) \cup ({key} \ {""})
<1> DEFINE m == keys.modifiers
           r == keys.rest
           both == Parted(key, keys)
<1>1. m \in Seq(MODIFIERS) /\ r \in Seq(Others \cup {"none"})
      /\ keys = [modifiers |-> m, rest |-> r]
  BY DEF PartedKeys
<1>2. AllKeys(keys) = Range(m) \cup Range(r)
  BY DEF AllKeys
<1>3. "" \notin MODIFIERS
  BY ModifiersAreKeys, NoneIsNoKey
<1> HIDE DEF m, r
<1>4. ASSUME NEW x, NEW y, both = [modifiers |-> x, rest |-> y],
             x \in Seq(MODIFIERS), y \in Seq(Others \cup {"none"})
      PROVE  both \in PartedKeys /\ AllKeys(both) = Range(x) \cup Range(y)
  <2> HIDE DEF both
  <2>1. both.modifiers = x /\ both.rest = y /\ both \in PartedKeys
    BY <1>4 DEF PartedKeys
  <2> QED BY <2>1, Zenon DEF AllKeys
<1>5. CASE key = ""
  <2>1. both = keys
    BY <1>3, <1>5 DEF Parted
  <2>2. {key} \ {""} = {}
    BY <1>5
  <2>3. AllKeys(keys) = AllKeys(keys) \cup {}
    OBVIOUS
  <2> QED BY <2>1, <2>2, <2>3, Zenon
<1>6. CASE key \in MODIFIERS
  <2>1. both = [modifiers |-> Before(key, m), rest |-> r]
    BY <1>1, <1>3, <1>6 DEF Parted, Before
  <2>2. Before(key, m) \in Seq(MODIFIERS)
    BY <1>1, <1>6, OneMoreFirst, Zenon
  <2>3. Range(Before(key, m)) = {key} \cup Range(m)
    BY <1>1, <1>6, OneMoreFirst, Zenon
  <2> HIDE DEF both
  <2>4. both \in PartedKeys /\ AllKeys(both) = Range(Before(key, m)) \cup Range(r)
    BY <1>1, <1>4, <2>1, <2>2
  <2>5. key # ""
    BY <1>3, <1>6
  <2> QED BY <1>2, <2>3, <2>4, <2>5 DEF both
<1>7. CASE key # "" /\ key \notin MODIFIERS
  <2> DEFINE S == Others \cup {"none"}
  <2>1. key \in S /\ r \in Seq(S)
    BY <1>1, <1>7 DEF Others
  <2>2. both = [modifiers |-> m, rest |-> Before(key, r)]
    BY <1>1, <1>7 DEF Parted, Before
  <2> HIDE DEF S
  <2>3. Before(key, r) \in Seq(S)
    BY <2>1, OneMoreFirst, Zenon
  <2>4. Range(Before(key, r)) = {key} \cup Range(r)
    BY <2>1, OneMoreFirst, Zenon
  <2>5. Before(key, r) \in Seq(Others \cup {"none"})
    BY <2>3 DEF S
  <2> HIDE DEF both
  <2>6. both \in PartedKeys /\ AllKeys(both) = Range(m) \cup Range(Before(key, r))
    BY <1>1, <1>4, <2>2, <2>5
  <2> QED BY <1>2, <1>7, <2>4, <2>6 DEF both
<1> QED BY <1>5, <1>6, <1>7

\* From every word on, the keys that are read are parted; and where every word
\* goes for itself, they are the keys of the words.
LEMMA ReadKeys ==
  ASSUME NEW W, NEW words \in Seq(W), NEW keys, Reading(words, 1, keys),
         NEW k \in 1 .. Len(words) + 2
  PROVE  /\ keys[k] \in PartedKeys
         /\ (\A i \in 1 .. Len(words) : Read(words, i) = [took |-> 1, key |-> KeyOf(words[i])])
              => AllKeys(keys[k]) = {KeyOf(words[i]) : i \in k .. Len(words)}
<1> DEFINE end == Len(words) + 2
           eachForItself ==
             \A i \in 1 .. Len(words) : Read(words, i) = [took |-> 1, key |-> KeyOf(words[i])]
           named(i) == {KeyOf(words[j]) : j \in i .. Len(words)}
           good(i) == keys[i] \in PartedKeys /\ (eachForItself => AllKeys(keys[i]) = named(i))
           bad == {i \in 1 .. end : ~good(i)}
<1>1. Len(words) \in Nat /\ end \in Nat
  OBVIOUS
<1>2. \A i \in 1 .. end : keys[i] = ReadFrom(words, i, keys)
  BY DEF Reading
<1>3. ASSUME NEW i \in 1 .. end, \A j \in (i + 1) .. end : good(j)
      PROVE  good(i)
  <2>1. CASE i > Len(words)
    <3>1. keys[i] = NoKeys
      BY <1>2, <2>1 DEF ReadFrom
    <3>2. <<>> \in Seq(MODIFIERS) /\ <<>> \in Seq(Others \cup {"none"}) /\ Range(<<>>) = {}
      BY DEF Range
    <3>3. NoKeys \in PartedKeys /\ AllKeys(NoKeys) = {}
      BY <3>2 DEF NoKeys, PartedKeys, AllKeys
    <3>4. named(i) = {}
      BY <1>1, <2>1
    <3> HIDE DEF named, eachForItself
    <3> QED BY <3>1, <3>3, <3>4
  <2>2. CASE ~(i > Len(words))
    <3> DEFINE key == Read(words, i).key
               next == i + Read(words, i).took
    <3>1. i \in 1 .. Len(words)
      BY <1>1, <2>2
    <3>2. key \in KeyNames \cup {"none", ""} /\ next \in (i + 1) .. end
      BY <3>1, ReadTyped, ReadsOn
    <3>3. keys[i] = Parted(key, keys[next])
      BY <1>2, <2>2 DEF ReadFrom
    <3>4. good(next)
      BY <1>3, <3>2
    <3>5. keys[i] \in PartedKeys
          /\ AllKeys(keys[i]) = AllKeys(keys[next]) \cup ({key} \ {""})
      <4> HIDE DEF key, next, named, eachForItself
      <4> QED BY <3>2, <3>3, <3>4, OneMoreParted
    <3>6. ASSUME eachForItself PROVE AllKeys(keys[i]) = named(i)
      <4>1. key = KeyOf(words[i]) /\ next = i + 1
        BY <3>1, <3>6
      <4>2. key # ""
        BY <4>1, WordIsKeyOrNone, NoneIsNoKey
      <4>3. AllKeys(keys[next]) = named(i + 1)
        <5> HIDE DEF named, eachForItself
        <5> QED BY <3>4, <3>6, <4>1
      <4>4. named(i) = named(i + 1) \cup {KeyOf(words[i])}
        <5>1. i .. Len(words) = (i + 1) .. Len(words) \cup {i}
          BY <1>1, <3>1
        <5> QED BY <5>1
      <4> HIDE DEF key, next, named, eachForItself
      <4> QED BY <3>5, <4>1, <4>2, <4>3, <4>4
    <3> HIDE DEF key, next, named, eachForItself
    <3> QED BY <3>5, <3>6
  <2> QED BY <2>1, <2>2
<1>4. bad = {}
  <2>1. bad \subseteq 0 .. end
    BY <1>1
  <2>2. ASSUME bad # {} PROVE FALSE
    <3>1. PICK m \in bad : \A j \in bad : j <= m
      <4>1. \E m \in bad : \A j \in bad : j <= m
        <5> HIDE DEF bad, end
        <5> QED BY <1>1, <2>1, <2>2, HasGreatest
      <4> QED BY <4>1
    <3>2. m \in 1 .. end /\ ~good(m)
      OBVIOUS
    <3>3. ASSUME NEW j \in (m + 1) .. end PROVE good(j)
      <4>1. j \in 1 .. end /\ ~(j <= m)
        BY <1>1, <3>2
      <4> HIDE DEF good
      <4> QED BY <3>1, <4>1
    <3> HIDE DEF good, bad, end
    <3> QED BY <1>3, <3>2, <3>3
  <2> QED BY <2>2
<1> QED BY <1>4

\* Trailing nouns leave the words before them.
LEMMA Untrailed ==
  ASSUME NEW W, NEW words \in Seq(W)
  PROVE  /\ WithoutTrailing(words) \in Seq(W)
         /\ (\A i \in DOMAIN words : words[i] \notin TRAILING) => WithoutTrailing(words) = words
<1> DEFINE kept == {i \in DOMAIN words : words[i] \notin TRAILING}
           last == IF kept = {} THEN 0 ELSE CHOOSE n \in kept : \A m \in kept : m <= n
<1>1. Len(words) \in Nat /\ DOMAIN words = 1 .. Len(words)
      /\ \A i \in 1 .. Len(words) : words[i] \in W
  OBVIOUS
<1>2. WithoutTrailing(words) = SubSeq(words, 1, last)
  BY DEF WithoutTrailing
<1>3. last \in 0 .. Len(words) /\ (kept # {} => last \in kept /\ \A m \in kept : m <= last)
  <2>1. kept \subseteq 0 .. Len(words)
    BY <1>1
  <2> HIDE DEF kept
  <2>2. CASE kept = {}
    BY <1>1, <2>2
  <2>3. CASE kept # {}
    <3>1. \E n \in kept : \A m \in kept : m <= n
      BY <1>1, <2>1, <2>3, HasGreatest
    <3>2. last \in kept /\ \A m \in kept : m <= last
      BY <2>3, <3>1
    <3> QED BY <2>1, <3>2
  <2> QED BY <2>2, <2>3
<1>4. ASSUME \A i \in DOMAIN words : words[i] \notin TRAILING PROVE last = Len(words)
  <2>1. kept = 1 .. Len(words)
    BY <1>1, <1>4
  <2> HIDE DEF last, kept
  <2>2. CASE kept = {}
    <3>1. Len(words) = 0
      BY <1>1, <2>1, <2>2
    <3> QED BY <1>3, <3>1
  <2>3. CASE kept # {}
    <3>1. last \in 1 .. Len(words)
      BY <1>3, <2>1, <2>3
    <3>2. Len(words) \in kept
      BY <1>1, <2>1, <3>1
    <3>3. Len(words) <= last
      BY <1>3, <2>3, <3>2, Zenon
    <3>4. \A a \in Nat : \A b \in 1 .. a : a <= b => b = a
      OBVIOUS
    <3> QED BY <1>1, <3>1, <3>3, <3>4, Zenon
  <2> QED BY <2>2, <2>3
<1> HIDE DEF kept, last
<1>5. SubSeq(words, 1, last) \in Seq(W)
  <2>1. last \in Int /\ 1 \in Int /\ \A k \in 1 .. last : words[k] \in W
    BY <1>1, <1>3
  <2> QED BY <2>1, SubSeqProperties
<1>6. ASSUME last = Len(words) PROVE SubSeq(words, 1, last) = words
  <2>1. SubSeq(words, 1, Len(words)) = words
    BY SubSeqFull
  <2> QED BY <1>6, <2>1
<1> QED BY <1>2, <1>4, <1>5, <1>6

\* A chord is modifiers, and then keys that are none.
LEMMA ChordInOrder ==
  ASSUME NEW W, NEW words \in Seq(W), SpokenChord(words) # NoChord
  PROVE  /\ SpokenChord(words) \in Seq(KeyNames)
         /\ \E m \in Nat : /\ m < Len(SpokenChord(words))
                           /\ \A i \in 1 .. Len(SpokenChord(words)) :
                                SpokenChord(words)[i] \in MODIFIERS <=> i <= m
         /\ Range(SpokenChord(words)) = AllKeys(KeysRead(WithoutTrailing(words)))
<1> DEFINE chord == SpokenChord(words)
           keys == KeysRead(WithoutTrailing(words))
           m == keys.modifiers
           r == keys.rest
<1>1. keys \in PartedKeys
  <2> DEFINE said == WithoutTrailing(words)
  <2>1. said \in Seq(W)
    BY Untrailed
  <2> HIDE DEF said
  <2>2. PICK read : Reading(said, 1, read) /\ KeysRead(said) = read[1]
    BY <2>1, KeysReadByReading
  <2>3. 1 \in 1 .. Len(said) + 2
    BY <2>1
  <2>4. read[1] \in PartedKeys
    BY <2>1, <2>2, <2>3, ReadKeys
  <2> QED BY <2>2, <2>4 DEF said
<1>2. "none" \notin Range(r) /\ r # <<>> /\ chord = m \o r
  BY DEF SpokenChord, NoChord
<1>3. m \in Seq(MODIFIERS) /\ r \in Seq(Others \cup {"none"}) /\ AllKeys(keys) = Range(m) \cup Range(r)
  BY <1>1 DEF PartedKeys, AllKeys
<1> HIDE DEF chord, m, r, keys
<1>4. /\ Len(m) \in Nat /\ Len(r) \in Nat /\ DOMAIN m = 1 .. Len(m) /\ DOMAIN r = 1 .. Len(r)
      /\ \A i \in 1 .. Len(m) : m[i] \in MODIFIERS
  BY <1>3
<1>5. \A i \in 1 .. Len(r) : r[i] \in Others
  <2>1. \A i \in 1 .. Len(r) : r[i] \in Others \cup {"none"} /\ r[i] \in Range(r)
    BY <1>3, <1>4 DEF Range
  <2> QED BY <1>2, <2>1
<1>6. m \in Seq(KeyNames) /\ r \in Seq(KeyNames)
  <2>1. \A i \in 1 .. Len(m) : m[i] \in KeyNames
    BY <1>4, ModifiersAreKeys
  <2>2. \A i \in 1 .. Len(r) : r[i] \in KeyNames
    BY <1>5 DEF Others
  <2> QED BY <1>3, <1>4, <2>1, <2>2
<1>7. /\ m \o r \in Seq(KeyNames) /\ Len(m \o r) = Len(m) + Len(r)
      /\ \A i \in 1 .. Len(m) + Len(r) : (m \o r)[i] = IF i <= Len(m) THEN m[i] ELSE r[i - Len(m)]
  BY <1>6, ConcatProperties
<1>8. Len(r) > 0
  BY <1>2, <1>3, <1>4, EmptySeq
<1>9. ASSUME NEW i \in 1 .. Len(chord)
      PROVE  chord[i] \in MODIFIERS <=> i <= Len(m)
  <2>1. CASE i <= Len(m)
    <3>1. i \in 1 .. Len(m) /\ chord[i] = m[i]
      BY <1>2, <1>4, <1>7, <2>1
    <3> QED BY <1>4, <2>1, <3>1
  <2>2. CASE ~(i <= Len(m))
    <3>1. i - Len(m) \in 1 .. Len(r) /\ chord[i] = r[i - Len(m)]
      BY <1>2, <1>4, <1>7, <2>2
    <3> QED BY <1>5, <2>2, <3>1 DEF Others
  <2> QED BY <2>1, <2>2
<1>10. Len(m) < Len(chord)
  BY <1>2, <1>4, <1>7, <1>8
<1>11. Range(chord) = Range(m) \cup Range(r)
  <2>0. DOMAIN chord = 1 .. Len(m) + Len(r)
    BY <1>2, <1>7
  <2>1. ASSUME NEW k \in Range(chord) PROVE k \in Range(m) \cup Range(r)
    <3>1. PICK i \in 1 .. Len(m) + Len(r) : k = chord[i]
      BY <2>0, <2>1 DEF Range
    <3>2. CASE i <= Len(m)
      <4>1. i \in 1 .. Len(m) /\ k = m[i]
        BY <1>2, <1>4, <1>7, <3>1, <3>2
      <4> QED BY <1>4, <4>1 DEF Range
    <3>3. CASE ~(i <= Len(m))
      <4>1. i - Len(m) \in 1 .. Len(r) /\ k = r[i - Len(m)]
        BY <1>2, <1>4, <1>7, <3>1, <3>3
      <4> QED BY <1>4, <4>1 DEF Range
    <3> QED BY <3>2, <3>3
  <2>2. ASSUME NEW k \in Range(m) PROVE k \in Range(chord)
    <3>1. PICK i \in 1 .. Len(m) : k = m[i]
      BY <1>4, <2>2 DEF Range
    <3>2. i \in 1 .. Len(m) + Len(r) /\ chord[i] = k
      BY <1>2, <1>4, <1>7, <3>1
    <3> QED BY <2>0, <3>2 DEF Range
  <2>3. ASSUME NEW k \in Range(r) PROVE k \in Range(chord)
    <3>1. PICK i \in 1 .. Len(r) : k = r[i]
      BY <1>4, <2>3 DEF Range
    <3>2. i + Len(m) \in 1 .. Len(m) + Len(r) /\ ~(i + Len(m) <= Len(m)) /\ (i + Len(m)) - Len(m) = i
      BY <1>4
    <3>3. chord[i + Len(m)] = k
      BY <1>2, <1>7, <3>1, <3>2
    <3> QED BY <2>0, <3>2, <3>3 DEF Range
  <2> QED BY <2>1, <2>2, <2>3
<1>12. chord \in Seq(KeyNames)
  BY <1>2, <1>7
<1> QED BY <1>3, <1>4, <1>9, <1>10, <1>11, <1>12 DEF chord, keys

\* What is pressed: every key goes down, in the order of the chord, and comes up
\* again in the reverse one; or nothing, if a key has no code.
LEMMA PressedInOrder ==
  ASSUME NEW S, NEW chord \in Seq(S)
  PROVE  IF \A i \in 1 .. Len(chord) : Keycode(NameOf(chord[i])) # "none"
         THEN /\ Len(Pressed(chord)) = 2 * Len(chord)
              /\ DOMAIN Pressed(chord) = 1 .. 2 * Len(chord)
              /\ \A i \in 1 .. Len(chord) :
                   /\ Pressed(chord)[i] = [key |-> Keycode(NameOf(chord[i])), down |-> TRUE]
                   /\ Pressed(chord)[2 * Len(chord) + 1 - i] =
                        [key |-> Keycode(NameOf(chord[i])), down |-> FALSE]
         ELSE Pressed(chord) = <<>>
<1> DEFINE n == Len(chord)
           keys == NormalizeChord(chord)
           code(i) == Keycode(NameOf(chord[i]))
           down == [i \in DOMAIN keys |-> [key |-> Keycode(keys[i]), down |-> TRUE]]
           up == [i \in DOMAIN keys |-> [key |-> Keycode(Reverse(keys)[i]), down |-> FALSE]]
<1>1. n \in Nat /\ DOMAIN chord = 1 .. n
  OBVIOUS
<1>2. keys = [i \in 1 .. n |-> NameOf(chord[i])]
  BY <1>1 DEF NormalizeChord
<1>3. DOMAIN keys = 1 .. n /\ \A i \in 1 .. n : Keycode(keys[i]) = code(i)
  BY <1>2
<1>4. Pressed(chord) = IF \A i \in 1 .. n : code(i) # "none" THEN down \o up ELSE <<>>
  <2>1. (\A i \in DOMAIN keys : Keycode(keys[i]) # "none") <=> \A i \in 1 .. n : code(i) # "none"
    <3> HIDE DEF keys, code
    <3> QED BY <1>3
  <2>2. Pressed(chord) = IF \A i \in DOMAIN keys : Keycode(keys[i]) # "none" THEN down \o up
                         ELSE <<>>
    BY DEF Pressed, ChordEvents
  <2> HIDE DEF keys, code, down, up
  <2> QED BY <2>1, <2>2
<1>5. Len(keys) = n
  <2> HIDE DEF n
  <2> QED BY <1>1, <1>2
<1>6. \A i \in 1 .. n : Reverse(keys)[i] = keys[n - i + 1]
  <2>1. Reverse(keys) = [i \in 1 .. Len(keys) |-> keys[(Len(keys) - i) + 1]]
    BY DEF Reverse
  <2> HIDE DEF keys, n
  <2> QED BY <1>5, <2>1
<1>7. \A i \in 1 .. n : /\ down[i] = [key |-> code(i), down |-> TRUE]
                        /\ up[n + 1 - i] = [key |-> code(i), down |-> FALSE]
  <2> TAKE i \in 1 .. n
  <2>1. n + 1 - i \in 1 .. n /\ n - (n + 1 - i) + 1 = i
    BY <1>1
  <2>2. Reverse(keys)[n + 1 - i] = keys[i]
    <3> HIDE DEF keys, n
    <3> QED BY <1>6, <2>1
  <2>3. down[i] = [key |-> Keycode(keys[i]), down |-> TRUE]
        /\ up[n + 1 - i] = [key |-> Keycode(Reverse(keys)[n + 1 - i]), down |-> FALSE]
    <3> HIDE DEF keys, n
    <3> QED BY <1>3, <2>1
  <2> HIDE DEF keys, n, code, down, up
  <2> QED BY <1>3, <2>2, <2>3
<1> DEFINE E == {down[i] : i \in 1 .. n} \cup {up[i] : i \in 1 .. n}
<1>8. down \in Seq(E) /\ up \in Seq(E) /\ Len(down) = n /\ Len(up) = n
  <2>1. down = [i \in 1 .. n |-> down[i]] /\ up = [i \in 1 .. n |-> up[i]]
    <3> HIDE DEF keys, n
    <3> QED BY <1>3
  <2> HIDE DEF down, up, n
  <2>2. down \in [1 .. n -> E] /\ up \in [1 .. n -> E]
    BY <2>1
  <2> HIDE DEF E
  <2> QED BY <1>1, <2>2 DEF Seq
<1> HIDE DEF E, down, up
<1>9. /\ down \o up \in Seq(E) /\ Len(down \o up) = n + n
      /\ \A i \in 1 .. n + n : (down \o up)[i] = IF i <= n THEN down[i] ELSE up[i - n]
  <2> HIDE DEF n
  <2>1. /\ down \o up \in Seq(E) /\ Len(down \o up) = Len(down) + Len(up)
        /\ \A i \in 1 .. Len(down) + Len(up) :
             (down \o up)[i] = IF i <= Len(down) THEN down[i] ELSE up[i - Len(down)]
    BY <1>8, ConcatProperties
  <2> QED BY <1>8, <2>1
<1>10. \A i \in 1 .. n : (down \o up)[i] = down[i] /\ (down \o up)[2 * n + 1 - i] = up[n + 1 - i]
  <2> TAKE i \in 1 .. n
  <2>1. /\ i \in 1 .. n + n /\ i <= n /\ 2 * n + 1 - i \in 1 .. n + n /\ ~(2 * n + 1 - i <= n)
        /\ (2 * n + 1 - i) - n = n + 1 - i
    BY <1>1
  <2> HIDE DEF n
  <2> QED BY <1>9, <2>1
<1>11. Len(down \o up) = 2 * n /\ DOMAIN (down \o up) = 1 .. 2 * n
  <2> HIDE DEF n
  <2> QED BY <1>1, <1>9
<1> DEFINE events == Pressed(chord)
<1>12. CASE \A i \in 1 .. n : code(i) # "none"
  <2>1. events = down \o up
    BY <1>4, <1>12
  <2>2. \A i \in 1 .. n : /\ events[i] = [key |-> code(i), down |-> TRUE]
                          /\ events[2 * n + 1 - i] = [key |-> code(i), down |-> FALSE]
    <3> HIDE DEF events, n, code
    <3> QED BY <1>7, <1>10, <2>1
  <2>3. Len(events) = 2 * n /\ DOMAIN events = 1 .. 2 * n
    <3> HIDE DEF events, n
    <3> QED BY <1>11, <2>1
  <2> QED BY <1>12, <2>2, <2>3
<1>13. CASE ~\A i \in 1 .. n : code(i) # "none"
  BY <1>4, <1>13
<1> QED BY <1>12, <1>13

\* What an event says.
Goes(e, k, down) == e = [key |-> k, down |-> down]

\* A key goes down or comes up.
LEMMA EventSays ==
  ASSUME NEW k, NEW e
  PROVE  /\ Goes(e, k, TRUE) => e.key = k /\ e.down
         /\ Goes(e, k, FALSE) => e.key = k /\ ~e.down
BY DEF Goes

\* Whatever is read as a chord is pressed whole, the modifiers first.
LEMMA ReadIsPressed ==
  ASSUME NEW W, NEW words \in Seq(W)
  PROVE  ReadsWhatItPresses(words)
<1> DEFINE chord == SpokenChord(words)
           events == Pressed(chord)
           n == Len(chord)
           code(i) == Keycode(NameOf(chord[i]))
<1> SUFFICES ASSUME chord # NoChord
             PROVE  /\ Len(events) = 2 * n
                    /\ \A i \in 1 .. n : /\ events[i].down /\ ~events[2 * n + 1 - i].down
                                         /\ events[i].key = events[2 * n + 1 - i].key
                    /\ \A i, j \in 1 .. n :
                         events[i].key \in MODIFIERS /\ i > j => events[j].key \in MODIFIERS
                    /\ events[n].key \notin MODIFIERS
  BY DEF ReadsWhatItPresses
<1>1. chord \in Seq(KeyNames)
  BY ChordInOrder
<1>2. PICK m \in Nat : m < n /\ \A i \in 1 .. n : chord[i] \in MODIFIERS <=> i <= m
  BY ChordInOrder
<1>3. n \in Nat /\ \A i \in 1 .. n : chord[i] \in KeyNames
  BY <1>1
<1> HIDE DEF chord, n
<1>4. \A i \in 1 .. n : code(i) # "none" /\ (code(i) \in MODIFIERS <=> i <= m)
  BY <1>2, <1>3, KeysHaveCodes
<1>5. /\ Len(events) = 2 * n
      /\ \A i \in 1 .. n : /\ events[i] = [key |-> code(i), down |-> TRUE]
                           /\ events[2 * n + 1 - i] = [key |-> code(i), down |-> FALSE]
  BY <1>1, <1>4, PressedInOrder DEF n
<1> HIDE DEF events, code
<1>6. \A i \in 1 .. n : /\ events[i].down /\ ~events[2 * n + 1 - i].down
                        /\ events[i].key = events[2 * n + 1 - i].key
                        /\ events[i].key = code(i)
  <2> TAKE i \in 1 .. n
  <2>1. /\ events[i] = [key |-> code(i), down |-> TRUE]
        /\ events[2 * n + 1 - i] = [key |-> code(i), down |-> FALSE]
    BY <1>5
  <2>2. Goes(events[i], code(i), TRUE) /\ Goes(events[2 * n + 1 - i], code(i), FALSE)
    BY <2>1 DEF Goes
  <2>3. events[i].key = code(i) /\ events[i].down
    BY <2>2, EventSays, Zenon
  <2>4. events[2 * n + 1 - i].key = code(i) /\ ~events[2 * n + 1 - i].down
    BY <2>2, EventSays, Zenon
  <2> QED BY <2>3, <2>4, Zenon
<1>7. ASSUME NEW i \in 1 .. n, NEW j \in 1 .. n, events[i].key \in MODIFIERS, i > j
      PROVE  events[j].key \in MODIFIERS
  <2>1. i <= m
    BY <1>4, <1>6, <1>7
  <2>2. j <= m
    BY <1>2, <1>3, <1>7, <2>1
  <2> QED BY <1>4, <1>6, <2>2
<1>8. events[n].key \notin MODIFIERS
  <2>1. n \in 1 .. n /\ ~(n <= m)
    BY <1>2, <1>3
  <2> QED BY <1>4, <1>6, <2>1
<1> QED BY <1>5, <1>6, <1>7, <1>8

\* The keys that a chord holds down, if it is pressed.
LEMMA HeldDown ==
  ASSUME NEW S, NEW chord \in Seq(S), Pressed(chord) # <<>>
  PROVE  /\ KeysDown(Pressed(chord)) = {Keycode(NameOf(k)) : k \in Range(chord)}
         /\ \A k \in Range(chord) : Keycode(NameOf(k)) # "none"
<1> DEFINE n == Len(chord)
           events == Pressed(chord)
           code(i) == Keycode(NameOf(chord[i]))
<1>1. n \in Nat /\ DOMAIN chord = 1 .. n
  OBVIOUS
<1>2. \A i \in 1 .. n : code(i) # "none"
  BY PressedInOrder
<1>3. /\ DOMAIN events = 1 .. 2 * n
      /\ \A i \in 1 .. n : /\ events[i] = [key |-> code(i), down |-> TRUE]
                           /\ events[2 * n + 1 - i] = [key |-> code(i), down |-> FALSE]
  BY <1>2, PressedInOrder
<1> HIDE DEF n, events
<1>4. ASSUME NEW i \in DOMAIN events
      PROVE  events[i].down <=> i <= n
  <2>1. CASE i <= n
    <3>1. i \in 1 .. n
      BY <1>1, <1>3, <2>1
    <3>2. events[i] = [key |-> code(i), down |-> TRUE]
      BY <1>3, <3>1
    <3> HIDE DEF code
    <3>3. Goes(events[i], code(i), TRUE)
      BY <3>2 DEF Goes
    <3>4. events[i].down
      BY <3>3, EventSays, Zenon
    <3> QED BY <2>1, <3>4, Zenon
  <2>2. CASE ~(i <= n)
    <3>1. 2 * n + 1 - i \in 1 .. n /\ 2 * n + 1 - (2 * n + 1 - i) = i
      BY <1>1, <1>3, <2>2
    <3>2. events[i] = [key |-> code(2 * n + 1 - i), down |-> FALSE]
      <4> HIDE DEF code
      <4> QED BY <1>3, <3>1
    <3> HIDE DEF code
    <3>3. Goes(events[i], code(2 * n + 1 - i), FALSE)
      BY <3>2 DEF Goes
    <3>4. ~events[i].down
      BY <3>3, EventSays, Zenon
    <3> QED BY <2>2, <3>4, Zenon
  <2> QED BY <2>1, <2>2
<1>5. ASSUME NEW i \in 1 .. n
      PROVE  i \in DOMAIN events /\ events[i].down /\ events[i].key = code(i)
  <2>1. i \in 1 .. 2 * n
    BY <1>1
  <2>2. events[i] = [key |-> code(i), down |-> TRUE]
    BY <1>3
  <2> HIDE DEF code
  <2>3. Goes(events[i], code(i), TRUE)
    BY <2>2 DEF Goes
  <2>4. events[i].down /\ events[i].key = code(i)
    BY <2>3, EventSays, Zenon
  <2> QED BY <1>3, <2>1, <2>4, Zenon
<1> DEFINE downs == {events[i] : i \in {j \in DOMAIN events : events[j].down}}
<1>6. ASSUME NEW x \in {e.key : e \in downs}
      PROVE  x \in {Keycode(NameOf(k)) : k \in Range(chord)}
  <2>1. PICK i \in DOMAIN events : events[i].down /\ x = events[i].key
    OBVIOUS
  <2>2. i \in 1 .. n
    BY <1>1, <1>3, <1>4, <2>1
  <2>3. x = Keycode(NameOf(chord[i])) /\ chord[i] \in Range(chord)
    BY <1>1, <1>5, <2>1, <2>2 DEF Range
  <2> QED BY <2>3
<1>7. ASSUME NEW x \in {Keycode(NameOf(k)) : k \in Range(chord)}
      PROVE  x \in {e.key : e \in downs}
  <2>1. PICK i \in 1 .. n : x = Keycode(NameOf(chord[i]))
    BY <1>1 DEF Range
  <2>2. events[i] \in downs /\ events[i].key = x
    BY <1>5, <2>1
  <2> HIDE DEF downs
  <2> QED BY <2>2
<1>8. KeysDown(events) = {e.key : e \in downs}
  BY DEF KeysDown
<1>9. \A k \in Range(chord) : Keycode(NameOf(k)) # "none"
  BY <1>1, <1>2 DEF Range
<1> HIDE DEF downs
<1> QED BY <1>6, <1>7, <1>8, <1>9 DEF events

\* The judged path and the grammar hold the same keys down.
LEMMA PressedAlike ==
  ASSUME NEW W, NEW words \in Seq(W)
  PROVE  BothPathsPressAlike(words)
<1> DEFINE grammar == Pressed(words)
           chord == SpokenChord(words)
           judged == Pressed(chord)
<1> SUFFICES ASSUME grammar # <<>>, judged # <<>>,
                    \A i \in DOMAIN words : words[i] \notin FILLER \cup TRAILING,
                    \A i \in 1 .. Len(words) - 1 :
                      words[i] = "f" => words[i + 1] \notin Figures \ {"0"}
             PROVE  KeysDown(grammar) = KeysDown(judged)
  BY DEF BothPathsPressAlike
<1>1. Len(words) \in Nat /\ DOMAIN words = 1 .. Len(words)
  OBVIOUS
<1>2. /\ KeysDown(grammar) = {Keycode(NameOf(w)) : w \in Range(words)}
      /\ \A w \in Range(words) : Keycode(NameOf(w)) # "none"
  BY HeldDown
<1>3. chord # NoChord
  <2>1. Pressed(<<>>) = <<>>
    BY DEF Pressed, NormalizeChord, ChordEvents
  <2> QED BY <2>1 DEF NoChord
<1>4. chord \in Seq(KeyNames) /\ Range(chord) = AllKeys(KeysRead(words))
  <2>1. WithoutTrailing(words) = words
    BY Untrailed
  <2> QED BY <1>3, <2>1, ChordInOrder
<1>5. KeysDown(judged) = {Keycode(NameOf(k)) : k \in Range(chord)}
  BY <1>4, HeldDown
<1>6. ASSUME NEW i \in 1 .. Len(words)
      PROVE  Read(words, i) = [took |-> 1, key |-> KeyOf(words[i])]
  <2> DEFINE w == words[i]
             next == IF i < Len(words) THEN words[i + 1] ELSE ""
  <2>1. w \notin FILLER /\ Keycode(NameOf(w)) # "none"
    BY <1>1, <1>2 DEF Range
  <2>2. next = "" \/ Keycode(NameOf(next)) # "none"
    <3>1. i < Len(words) => i + 1 \in 1 .. Len(words)
      BY <1>1
    <3> QED BY <1>1, <1>2, <3>1 DEF Range
  <2>3. w = "f" => next \notin Figures \ {"0"}
    <3>1. i < Len(words) => i \in 1 .. Len(words) - 1
      BY <1>1
    <3>2. "" \notin Figures
      BY DEF Figures
    <3> QED BY <3>1, <3>2
  <2> HIDE DEF w, next
  <2>4. w # "page"
    BY <2>1 DEF Keycode, NameOf, Signs, Plain, Arrows, Letters, Figures, FKeys
  <2>5. next \notin {"arrow", "key"}
    BY <2>2 DEF Keycode, NameOf, Signs, Plain, Arrows, Letters, Figures, FKeys
  <2>6. w = "f" => FunctionKey(next) = "none"
    BY <2>2, <2>3 DEF FunctionKey, Keycode, NameOf, Signs, Plain, Arrows, Letters, Figures, FKeys
  <2> QED BY <2>1, <2>4, <2>5, <2>6 DEF Read, w, next
<1>7. AllKeys(KeysRead(words)) = {KeyOf(words[i]) : i \in 1 .. Len(words)}
  <2>1. PICK read : Reading(words, 1, read) /\ KeysRead(words) = read[1]
    BY KeysReadByReading
  <2>2. 1 \in 1 .. Len(words) + 2
    BY <1>1
  <2> QED BY <1>6, <2>1, <2>2, ReadKeys
<1>8. Range(chord) = {KeyOf(w) : w \in Range(words)}
  <2>1. Range(words) = {words[i] : i \in 1 .. Len(words)}
    BY <1>1 DEF Range
  <2> QED BY <1>4, <1>7, <2>1
<1>9. \A w \in Range(words) : KeyOf(w) \in KeyNames
  <2>1. \A k \in Range(chord) : k \in KeyNames
    BY <1>4 DEF Range
  <2> QED BY <1>8, <2>1
<1>10. \A w \in Range(words) : Keycode(NameOf(KeyOf(w))) = Keycode(NameOf(w))
  BY <1>2, <1>9, SameCode, NoneIsNoKey
<1> HIDE DEF grammar, judged, chord
<1> QED BY <1>2, <1>5, <1>8, <1>10

\* ChordsArePressed (chord.rs, injector/mod.rs, ydotool.rs), for a chord of any words.
THEOREM ChordsPressed ==
  ASSUME NEW W, Of("chord") => The \in Seq(W)
  PROVE  ChordsArePressed
BY ReadIsPressed, PressedAlike DEF ChordsArePressed
=============================================================================
