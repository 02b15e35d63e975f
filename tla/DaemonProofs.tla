---------------------------- MODULE DaemonProofs ----------------------------
(***************************************************************************)
(* Proofs about Daemon, for every number of utterances, every depth of the *)
(* job queue and every number of unhandled writes of Enabled.              *)
(*                                                                         *)
(* The invariants are proved in layers, each from the ones before it:      *)
(* types, the worker's register, the line the utterances stand in, their   *)
(* accounts, and then the properties of Daemon.                            *)
(***************************************************************************)
EXTENDS Daemon, SequenceTheorems, TLAPS

\* The worker holds an utterance exactly while it is doing something.
Engaged == (current = 0) <=> (phase \in {"idle", "dead"})

\* Worker, queue and capture hold utterances in the order of their numbers.
InLine ==
  /\ capture \in {0, born}
  /\ current <= born
  /\ capture # 0 => current < capture
  /\ \A u \in Queued : current < u /\ u <= born /\ (capture # 0 => u < capture)
  /\ \A i, j \in 1 .. Len(jobs) : i < j => jobs[i] < jobs[j]

\* What met a lock is over, and was not handled.
MutedOver == \A u \in muted : fate[u] \notin {"open", "handled"}
-----------------------------------------------------------------------------
(* The queue. *)

\* Taking the head of the queue takes one utterance out of it (recv).
LEMMA TakeOne ==
  ASSUME jobs \in Seq(Utt), jobs # <<>>, jobs' = Tail(jobs)
  PROVE  /\ Head(jobs) \in Utt
         /\ Queued = {Head(jobs)} \cup Queued'
         /\ Len(jobs') = Len(jobs) - 1
         /\ \A i \in 1 .. Len(jobs') : jobs'[i] = jobs[i + 1]
<1>1. Len(jobs) \in Nat /\ Len(jobs) > 0
  OBVIOUS
<1>2. Len(jobs') = Len(jobs) - 1 /\ \A i \in 1 .. Len(jobs') : jobs'[i] = jobs[i + 1]
  BY <1>1
<1>3. Head(jobs) = jobs[1] /\ Head(jobs) \in Utt
  BY <1>1
<1>4. Queued \subseteq {Head(jobs)} \cup Queued'
  <2> SUFFICES ASSUME NEW i \in 1 .. Len(jobs), i # 1
               PROVE  \E k \in 1 .. Len(jobs') : jobs'[k] = jobs[i]
    BY <1>3 DEF Queued
  <2>1. i - 1 \in 1 .. Len(jobs') /\ jobs'[i - 1] = jobs[i]
    BY <1>1, <1>2
  <2> QED BY <2>1
<1>5. {Head(jobs)} \cup Queued' \subseteq Queued
  <2>1. Head(jobs) \in Queued
    BY <1>1, <1>3 DEF Queued
  <2>2. \A k \in 1 .. Len(jobs') : k + 1 \in 1 .. Len(jobs) /\ jobs'[k] = jobs[k + 1]
    BY <1>1, <1>2
  <2> QED BY <2>1, <2>2 DEF Queued
<1> QED BY <1>2, <1>3, <1>4, <1>5

\* Sending a capture puts it behind everything that waits (try_send).
LEMMA SendOne ==
  ASSUME jobs \in Seq(Utt), NEW u \in Utt, jobs' = Append(jobs, u)
  PROVE  /\ Queued' = Queued \cup {u}
         /\ Len(jobs') = Len(jobs) + 1
         /\ \A i \in 1 .. Len(jobs) : jobs'[i] = jobs[i]
         /\ jobs'[Len(jobs) + 1] = u
<1>1. /\ Len(jobs) \in Nat /\ Len(jobs') = Len(jobs) + 1
      /\ \A i \in 1 .. Len(jobs) : jobs'[i] = jobs[i]
      /\ jobs'[Len(jobs) + 1] = u
  OBVIOUS
<1>2. Queued' \subseteq Queued \cup {u}
  BY <1>1 DEF Queued
<1>3. Queued \subseteq Queued'
  <2>1. \A i \in 1 .. Len(jobs) : i \in 1 .. Len(jobs') /\ jobs'[i] = jobs[i]
    BY <1>1
  <2> QED BY <2>1 DEF Queued
<1>4. u \in Queued'
  BY <1>1 DEF Queued
<1> QED BY <1>1, <1>2, <1>3, <1>4

\* An empty queue holds no utterance.
LEMMA EmptyQueue == jobs = <<>> => Queued = {}
BY DEF Queued

\* What waits in the queue is an utterance.
LEMMA QueuedUtt == jobs \in Seq(Utt) => Queued \subseteq Utt
BY DEF Queued
-----------------------------------------------------------------------------
(* Types and the worker's register. *)

\* One more write of Enabled in the channel.
LEMMA AppendFlag ==
  ASSUME NEW s \in Seq(BOOLEAN), NEW b \in BOOLEAN PROVE Append(s, b) \in Seq(BOOLEAN)
BY AppendProperties, Zenon

\* The flags keep their type.
LEMMA FlagsCorrect == Spec => []FlagsOK
<1>1. Init => FlagsOK
  <2>1. Init => opened \in BOOLEAN /\ locked \in BOOLEAN /\ lockNews \in BOOLEAN /\ enabled \in BOOLEAN
    BY DEF Init
  <2>2. Init => toggles \in Seq(BOOLEAN)
    BY DEF Init
  <2> QED BY <2>1, <2>2 DEF FlagsOK
<1>2. FlagsOK /\ [Next]_vars => FlagsOK'
  <2> SUFFICES ASSUME FlagsOK, [Next]_vars PROVE FlagsOK'
    OBVIOUS
  <2> USE DEF FlagsOK, loopVars, workerVars, lockVars, busVars, timerVars, histVars
  <2>1. CASE LoopNext
    <3>1. CASE \E m \in Mode : KeyPressed(m) \/ StartRequested(m)
      BY <3>1 DEF KeyPressed, StartRequested, StartCapture
    <3>2. CASE StartFails \/ DeviceReady \/ DeviceFails
      BY <3>2 DEF StartFails, DeviceReady, DeviceFails
    <3>3. CASE KeyReleased \/ StopRequested \/ HoldExpired
      BY <3>3 DEF KeyReleased, StopRequested, HoldExpired, FinishCapture
    <3>4. CASE CancelCapture \/ EnabledShown
      BY <3>4 DEF CancelCapture, EnabledShown
    <3>5. CASE EnabledReceived
      <4>1. toggles' \in Seq(BOOLEAN)
        <5>1. toggles # <<>> /\ toggles' = Tail(toggles)
          BY <3>5 DEF EnabledReceived
        <5> QED BY <5>1
      <4> QED BY <3>5, <4>1 DEF EnabledReceived
    <3> QED BY <2>1, <3>1, <3>2, <3>3, <3>4, <3>5 DEF LoopNext
  <2>2. CASE ShutdownNext
    BY <2>2 DEF ShutdownNext, Terminate, WorkerDrained, GraceElapsed, Stopped, vars
  <2>3. ASSUME NEW b \in BOOLEAN, EnabledWritten(b) PROVE FlagsOK'
    <3> QED BY <2>3, AppendFlag DEF EnabledWritten
  <2>4. CASE PublisherReads \/ PublisherWrites \/ \E b \in BOOLEAN : LockSeen(b)
    BY <2>4 DEF PublisherReads, PublisherWrites, LockSeen
  <2>5. CASE WorkerStep \/ WorkerPanics
    BY <2>5 DEF WorkerStep, WorkerPanics, TakesJob, HearsNothing, HearsUnderLock, Hears,
                Judges, Types, Reports, Asks
  <2>6. CASE \E u \in Utt : TimerWakes(u) \/ TimerClears(u)
    BY <2>6 DEF TimerWakes, TimerClears
  <2>7. CASE UNCHANGED vars
    BY <2>7 DEF vars
  <2> QED BY <2>1, <2>2, <2>3, <2>4, <2>5, <2>6, <2>7 DEF Next
<1> QED BY <1>1, <1>2, PTL DEF Spec

\* Reporting an utterance, or dropping some, keeps the history well-typed.
LEMMA HistoryTyped ==
  ASSUME fate \in [Utt -> Fates], reports \in [Utt -> Nat],
         \/ \E u \in Utt, f \in Fates : Told(u, f)
         \/ \E S \in SUBSET Utt : Vanish(S)
  PROVE  fate' \in [Utt -> Fates] /\ reports' \in [Utt -> Nat]
BY DEF Told, Vanish, Fates

\* The data keep their types.  The worker's register comes along: a report
\* names an utterance only because one is held.
LEMMA DataCorrect == Spec => [](DataOK /\ Engaged)
<1> USE DEF Engaged
<1>1. Init => DataOK /\ Engaged
  BY DaemonAssumption DEF Init, DataOK, Mode, States, Phases, Fates
<1>2. DataOK /\ Engaged /\ [Next]_vars => (DataOK /\ Engaged)'
  <2> SUFFICES ASSUME DataOK, Engaged, [Next]_vars
               PROVE  DataOK' /\ Engaged'
    OBVIOUS
  <2>0. /\ MaxUtt \in Nat /\ \A u \in 0 .. MaxUtt : u # 0 => u \in Utt
        /\ InCapture \subseteq Utt /\ InWorker \subseteq Utt /\ Queued \subseteq Utt
    BY DaemonAssumption, QueuedUtt DEF DataOK, Utt, InCapture, InWorker
  <2> USE DEF DataOK, Mode, States, Phases, Fates, loopVars, workerVars, lockVars, busVars,
              timerVars, histVars
  <2>1. CASE \E m \in Mode : KeyPressed(m) \/ StartRequested(m)
    <3> PICK m \in Mode : StartCapture(m)
      BY <2>1 DEF KeyPressed, StartRequested
    <3>1. born + 1 \in Utt
      BY <2>0 DEF StartCapture, Utt
    <3> QED BY <2>0, <3>1 DEF StartCapture, Utt
  <2>2. CASE StartFails \/ DeviceReady
    BY <2>2 DEF StartFails, DeviceReady
  <2>3. CASE DeviceFails \/ CancelCapture
    <3>1. capture \in Utt /\ Told(capture, "turnedDown")
      BY <2>0, <2>3 DEF DeviceFails, CancelCapture
    <3>2. fate' \in [Utt -> Fates] /\ reports' \in [Utt -> Nat]
      BY <3>1, HistoryTyped
    <3> QED BY <2>0, <2>3, <3>2 DEF DeviceFails, CancelCapture
  <2>4. CASE FinishCapture
    <3>1. capture \in Utt
      BY <2>0, <2>4 DEF FinishCapture
    <3>2. jobs' \in Seq(Utt)
      <4>1. jobs' = Append(jobs, capture) \/ jobs' = jobs
        BY <2>4 DEF FinishCapture, Enqueued
      <4>2. jobs \in Seq(Utt)
        OBVIOUS
      <4> QED BY <3>1, <4>1, <4>2, AppendProperties
    <3>3. fate' \in [Utt -> Fates] /\ reports' \in [Utt -> Nat]
      <4>1. \/ Told(capture, "turnedDown") \/ Vanish({capture})
            \/ UNCHANGED <<fate, reports>>
        BY <2>4 DEF FinishCapture
      <4> QED BY <3>1, <4>1, HistoryTyped
    <3>4. muted' \subseteq Utt
      BY <2>4, <3>1 DEF FinishCapture
    <3> QED BY <2>0, <2>4, <3>2, <3>3, <3>4 DEF FinishCapture
  <2>5. CASE EnabledReceived \/ EnabledShown
    BY <2>5 DEF EnabledReceived, EnabledShown
  <2>6. CASE \E b \in BOOLEAN : EnabledWritten(b) \/ LockSeen(b)
    BY <2>6 DEF EnabledWritten, LockSeen
  <2>7. CASE PublisherReads \/ PublisherWrites
    BY <2>7 DEF PublisherReads, PublisherWrites
  <2>8. CASE TakesJob
    BY <2>8, TakeOne DEF TakesJob, Utt
  <2>9. CASE HearsNothing \/ HearsUnderLock \/ Reports
    <3>1. current \in Utt
      BY <2>0, <2>9 DEF HearsNothing, HearsUnderLock, Reports, CanEnd, CanAsk
    <3>2. Told(current, "turnedDown") \/ Told(current, "handled")
      BY <2>9 DEF HearsNothing, HearsUnderLock, Reports
    <3>3. fate' \in [Utt -> Fates] /\ reports' \in [Utt -> Nat]
      BY <3>1, <3>2, HistoryTyped
    <3>4. muted' \subseteq Utt
      BY <2>9, <3>1 DEF HearsNothing, HearsUnderLock, Reports
    <3> QED BY <2>0, <2>9, <3>3, <3>4 DEF HearsNothing, HearsUnderLock, Reports
  <2>10. CASE Asks
    <3>1. current \in Utt
      BY <2>0, <2>10 DEF Asks, CanAsk
    <3>2. fate' \in [Utt -> Fates] /\ reports' \in [Utt -> Nat]
      BY <2>10, <3>1, HistoryTyped DEF Asks
    <3> QED BY <2>0, <2>10, <3>1, <3>2 DEF Asks, WithTimer
  <2>11. CASE Hears \/ Judges \/ Types
    <3>1. current \in Utt
      BY <2>0, <2>11 DEF Hears, Judges, Types
    <3> QED BY <2>11, <3>1 DEF Hears, Judges, Types
  <2>12. CASE WorkerPanics \/ GraceElapsed
    <3>1. Vanish(InWorker \cup Queued) /\ InWorker \cup Queued \in SUBSET Utt
      BY <2>0, <2>12 DEF WorkerPanics, GraceElapsed
    <3>2. fate' \in [Utt -> Fates] /\ reports' \in [Utt -> Nat]
      BY <3>1, HistoryTyped
    <3>3. jobs' = <<>> /\ phase' = "dead" /\ current' = 0
      BY <2>12 DEF WorkerPanics, GraceElapsed
    <3>4. jobs' \in Seq(Utt) /\ phase' \in Phases /\ current' \in 0 .. MaxUtt /\ Engaged'
      BY <2>0, <3>3
    <3> QED BY <2>12, <3>2, <3>4 DEF WorkerPanics, GraceElapsed
  <2>15. CASE Terminate
    <3>1. Vanish(InCapture) /\ InCapture \in SUBSET Utt
      BY <2>0, <2>15 DEF Terminate
    <3>2. fate' \in [Utt -> Fates] /\ reports' \in [Utt -> Nat]
      BY <3>1, HistoryTyped
    <3> QED BY <2>0, <2>15, <3>2 DEF Terminate
  <2>13. CASE \E u \in Utt : TimerWakes(u) \/ TimerClears(u)
    BY <2>13 DEF TimerWakes, TimerClears
  <2>14. CASE WorkerDrained \/ UNCHANGED vars
    BY <2>14 DEF WorkerDrained, vars
  <2> QED
    BY <2>1, <2>2, <2>3, <2>4, <2>5, <2>6, <2>7, <2>8, <2>9, <2>10, <2>11, <2>12, <2>13, <2>14, <2>15
    DEF Next, LoopNext, ShutdownNext, WorkerStep, KeyReleased, StopRequested, HoldExpired, Stopped
<1> QED BY <1>1, <1>2, PTL DEF Spec

\* Every variable keeps its type (all of Daemon's state), and the worker holds
\* an utterance exactly while it works.
THEOREM TypeCorrect == Spec => [](TypeOK /\ Engaged)
BY FlagsCorrect, DataCorrect, PTL DEF TypeOK
-----------------------------------------------------------------------------
(* What a step can do to the utterances: the eight moves below, or nothing. *)

Starts == /\ capture = 0 /\ born + 1 \in Utt
          /\ born' = born + 1 /\ capture' = born + 1
          /\ UNCHANGED <<jobs, current, fate, reports>>

Drops  == /\ capture # 0 /\ capture' = 0
          /\ Told(capture, "turnedDown") \/ Vanish({capture})
          /\ UNCHANGED <<born, jobs, current>>

Sends  == /\ capture # 0 /\ capture' = 0
          /\ jobs' = Append(jobs, capture)
          /\ UNCHANGED <<born, current, fate, reports>>

Takes  == /\ current = 0 /\ jobs # <<>>
          /\ current' = Head(jobs) /\ jobs' = Tail(jobs)
          /\ UNCHANGED <<born, capture, fate, reports>>

Ends   == /\ current # 0 /\ current' = 0
          /\ Told(current, "turnedDown") \/ Told(current, "handled")
          /\ UNCHANGED <<born, capture, jobs>>

Dies   == /\ current' = 0 /\ jobs' = <<>>
          /\ Vanish(InWorker \cup Queued)
          /\ UNCHANGED <<born, capture>>

Leaves == /\ capture' = 0
          /\ Vanish(InCapture)
          /\ UNCHANGED <<born, jobs, current>>

Rests  == UNCHANGED <<born, capture, jobs, current, fate, reports>>

\* Whatever task takes a step, the utterances make one of these moves.
LEMMA Moves ==
  ASSUME DataOK, Engaged, [Next]_vars
  PROVE  Starts \/ Drops \/ Sends \/ Takes \/ Ends \/ Dies \/ Leaves \/ Rests
<1> USE DEF loopVars, workerVars, lockVars, busVars, timerVars, histVars
<1>1. CASE \E m \in Mode : KeyPressed(m) \/ StartRequested(m)
  <2>1. PICK m \in Mode : StartCapture(m)
    BY <1>1 DEF KeyPressed, StartRequested
  <2>2. born + 1 \in Utt
    BY <2>1, DaemonAssumption DEF StartCapture, DataOK, Utt
  <2> QED BY <2>1, <2>2 DEF StartCapture, MayStart, Starts
<1>2. CASE StartFails \/ DeviceReady \/ EnabledReceived \/ EnabledShown
  BY <1>2 DEF StartFails, DeviceReady, EnabledReceived, EnabledShown, Rests
<1>3. CASE DeviceFails \/ CancelCapture
  BY <1>3 DEF DeviceFails, CancelCapture, Drops
<1>4. CASE FinishCapture
  <2>1. \/ /\ UNCHANGED jobs
           /\ Told(capture, "turnedDown") \/ Vanish({capture})
        \/ jobs' = Append(jobs, capture) /\ UNCHANGED <<fate, reports>>
    BY <1>4 DEF FinishCapture, Enqueued
  <2> QED BY <1>4, <2>1 DEF FinishCapture, Drops, Sends
<1>5. CASE PublisherReads \/ PublisherWrites \/ \E b \in BOOLEAN : EnabledWritten(b) \/ LockSeen(b)
  BY <1>5 DEF PublisherReads, PublisherWrites, EnabledWritten, LockSeen, Rests
<1>6. CASE TakesJob
  BY <1>6 DEF TakesJob, Engaged, Takes
<1>7. CASE HearsNothing \/ HearsUnderLock \/ Reports \/ Asks
  BY <1>7 DEF HearsNothing, HearsUnderLock, Reports, Asks, CanEnd, CanAsk, Engaged, Ends
<1>8. CASE Hears \/ Judges \/ Types
  BY <1>8 DEF Hears, Judges, Types, Rests
<1>9. CASE WorkerPanics \/ GraceElapsed
  BY <1>9 DEF WorkerPanics, GraceElapsed, Dies
<1>10. CASE Terminate
  BY <1>10 DEF Terminate, Leaves
<1>11. CASE WorkerDrained \/ UNCHANGED vars
  BY <1>11 DEF WorkerDrained, vars, Rests
<1>12. CASE \E u \in Utt : TimerWakes(u) \/ TimerClears(u)
  BY <1>12 DEF TimerWakes, TimerClears, Rests
<1> QED
  BY <1>1, <1>2, <1>3, <1>4, <1>5, <1>6, <1>7, <1>8, <1>9, <1>10, <1>11, <1>12
  DEF Next, LoopNext, ShutdownNext, WorkerStep, KeyReleased, StopRequested, HoldExpired, Stopped
-----------------------------------------------------------------------------
(* The line. *)

\* Worker, queue and capture stand in the order of their numbers
\* (start_capture, finish_capture, worker).
THEOREM StandInLine == Spec => []InLine
<1>1. Init => InLine
  BY DaemonAssumption, EmptyQueue DEF Init, InLine
<1>2. DataOK /\ Engaged /\ InLine /\ [Next]_vars => InLine'
  <2> SUFFICES ASSUME DataOK, Engaged, InLine, [Next]_vars PROVE InLine'
    OBVIOUS
  <2>0. /\ born \in Nat /\ capture \in Nat /\ current \in Nat /\ jobs \in Seq(Utt)
        /\ \A u \in Queued : u \in Nat /\ 0 < u
        /\ Len(jobs) \in Nat /\ \A i \in 1 .. Len(jobs) : jobs[i] \in Queued
    BY DaemonAssumption, QueuedUtt DEF DataOK, Utt, Queued
  <2>1. CASE Starts
    <3>1. Queued' = Queued
      BY <2>1 DEF Starts, Queued
    <3> QED BY <2>0, <2>1, <3>1 DEF Starts, InLine
  <2>2. CASE Drops \/ Leaves
    BY <2>0, <2>2 DEF Drops, Leaves, InLine, Queued
  <2>3. CASE Sends
    <3>1. capture \in Utt
      BY <2>3, DaemonAssumption DEF Sends, DataOK, Utt
    <3>2. /\ Queued' = Queued \cup {capture} /\ Len(jobs') = Len(jobs) + 1
          /\ \A i \in 1 .. Len(jobs) : jobs'[i] = jobs[i]
          /\ jobs'[Len(jobs) + 1] = capture
      BY <2>0, <2>3, <3>1, SendOne DEF Sends
    <3>3. \A i, j \in 1 .. Len(jobs') : i < j => jobs'[i] < jobs'[j]
      <4>1. \A i \in 1 .. Len(jobs) : jobs[i] < capture
        BY <2>0, <2>3 DEF Sends, InLine
      <4>2. SUFFICES ASSUME NEW i \in 1 .. Len(jobs'), NEW j \in 1 .. Len(jobs'), i < j
                     PROVE  jobs'[i] < jobs'[j]
        OBVIOUS
      <4>3. i \in 1 .. Len(jobs) /\ (j \in 1 .. Len(jobs) \/ j = Len(jobs) + 1)
        BY <2>0, <3>2, <4>2
      <4> QED BY <2>0, <3>2, <4>1, <4>2, <4>3 DEF InLine
    <3> QED BY <2>0, <2>3, <3>2, <3>3 DEF Sends, InLine
  <2>4. CASE Takes
    <3>1. /\ Head(jobs) \in Utt /\ Head(jobs) = jobs[1]
          /\ Queued = {Head(jobs)} \cup Queued' /\ Len(jobs') = Len(jobs) - 1
          /\ \A i \in 1 .. Len(jobs') : jobs'[i] = jobs[i + 1]
      BY <2>0, <2>4, TakeOne DEF Takes
    <3>2. \A i, j \in 1 .. Len(jobs') : i < j => jobs'[i] < jobs'[j]
      BY <2>0, <3>1 DEF InLine
    <3>3. \A u \in Queued' : \E i \in 1 .. Len(jobs') : u = jobs[i + 1]
      BY <3>1 DEF Queued
    <3>4. \A u \in Queued' : Head(jobs) < u
      BY <2>0, <3>1, <3>3 DEF InLine
    <3> QED BY <2>0, <2>4, <3>1, <3>2, <3>4 DEF Takes, InLine
  <2>5. CASE Ends
    <3>1. Queued' = Queued
      BY <2>5 DEF Ends, Queued
    <3> QED BY <2>0, <2>5, <3>1 DEF Ends, InLine
  <2>6. CASE Dies
    <3>1. Queued' = {} /\ Len(jobs') = 0
      BY <2>6 DEF Dies, Queued
    <3> QED BY <2>0, <2>6, <3>1 DEF Dies, InLine
  <2>7. CASE Rests
    BY <2>7 DEF Rests, InLine, Queued
  <2> QED BY <2>1, <2>2, <2>3, <2>4, <2>5, <2>6, <2>7, Moves
<1> QED BY <1>1, <1>2, DataCorrect, PTL DEF Spec
-----------------------------------------------------------------------------
(* The accounts. *)

\* The two ways an utterance leaves: with its report, or without.
LEMMA Closes ==
  ASSUME DataOK, Accounted, NEW S \in SUBSET Utt,
         \A u \in S : fate[u] = "open",
         \/ \E u \in Utt : S = {u} /\ (Told(u, "turnedDown") \/ Told(u, "handled"))
         \/ Vanish(S)
  PROVE  \A u \in Utt :
           /\ u \in S => fate'[u] \in Fates \ {"open"}
           /\ u \notin S => fate'[u] = fate[u]
           /\ reports'[u] = IF fate'[u] \in {"handled", "turnedDown"} THEN 1 ELSE 0
<1>1. CASE \E u \in Utt : S = {u} /\ (Told(u, "turnedDown") \/ Told(u, "handled"))
  BY <1>1 DEF Told, DataOK, Accounted, Fates
<1>2. CASE Vanish(S)
  BY <1>2 DEF Vanish, DataOK, Accounted, Fates
<1> QED BY <1>1, <1>2

\* Every utterance is open exactly while the daemon holds it, and is reported
\* exactly once unless a shutdown or a panic swallows it (finish_capture,
\* worker, report).
THEOREM AllAccounted == Spec => []Accounted
<1>1. Init => Accounted
  BY EmptyQueue, DaemonAssumption
  DEF Init, Accounted, InFlight, InCapture, InWorker, Utt
<1>2. DataOK /\ Engaged /\ InLine /\ Accounted /\ [Next]_vars => Accounted'
  <2> SUFFICES ASSUME DataOK, Engaged, InLine, Accounted, [Next]_vars PROVE Accounted'
    OBVIOUS
  <2>0. /\ born \in Nat /\ capture \in Nat /\ current \in Nat /\ jobs \in Seq(Utt)
        /\ capture # 0 => capture \in Utt
        /\ current # 0 => current \in Utt
        /\ Queued \subseteq Utt /\ Utt \subseteq Nat \ {0} /\ 0 \notin Queued
    BY DaemonAssumption, QueuedUtt DEF DataOK, Utt
  <2>1. CASE Starts
    <3>1. Queued' = Queued
      BY <2>1 DEF Starts, Queued
    <3> QED BY <2>0, <2>1, <3>1 DEF Starts, Accounted, InFlight, InCapture, InWorker
  <2>2. ASSUME NEW S \in SUBSET Utt, UNCHANGED born,
               \A u \in S : u \in InFlight,
               InFlight' = InFlight \ S,
               \A u \in S : u <= born,
               \/ \E u \in Utt : S = {u} /\ (Told(u, "turnedDown") \/ Told(u, "handled"))
               \/ Vanish(S)
        PROVE  Accounted'
    <3>1. \A u \in S : fate[u] = "open"
      BY <2>2 DEF Accounted
    <3>2. \A u \in Utt :
            /\ u \in S => fate'[u] \in Fates \ {"open"}
            /\ u \notin S => fate'[u] = fate[u]
            /\ reports'[u] = IF fate'[u] \in {"handled", "turnedDown"} THEN 1 ELSE 0
      BY <2>2, <3>1, Closes
    <3> QED BY <2>0, <2>2, <3>2 DEF Accounted, Fates
  <2>3. CASE Drops \/ Leaves
    <3>a. InCapture' = {} /\ Queued' = Queued /\ InWorker' = InWorker
      BY <2>3 DEF Drops, Leaves, InCapture, InWorker, Queued
    <3>b. InCapture \cap (Queued \cup InWorker) = {} /\ InCapture \in SUBSET Utt
      BY <2>0 DEF InLine, InCapture, InWorker
    <3>1. InFlight' = InFlight \ InCapture /\ InCapture \in SUBSET Utt
      BY <3>a, <3>b DEF InFlight
    <3>2. \A u \in InCapture : u \in InFlight /\ u <= born
      BY <2>0 DEF InFlight, InCapture, InLine
    <3>3. \/ \E u \in Utt : InCapture = {u} /\ (Told(u, "turnedDown") \/ Told(u, "handled"))
          \/ Vanish(InCapture)
      BY <2>0, <2>3 DEF Drops, Leaves, InCapture
    <3> QED BY <2>2, <2>3, <3>1, <3>2, <3>3 DEF Drops, Leaves
  <2>4. CASE Sends
    <3>1. Queued' = Queued \cup {capture}
      BY <2>0, <2>4, SendOne DEF Sends
    <3> QED BY <2>4, <3>1 DEF Sends, Accounted, InFlight, InCapture, InWorker
  <2>5. CASE Takes
    <3>1. Queued = {Head(jobs)} \cup Queued' /\ Head(jobs) \in Utt
      BY <2>0, <2>5, TakeOne DEF Takes
    <3> QED BY <2>0, <2>5, <3>1 DEF Takes, Accounted, InFlight, InCapture, InWorker
  <2>6. CASE Ends
    <3>1. current \in Utt /\ current <= born /\ current \notin Queued /\ current # capture
      BY <2>0, <2>6 DEF Ends, InLine
    <3>2. Queued' = Queued /\ InCapture' = InCapture /\ InWorker' = {} /\ InWorker = {current}
      BY <2>6 DEF Ends, Queued, InCapture, InWorker
    <3>3. InFlight' = InFlight \ InWorker /\ current \in InFlight
      BY <3>1, <3>2 DEF InFlight, InCapture
    <3>4. InWorker \in SUBSET Utt /\ \A u \in InWorker : u \in InFlight /\ u <= born
      BY <3>1, <3>2, <3>3
    <3>5. \E u \in Utt : InWorker = {u} /\ (Told(u, "turnedDown") \/ Told(u, "handled"))
      BY <2>6, <3>1, <3>2 DEF Ends
    <3> QED BY <2>2, <2>6, <3>3, <3>4, <3>5 DEF Ends
  <2>7. CASE Dies
    <3>1. Queued' = {} /\ InWorker' = {}
      BY <2>7 DEF Dies, Queued, InWorker
    <3>2. InFlight' = InFlight \ (InWorker \cup Queued)
      BY <2>0, <2>7, <3>1 DEF Dies, InLine, InFlight, InCapture, InWorker
    <3>3. \A u \in InWorker \cup Queued : u \in InFlight /\ u \in Utt /\ u <= born
      BY <2>0 DEF InFlight, InWorker, InLine
    <3> QED BY <2>2, <2>7, <3>2, <3>3 DEF Dies
  <2>8. CASE Rests
    BY <2>8 DEF Rests, Accounted, InFlight, InCapture, InWorker, Queued
  <2> QED BY <2>1, <2>3, <2>4, <2>5, <2>6, <2>7, <2>8, Moves
<1> QED BY <1>1, <1>2, DataCorrect, StandInLine, PTL DEF Spec
-----------------------------------------------------------------------------
(* The safety properties. *)

\* What is over stays as it was.
LEMMA OverIsOver ==
  ASSUME DataOK, Engaged, Accounted, [Next]_vars
  PROVE  \A u \in Utt : fate[u] # "open" => fate'[u] = fate[u]
<1> SUFFICES ASSUME NEW u \in Utt, fate[u] # "open" PROVE fate'[u] = fate[u]
  OBVIOUS
<1>1. u \notin InFlight
  BY DEF Accounted
<1>2. /\ capture # 0 => capture \in Utt /\ capture # u
      /\ current # 0 => current \in Utt /\ current # u
  BY <1>1, DaemonAssumption DEF DataOK, Utt, InFlight, InCapture, InWorker
<1>3. CASE Drops
  BY <1>2, <1>3 DEF Drops, Told, Vanish, DataOK
<1>4. CASE Ends
  BY <1>2, <1>4 DEF Ends, Told, DataOK
<1>5. CASE Dies \/ Leaves
  BY <1>1, <1>5 DEF Dies, Leaves, Vanish, InFlight
<1>6. CASE Starts \/ Sends \/ Takes \/ Rests
  BY <1>6 DEF Starts, Sends, Takes, Rests
<1> QED BY <1>3, <1>4, <1>5, <1>6, Moves

\* Nothing queued is older than what the worker has, or than anything the
\* router has handled (the one worker and its channel).
THEOREM NobodyOvertakes == Spec => []NoOvertaking
<1>1. Init => NoOvertaking
  BY EmptyQueue DEF Init, NoOvertaking
<1>2. DataOK /\ Engaged /\ InLine /\ InLine' /\ Accounted /\ NoOvertaking /\ [Next]_vars
        => NoOvertaking'
  <2> SUFFICES ASSUME DataOK, Engaged, InLine, InLine', Accounted, NoOvertaking, [Next]_vars
               PROVE  NoOvertaking'
    OBVIOUS
  <2>0. /\ born \in Nat /\ capture \in Nat /\ current \in Nat /\ jobs \in Seq(Utt)
        /\ capture # 0 => capture \in Utt
        /\ current # 0 => current \in Utt
        /\ Queued \subseteq Utt /\ \A u \in Utt : u \in Nat /\ 0 < u
    BY DaemonAssumption, QueuedUtt DEF DataOK, Utt
  <2> SUFFICES ASSUME NEW u \in Queued', NEW v \in Utt, fate'[v] = "handled"
               PROVE  v < u
    BY <2>0 DEF NoOvertaking, InLine, InWorker
  <2>1. CASE Starts \/ Rests
    BY <2>1 DEF Starts, Rests, Queued, NoOvertaking
  <2>2. CASE Drops \/ Leaves
    BY <2>0, <2>2 DEF Drops, Leaves, Told, Vanish, DataOK, Queued, NoOvertaking
  <2>3. CASE Sends
    <3>1. Queued' = Queued \cup {capture}
      BY <2>0, <2>3, SendOne DEF Sends
    <3>2. v <= born /\ v # capture
      BY <2>0, <2>3 DEF Sends, Accounted, InFlight, InCapture
    <3> QED BY <2>0, <2>3, <3>1, <3>2 DEF Sends, InLine, NoOvertaking
  <2>4. CASE Takes
    <3>1. Queued = {Head(jobs)} \cup Queued'
      BY <2>0, <2>4, TakeOne DEF Takes
    <3> QED BY <2>4, <3>1 DEF Takes, NoOvertaking
  <2>5. CASE Ends
    <3>1. Queued' = Queued
      BY <2>5 DEF Ends, Queued
    <3>2. fate[v] = "handled" \/ v = current
      BY <2>0, <2>5 DEF Ends, Told, DataOK
    <3> QED BY <2>0, <2>5, <3>1, <3>2 DEF Ends, NoOvertaking, InWorker
  <2>6. CASE Dies
    BY <2>6 DEF Dies, Queued
  <2> QED BY <2>1, <2>2, <2>3, <2>4, <2>5, <2>6, Moves
<1> QED BY <1>1, <1>2, DataCorrect, StandInLine, AllAccounted, PTL DEF Spec

\* Speech that met a locked session at the end of its capture or at the end
\* of its transcription is turned down and never reaches the router.
THEOREM LockedSpeechInert == Spec => []LockedSpeechIsInert
<1>1. Init => MutedOver
  BY DEF Init, MutedOver
<1>2. DataOK /\ Engaged /\ Accounted /\ MutedOver /\ [Next]_vars => MutedOver'
  <2> SUFFICES ASSUME DataOK, Engaged, Accounted, MutedOver, [Next]_vars PROVE MutedOver'
    OBVIOUS
  <2>1. muted \subseteq Utt /\ \A u \in muted : fate'[u] = fate[u]
    BY OverIsOver DEF DataOK, MutedOver
  <2>2. CASE UNCHANGED muted
    BY <2>1, <2>2 DEF MutedOver
  <2>3. CASE FinishCapture
    <3>1. CASE locked
      <4>1. muted' = muted \cup {capture} /\ Told(capture, "turnedDown") /\ capture \in Utt
        BY <2>3, <3>1, DaemonAssumption DEF FinishCapture, EndsUnderLock, DataOK, Utt
      <4>2. fate'[capture] = "turnedDown"
        BY <4>1 DEF Told, DataOK
      <4> QED BY <2>1, <4>1, <4>2 DEF MutedOver
    <3>2. CASE ~locked
      BY <2>2, <2>3, <3>2 DEF FinishCapture
    <3> QED BY <3>1, <3>2
  <2>4. CASE HearsUnderLock
    <3>1. muted' = muted \cup {current} /\ Told(current, "turnedDown") /\ current \in Utt
      BY <2>4, DaemonAssumption DEF HearsUnderLock, Engaged, DataOK, Utt
    <3>2. fate'[current] = "turnedDown"
      BY <3>1 DEF Told, DataOK
    <3> QED BY <2>1, <3>1, <3>2 DEF MutedOver
  <2>5. CASE Hears
    BY <2>2, <2>5 DEF Hears, RefusedByLock
  <2>6. FinishCapture \/ HearsUnderLock \/ Hears \/ UNCHANGED muted
    BY DEF Next, LoopNext, ShutdownNext, WorkerStep, KeyReleased, StopRequested, HoldExpired,
           Stopped, KeyPressed, StartRequested, StartCapture, StartFails, DeviceReady, DeviceFails,
           CancelCapture, EnabledReceived, EnabledShown, EnabledWritten, LockSeen, PublisherReads,
           PublisherWrites, TakesJob, HearsNothing, Judges, Types, Reports, Asks, WorkerPanics,
           TimerWakes, TimerClears, Terminate, WorkerDrained, GraceElapsed, vars, histVars
  <2> QED BY <2>2, <2>3, <2>4, <2>5, <2>6
<1>3. DataOK /\ Engaged /\ Accounted /\ MutedOver => LockedSpeechIsInert
  BY DEF DataOK, Engaged, Accounted, MutedOver, LockedSpeechIsInert, InFlight, InWorker
<1> QED BY <1>1, <1>2, <1>3, DataCorrect, AllAccounted, PTL DEF Spec

\* The bus never shows work that is not there, whichever task wrote it last
\* (start_capture, finish_capture, worker, report, the prompt timers).
THEOREM StatusTrue == Spec => []StatusNeverStale
<1>1. Init => StatusNeverStale
  BY DEF Init, StatusNeverStale
<1>2. DataOK /\ StatusNeverStale /\ [Next]_vars => StatusNeverStale'
  <2> SUFFICES ASSUME DataOK, StatusNeverStale, [Next]_vars, phase' # "dead"
               PROVE  StatusNeverStale'
    BY DEF StatusNeverStale
  <2> USE DEF StatusNeverStale, loopVars, workerVars, lockVars, busVars, timerVars, histVars
  <2>1. CASE \E m \in Mode : KeyPressed(m) \/ StartRequested(m)
    <3>1. born + 1 # 0
      BY DaemonAssumption DEF DataOK
    <3> QED BY <2>1, <3>1 DEF KeyPressed, StartRequested, StartCapture
  <2>2. CASE StartFails \/ DeviceFails \/ CancelCapture
    BY <2>2 DEF StartFails, DeviceFails, CancelCapture
  <2>3. CASE DeviceReady \/ EnabledReceived
    BY <2>3 DEF DeviceReady, EnabledReceived
  <2>4. CASE FinishCapture
    <3>1. jobs' # <<>> \/ state' = "idle"
      <4>1. jobs' = Append(jobs, capture) => jobs' # <<>>
        BY <2>4, DaemonAssumption, AppendProperties DEF FinishCapture, DataOK, Utt
      <4> QED BY <2>4, <4>1 DEF FinishCapture, Enqueued
    <3>2. phase' = phase /\ state' \in {"idle", "transcribing"}
      BY <2>4 DEF FinishCapture
    <3> QED BY <3>1, <3>2
  <2>5. CASE PublisherReads \/ PublisherWrites
    BY <2>5 DEF PublisherReads, PublisherWrites, DataOK
  <2>6. CASE EnabledShown
    BY <2>6 DEF EnabledShown, DataOK
  <2>7. CASE \E b \in BOOLEAN : EnabledWritten(b) \/ LockSeen(b)
    BY <2>7 DEF EnabledWritten, LockSeen
  <2>8. CASE TakesJob
    BY <2>8 DEF TakesJob
  <2>9. CASE HearsNothing \/ HearsUnderLock \/ Reports
    BY <2>9 DEF HearsNothing, HearsUnderLock, Reports
  <2>10. CASE Asks
    BY <2>10 DEF Asks, WithTimer
  <2>11. CASE Hears
    BY <2>11 DEF Hears
  <2>12. CASE Judges \/ Types
    BY <2>12 DEF Judges, Types
  <2>13. CASE WorkerPanics \/ GraceElapsed
    BY <2>13 DEF WorkerPanics, GraceElapsed
  <2>14. CASE Terminate
    BY <2>14 DEF Terminate
  <2>15. CASE WorkerDrained \/ UNCHANGED vars
    BY <2>15 DEF WorkerDrained, vars
  <2>16. CASE \E u \in Utt : TimerWakes(u) \/ TimerClears(u)
    <3>1. ASSUME NEW u \in Utt, TimerWakes(u) PROVE StatusNeverStale'
      BY <3>1 DEF TimerWakes
    <3>2. ASSUME NEW u \in Utt, TimerClears(u) PROVE StatusNeverStale'
      BY <3>2 DEF TimerClears
    <3> QED BY <2>16, <3>1, <3>2
  <2> QED
    BY <2>1, <2>2, <2>3, <2>4, <2>5, <2>6, <2>7, <2>8, <2>9, <2>10, <2>11, <2>12, <2>13,
       <2>14, <2>15, <2>16
    DEF Next, LoopNext, ShutdownNext, WorkerStep, KeyReleased, StopRequested, HoldExpired, Stopped
<1> QED BY <1>1, <1>2, DataCorrect, PTL DEF Spec
-----------------------------------------------------------------------------
(* The promise. *)

\* A stage changed for one utterance only.
LEMMA OneStageMoves ==
  ASSUME NEW u \in Utt, NEW g,
         \A v \in Utt : StageOf(v)' = IF v = u THEN g ELSE StageOf(v)
  PROVE  stages' = [stages EXCEPT ![u] = g]
<1>1. stages' = [v \in Utt |-> StageOf(v)']
  BY DEF stages
<1>2. stages = [v \in Utt |-> StageOf(v)]
  BY DEF stages
<1> QED BY <1>1, <1>2

\* What each move does to the stages of the utterances.
LEMMA StageMoves ==
  ASSUME DataOK, Engaged, InLine, InLine', [Next]_vars
  PROVE  /\ Starts => Promise!Record(born + 1)
         /\ Sends => Promise!Release(capture)
         /\ Takes => Promise!Take(Head(jobs))
         /\ Drops => Promise!End(InCapture)
         /\ Ends => Promise!End(InWorker)
         /\ Dies => Promise!End(InWorker \cup Queued) \/ UNCHANGED stages
         /\ Leaves => Promise!End(InCapture) \/ UNCHANGED stages
         /\ Rests => UNCHANGED stages
<1>0. /\ born \in Nat /\ capture \in Nat /\ current \in Nat /\ jobs \in Seq(Utt)
      /\ capture # 0 => capture \in Utt
      /\ current # 0 => current \in Utt
      /\ Queued \subseteq Utt /\ 0 \notin Queued /\ \A u \in Utt : u \in Nat /\ 0 < u
  BY DaemonAssumption, QueuedUtt DEF DataOK, Utt
<1>a. Promise!Utt = Utt
  BY DEF Utt, Promise!Utt
<1>1. ASSUME Starts PROVE Promise!Record(born + 1)
  <2>1. Queued' = Queued
    BY <1>1 DEF Starts, Queued
  <2>2. stages' = [stages EXCEPT ![born + 1] = "recording"]
    <3>1. \A v \in Utt : StageOf(v)' = IF v = born + 1 THEN "recording" ELSE StageOf(v)
      BY <1>0, <1>1, <2>1 DEF Starts, StageOf, InLine
    <3> QED BY <3>1, <1>1, OneStageMoves DEF Starts
  <2>3. /\ stages[born + 1] = "unborn"
        /\ \A v \in Utt : stages[v] # "recording"
        /\ \A v \in Utt : v < born + 1 => stages[v] # "unborn"
    BY <1>0, <1>1 DEF Starts, stages, StageOf, InLine
  <2> QED BY <1>a, <2>2, <2>3 DEF Promise!Record, Promise!Move
<1>2. ASSUME Sends PROVE Promise!Release(capture)
  <2>1. Queued' = Queued \cup {capture}
    BY <1>0, <1>2, SendOne DEF Sends
  <2>2. stages' = [stages EXCEPT ![capture] = "waiting"]
    <3>1. \A v \in Utt : StageOf(v)' = IF v = capture THEN "waiting" ELSE StageOf(v)
      BY <1>0, <1>2, <2>1 DEF Sends, StageOf, InLine
    <3> QED BY <3>1, <1>0, <1>2, OneStageMoves DEF Sends
  <2>3. stages[capture] = "recording"
    BY <1>0, <1>2 DEF Sends, stages, StageOf, InLine
  <2> QED BY <2>2, <2>3 DEF Promise!Release, Promise!Move
<1>3. ASSUME Takes PROVE Promise!Take(Head(jobs))
  <2>1. Queued = {Head(jobs)} \cup Queued' /\ Head(jobs) \in Utt
    BY <1>0, <1>3, TakeOne DEF Takes
  <2>2. \A u \in Queued' : Head(jobs) < u
    BY <1>0, <1>3 DEF Takes, InLine
  <2>3. stages' = [stages EXCEPT ![Head(jobs)] = "working"]
    <3>1. \A v \in Utt : StageOf(v)' = IF v = Head(jobs) THEN "working" ELSE StageOf(v)
      BY <1>0, <1>3, <2>1, <2>2 DEF Takes, StageOf, InLine
    <3> QED BY <3>1, <2>1, OneStageMoves
  <2>4. stages[Head(jobs)] = "waiting"
    BY <1>0, <1>3, <2>1 DEF Takes, stages, StageOf, InLine
  <2>5. \A v \in Utt : v < Head(jobs) => stages[v] = "over"
    BY <1>0, <1>3, <2>1, <2>2 DEF Takes, stages, StageOf, InLine
  <2> QED BY <1>a, <2>3, <2>4, <2>5 DEF Promise!Take, Promise!Move
<1>4. ASSUME NEW S \in SUBSET Utt, S # {}, UNCHANGED born,
             \A u \in S : u \in InFlight,
             InCapture' = InCapture \ S, Queued' = Queued \ S, InWorker' = InWorker \ S
      PROVE  Promise!End(S)
  <2>1. \A u \in S : stages[u] \in {"recording", "waiting", "working"}
    BY <1>0, <1>4 DEF InFlight, InCapture, InWorker, stages, StageOf, InLine
  <2>2. \A u \in Utt : StageOf(u)' = IF u \in S THEN "over" ELSE StageOf(u)
    BY <1>0, <1>4 DEF InFlight, InCapture, InWorker, StageOf, InLine
  <2>3. stages' = [u \in Utt |-> IF u \in S THEN "over" ELSE stages[u]]
    BY <2>2 DEF stages
  <2> QED BY <1>4, <1>a, <2>1, <2>3 DEF Promise!End, Promise!Alive
<1>5. ASSUME Drops \/ (Leaves /\ capture # 0) PROVE Promise!End(InCapture)
  <2>1. InCapture' = {} /\ Queued' = Queued /\ InWorker' = InWorker /\ UNCHANGED born
    BY <1>5 DEF Drops, Leaves, InCapture, Queued, InWorker
  <2>2. InCapture = {capture} /\ capture \notin Queued /\ capture # current /\ capture \in Utt
    BY <1>0, <1>5 DEF Drops, InCapture, InLine
  <2>3. /\ InCapture \in SUBSET Utt /\ InCapture # {} /\ \A u \in InCapture : u \in InFlight
        /\ InCapture' = InCapture \ InCapture
        /\ Queued' = Queued \ InCapture /\ InWorker' = InWorker \ InCapture
    BY <2>1, <2>2 DEF InFlight, InWorker
  <2> QED BY <1>4, <2>1, <2>3 DEF Promise!End
<1>6. ASSUME Ends PROVE Promise!End(InWorker)
  <2>1. InCapture' = InCapture /\ Queued' = Queued /\ InWorker' = {} /\ UNCHANGED born
    BY <1>6 DEF Ends, InCapture, Queued, InWorker
  <2>2. InWorker = {current} /\ current \notin Queued /\ capture # current /\ current \in Utt
    BY <1>0, <1>6 DEF Ends, InWorker, InLine
  <2>3. /\ InWorker \in SUBSET Utt /\ InWorker # {} /\ \A u \in InWorker : u \in InFlight
        /\ InCapture' = InCapture \ InWorker
        /\ Queued' = Queued \ InWorker /\ InWorker' = InWorker \ InWorker
    BY <2>1, <2>2 DEF InFlight, InCapture
  <2> QED BY <1>4, <2>1, <2>3 DEF Promise!End
<1>7. ASSUME Dies PROVE Promise!End(InWorker \cup Queued) \/ UNCHANGED stages
  <2>1. InCapture' = InCapture /\ Queued' = {} /\ InWorker' = {} /\ UNCHANGED born
    BY <1>7 DEF Dies, InCapture, Queued, InWorker
  <2>2. InCapture \cap (InWorker \cup Queued) = {} /\ InWorker \cup Queued \in SUBSET Utt
    BY <1>0 DEF InCapture, InWorker, InLine
  <2>3. CASE InWorker \cup Queued = {}
    BY <1>7, <2>1, <2>3 DEF Dies, InWorker, InCapture, stages, StageOf
  <2>4. CASE InWorker \cup Queued # {}
    <3> DEFINE S == InWorker \cup Queued
    <3>1. /\ S \in SUBSET Utt /\ S # {} /\ \A u \in S : u \in InFlight
          /\ InCapture' = InCapture \ S /\ Queued' = Queued \ S /\ InWorker' = InWorker \ S
      BY <2>1, <2>2, <2>4 DEF InFlight
    <3> HIDE DEF S
    <3>2. Promise!End(S)
      BY <1>4, <2>1, <3>1 DEF Promise!End
    <3> QED BY <3>2 DEF S
  <2> QED BY <2>3, <2>4
<1>8. Leaves /\ capture = 0 => UNCHANGED stages
  BY DEF Leaves, Queued, stages, StageOf
<1>9. Rests => UNCHANGED stages
  BY DEF Rests, Queued, stages, StageOf
<1> QED BY <1>1, <1>2, <1>3, <1>5, <1>6, <1>7, <1>8, <1>9

\* The daemon implements Utterances: one capture and one utterance in work at
\* a time, taken strictly in the order of their keys.
THEOREM PromiseKept == Spec => KeepsPromise
<1>1. Init => Promise!Init
  BY DaemonAssumption, EmptyQueue
  DEF Init, Promise!Init, Promise!Utt, stages, StageOf, Utt
<1>2. DataOK /\ Engaged /\ InLine /\ InLine' /\ [Next]_vars => [Promise!Next]_stages
  <2> SUFFICES ASSUME DataOK, Engaged, InLine, InLine', [Next]_vars
               PROVE  Promise!Next \/ UNCHANGED stages
    OBVIOUS
  <2>1. /\ capture # 0 => capture \in Promise!Utt
        /\ current # 0 => current \in Promise!Utt
        /\ Starts => born + 1 \in Promise!Utt
        /\ Takes => Head(jobs) \in Promise!Utt
        /\ InCapture \subseteq Promise!Utt /\ InWorker \cup Queued \subseteq Promise!Utt
    BY DaemonAssumption, QueuedUtt, TakeOne
    DEF DataOK, Utt, Promise!Utt, Starts, Takes, InCapture, InWorker
  <2>2. CASE Starts
    BY <2>1, <2>2, StageMoves DEF Promise!Next
  <2>3. CASE Sends
    BY <2>1, <2>3, StageMoves DEF Promise!Next, Sends
  <2>4. CASE Takes
    BY <2>1, <2>4, StageMoves DEF Promise!Next
  <2>5. ASSUME NEW S \in SUBSET Promise!Utt, Promise!End(S) PROVE Promise!Next
    BY <2>5 DEF Promise!Next
  <2>6. CASE Drops
    BY <2>1, <2>5, <2>6, StageMoves DEF Drops
  <2>7. CASE Ends
    BY <2>1, <2>5, <2>7, StageMoves DEF Ends
  <2>8. CASE Dies
    BY <2>1, <2>5, <2>8, StageMoves
  <2>9. CASE Leaves
    BY <2>1, <2>5, <2>9, StageMoves
  <2>10. CASE Rests
    BY <2>10, StageMoves
  <2> QED BY <2>2, <2>3, <2>4, <2>6, <2>7, <2>8, <2>9, <2>10, Moves
<1> QED BY <1>1, <1>2, DataCorrect, StandInLine, PTL DEF Spec, KeepsPromise, Promise!Spec
=============================================================================
