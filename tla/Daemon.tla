------------------------------- MODULE Daemon -------------------------------
(***************************************************************************)
(* The core of parlad (crates/parlad/src/main.rs, dbus.rs): push-to-talk   *)
(* captures, the bounded job queue, the one worker, the session lock, the  *)
(* status published on the bus, and shutdown.                              *)
(*                                                                         *)
(* Five tasks share this state and interleave at their await points: the   *)
(* main select loop, the utterance worker, publish_lock, the confirmation  *)
(* timers and the lock watcher.  A handler without an await is one action; *)
(* publish_lock, the timers and the handler of Enabled, which look at the   *)
(* status and then overwrite it, take two: the runtime has many threads.   *)
(*                                                                         *)
(* Left out: the status' mode, last result and error flag, the cues and    *)
(* desktop notifications, and what an utterance says.                      *)
(***************************************************************************)
EXTENDS Naturals, Sequences, FiniteSets

CONSTANTS MaxUtt,       \* captures in a behaviour (bounds the model)
          JobQueue,     \* JOB_QUEUE: finished captures that may wait
          MaxToggles    \* unhandled writes of Enabled (bounds the model)

ASSUME DaemonAssumption == /\ MaxUtt \in Nat \ {0}
                           /\ JobQueue \in Nat \ {0}
                           /\ MaxToggles \in Nat

Utt  == 1 .. MaxUtt
Mode == {"dictate", "command"}

VARIABLES run,         \* the serve loop: "running", "draining", "stopped"
          born,        \* captures started so far; the newest has this number
          modeOf,      \* the mode each capture was started in
          capture,     \* the capture in progress, 0 for none
          opened,      \* the capture's device has reported ready
          jobs,        \* finished captures waiting for the worker
          phase,       \* what the worker is doing
          current,     \* the utterance it is doing it to, 0 for none
          locked,      \* the lock watcher's latest value
          lockNews,    \* publish_lock has not seen that value yet
          verdict,     \* the state publish_lock decided to publish, or "none"
          enabled,     \* the bus property Enabled
          toggles,     \* Control::Enabled messages the loop has not handled
          ruling,      \* the state its handler decided to publish, or "none"
          state,       \* the State the bus shows
          timers,      \* prompts whose confirm-window timer is asleep
          firing       \* prompts whose timer saw Waiting and will clear it

\* History: what became of each utterance, how often the user was told, and
\* which utterances met a locked session at one of their checkpoints.
VARIABLES fate, reports, muted

loopVars   == <<run, born, modeOf, capture, opened>>
workerVars == <<phase, current>>
lockVars   == <<locked, lockNews, verdict>>
busVars    == <<enabled, toggles, ruling>>
timerVars  == <<timers, firing>>
histVars   == <<fate, reports, muted>>
vars == <<loopVars, jobs, workerVars, lockVars, busVars, state, timerVars, histVars>>

States == {"idle", "recording", "transcribing", "thinking", "typing", "waiting", "paused"}
Phases == {"idle", "hearing", "routing", "thinking", "typing", "dead"}

\* An utterance is open until the router has handled it (whatever came of
\* that), it was turned down on the way there with a word to the user, or it
\* went unmentioned: at shutdown, or with a worker that panicked.
Fates == {"open", "handled", "turnedDown", "unmentioned"}

FlagsOK == /\ opened \in BOOLEAN /\ locked \in BOOLEAN /\ lockNews \in BOOLEAN
           /\ enabled \in BOOLEAN /\ toggles \in Seq(BOOLEAN)

DataOK == /\ run \in {"running", "draining", "stopped"}
          /\ born \in 0 .. MaxUtt
          /\ modeOf \in [Utt -> Mode]
          /\ capture \in 0 .. MaxUtt
          /\ jobs \in Seq(Utt)
          /\ phase \in Phases
          /\ current \in 0 .. MaxUtt
          /\ verdict \in {"none", "idle", "paused"} /\ ruling \in {"none", "idle", "paused"}
          /\ state \in States
          /\ timers \subseteq Utt /\ firing \subseteq Utt
          /\ fate \in [Utt -> Fates] /\ reports \in [Utt -> Nat] /\ muted \subseteq Utt

TypeOK == FlagsOK /\ DataOK
-----------------------------------------------------------------------------
(* Building blocks. *)

\* The main loop is waiting in its select.
Running == run = "running" /\ ruling = "none"

\* u is over with outcome f, and the user was told.
Told(u, f) == /\ fate' = [fate EXCEPT ![u] = f]
              /\ reports' = [reports EXCEPT ![u] = @ + 1]

\* The utterances in S are over and nobody is told.
Vanish(S) == /\ fate' = [u \in Utt |-> IF u \in S THEN "unmentioned" ELSE fate[u]]
             /\ UNCHANGED reports

Queued    == {jobs[i] : i \in 1 .. Len(jobs)}
InCapture == {capture} \ {0}
InWorker  == {current} \ {0}
InFlight  == InCapture \cup Queued \cup InWorker

\* A finished capture goes behind the ones already waiting.
EnqueuedFirst(u) == <<u>> \o jobs                                  \* mutant
Enqueued(u) == Append(jobs, u)
-----------------------------------------------------------------------------
(* The main loop. *)

\* start_capture refuses while a capture runs or the session is locked.
MayStartOverCapture == Running /\ ~locked                          \* mutant
MayStart == Running /\ capture = 0 /\ ~locked

StartCapture(m) ==
  /\ MayStart
  /\ born < MaxUtt          \* bounds the model
  /\ born' = born + 1 /\ capture' = born + 1
  /\ modeOf' = [modeOf EXCEPT ![born + 1] = m]
  /\ opened' = FALSE
  /\ state' = "recording"
  /\ UNCHANGED <<run, jobs, workerVars, lockVars, busVars, timerVars, histVars>>

\* The hotkeys are ignored while Enabled is false; the Start method is not.
KeyPressed(m)     == enabled /\ StartCapture(m)
StartRequested(m) == StartCapture(m)

\* The capture thread could not be spawned: LoopCtx::fail, no capture.
StartFails ==
  /\ MayStart
  /\ state' = "idle"
  /\ UNCHANGED <<loopVars, jobs, workerVars, lockVars, busVars, timerVars, histVars>>

\* The device opens; the capture goes on.
DeviceReady ==
  /\ Running /\ capture # 0 /\ ~opened
  /\ opened' = TRUE
  /\ UNCHANGED <<run, born, modeOf, capture, jobs, workerVars, lockVars, busVars,
                 state, timerVars, histVars>>

\* The device does not open: the capture is over, LoopCtx::fail.
DeviceFails ==
  /\ Running /\ capture # 0 /\ ~opened
  /\ capture' = 0
  /\ state' = "idle"
  /\ Told(capture, "turnedDown")
  /\ UNCHANGED <<run, born, modeOf, opened, jobs, workerVars, lockVars, busVars,
                 timerVars, muted>>

\* finish_capture.  A locked session discards the capture; a full queue drops
\* it; a queue whose worker is gone only logs, and the state stays.
EndsUnderLockIgnored == FALSE                                      \* mutant
EndsUnderLock == locked

FinishCapture ==
  /\ Running /\ capture # 0
  /\ capture' = 0
  /\ muted' = IF locked THEN muted \cup {capture} ELSE muted
  /\ \/ /\ EndsUnderLock
        /\ Told(capture, "turnedDown")
        /\ state' = "idle" /\ UNCHANGED jobs
     \/ /\ ~EndsUnderLock /\ phase # "dead" /\ Len(jobs) < JobQueue
        /\ jobs' = Enqueued(capture)
        /\ state' = "transcribing" /\ UNCHANGED <<fate, reports>>
     \/ /\ ~EndsUnderLock /\ phase # "dead" /\ Len(jobs) = JobQueue
        /\ Told(capture, "turnedDown")
        /\ state' = "idle" /\ UNCHANGED jobs
     \/ /\ ~EndsUnderLock /\ phase = "dead"
        /\ Vanish({capture})
        /\ state' = "transcribing" /\ UNCHANGED jobs
  /\ UNCHANGED <<run, born, modeOf, opened, workerVars, lockVars, busVars, timerVars>>

\* A release of either key, the Stop method and the hold timer all end the
\* capture the same way; a release that does not fit the mode only warns.
KeyReleased   == FinishCapture
StopRequested == FinishCapture
HoldExpiredNever == FALSE /\ FinishCapture                         \* mutant
HoldExpired   == FinishCapture

\* The Cancel method drops the capture.
CancelCapture ==
  /\ Running /\ capture # 0
  /\ capture' = 0
  /\ state' = "idle"
  /\ Told(capture, "turnedDown")
  /\ UNCHANGED <<run, born, modeOf, opened, jobs, workerVars, lockVars, busVars,
                 timerVars, muted>>

\* A client writes Enabled: stored at once, a message for the loop follows.
EnabledWritten(b) ==
  /\ run # "stopped" /\ Len(toggles) < MaxToggles
  /\ enabled' = b
  /\ toggles' = Append(toggles, b)
  /\ UNCHANGED <<loopVars, jobs, workerVars, lockVars, ruling, state, timerVars, histVars>>

\* The loop re-publishes its state, unless something is in progress.
EnabledReceived ==
  /\ Running /\ toggles # <<>>
  /\ toggles' = Tail(toggles)
  /\ ruling' = IF capture = 0 /\ state \in {"idle", "paused"}
               THEN IF ~Head(toggles) \/ locked THEN "paused" ELSE "idle"
               ELSE "none"
  /\ UNCHANGED <<loopVars, jobs, workerVars, lockVars, enabled, state, timerVars, histVars>>

EnabledShown ==
  /\ run = "running" /\ ruling # "none"
  /\ state' = ruling /\ ruling' = "none"
  /\ UNCHANGED <<loopVars, jobs, workerVars, lockVars, enabled, toggles, timerVars, histVars>>
-----------------------------------------------------------------------------
(* The lock watcher and publish_lock. *)

\* A signal, or the re-read after a reconnect, which may repeat the old value.
LockSeen(b) ==
  /\ run # "stopped"
  /\ locked' = b /\ lockNews' = TRUE
  /\ UNCHANGED <<loopVars, jobs, workerVars, verdict, busVars, state, timerVars, histVars>>

PublisherReads ==
  /\ run # "stopped" /\ lockNews /\ verdict = "none"
  /\ lockNews' = FALSE
  /\ verdict' = IF locked /\ state = "idle" THEN "paused"
                ELSE IF ~locked /\ state = "paused" /\ enabled THEN "idle"
                ELSE "none"
  /\ UNCHANGED <<loopVars, jobs, workerVars, locked, busVars, state, timerVars, histVars>>

PublisherWrites ==
  /\ run # "stopped" /\ verdict # "none"
  /\ state' = verdict /\ verdict' = "none"
  /\ UNCHANGED <<loopVars, jobs, workerVars, locked, lockNews, busVars, timerVars, histVars>>
-----------------------------------------------------------------------------
(* The worker. *)

Alive == run # "stopped"

TakesJob ==
  /\ Alive /\ phase = "idle" /\ jobs # <<>>
  /\ current' = Head(jobs) /\ jobs' = Tail(jobs)
  /\ phase' = "hearing"
  /\ UNCHANGED <<loopVars, lockVars, busVars, state, timerVars, histVars>>

HearsNothingSilently ==                                            \* mutant
  /\ Alive /\ phase = "hearing"
  /\ phase' = "idle" /\ current' = 0
  /\ UNCHANGED <<loopVars, jobs, lockVars, busVars, state, timerVars, histVars>>

\* transcribe fails, or finds no speech: reported, next job.
HearsNothing ==
  /\ Alive /\ phase = "hearing"
  /\ phase' = "idle" /\ current' = 0
  /\ state' = "idle"
  /\ Told(current, "turnedDown")
  /\ UNCHANGED <<loopVars, jobs, lockVars, busVars, timerVars, muted>>

\* The last look at the lock, after the transcription.
RefusedByLock == locked

HearsUnderLock ==
  /\ Alive /\ phase = "hearing" /\ RefusedByLock
  /\ phase' = "idle" /\ current' = 0
  /\ state' = "idle"
  /\ muted' = muted \cup {current}
  /\ Told(current, "turnedDown")
  /\ UNCHANGED <<loopVars, jobs, lockVars, busVars, timerVars>>

\* The router takes over.  A dictation is with the cleanup model at once; a
\* command is matched against the grammar first, which shows nothing.
Hears ==
  /\ Alive /\ phase = "hearing" /\ ~RefusedByLock
  /\ muted' = IF locked THEN muted \cup {current} ELSE muted
  /\ \/ /\ modeOf[current] = "dictate"
        /\ phase' = "thinking" /\ state' = "thinking"
     \/ /\ modeOf[current] = "command"
        /\ phase' = "routing" /\ UNCHANGED state
  /\ UNCHANGED <<loopVars, jobs, current, lockVars, busVars, timerVars, fate, reports>>

\* The judge is asked.
Judges ==
  /\ Alive /\ phase = "routing"
  /\ phase' = "thinking" /\ state' = "thinking"
  /\ UNCHANGED <<loopVars, jobs, current, lockVars, busVars, timerVars, histVars>>

TypesWhenUnlocked ==                                               \* mutant
  /\ Alive /\ phase \in {"routing", "thinking"} /\ ~locked
  /\ phase' = "typing" /\ state' = "typing"
  /\ UNCHANGED <<loopVars, jobs, current, lockVars, busVars, timerVars, histVars>>

\* Keys go out, or a command is executed.
Types ==
  /\ Alive /\ phase \in {"routing", "thinking"}
  /\ phase' = "typing" /\ state' = "typing"
  /\ UNCHANGED <<loopVars, jobs, current, lockVars, busVars, timerVars, histVars>>

\* A dictation always gets as far as typing; a reply, a refusal or an error may
\* end a command earlier, and so does a question.
CanAsk == phase \in {"routing", "thinking"} /\ modeOf[current] = "command"
CanEnd == phase = "typing" \/ CanAsk

\* The timer that takes the question down again.
WithTimerForgotten(u) == timers                                    \* mutant
WithTimerLate(u)      == timers \cup {current'}                    \* mutant
WithTimer(u) == timers \cup {u}

\* report, of anything but a question.
Reports ==
  /\ Alive /\ CanEnd
  /\ phase' = "idle" /\ current' = 0
  /\ state' = "idle"
  /\ Told(current, "handled")
  /\ UNCHANGED <<loopVars, jobs, lockVars, busVars, timerVars, muted>>

\* report, of a question: Waiting, and a timer.
Asks ==
  /\ Alive /\ CanAsk
  /\ phase' = "idle" /\ current' = 0
  /\ state' = "waiting" /\ timers' = WithTimer(current)
  /\ Told(current, "handled")
  /\ UNCHANGED <<loopVars, jobs, lockVars, busVars, firing, muted>>

\* A panic ends the worker task; the jobs in its channel go with it.
WorkerPanics ==
  /\ Alive /\ phase \notin {"idle", "dead"}
  /\ phase' = "dead" /\ current' = 0 /\ jobs' = <<>>
  /\ Vanish(InWorker \cup Queued)
  /\ UNCHANGED <<loopVars, lockVars, busVars, state, timerVars, muted>>

WorkerStep == TakesJob \/ HearsNothing \/ HearsUnderLock \/ Hears \/ Judges \/ Types
              \/ Reports \/ Asks
-----------------------------------------------------------------------------
(* The timer of prompt u: sleep, look, clear. *)

TimerWakes(u) ==
  /\ Alive /\ u \in timers
  /\ timers' = timers \ {u}
  /\ firing' = IF state = "waiting" THEN firing \cup {u} ELSE firing
  /\ UNCHANGED <<loopVars, jobs, workerVars, lockVars, busVars, state, histVars>>

TimerClears(u) ==
  /\ Alive /\ u \in firing
  /\ firing' = firing \ {u}
  /\ state' = "idle"
  /\ UNCHANGED <<loopVars, jobs, workerVars, lockVars, busVars, timers, histVars>>
-----------------------------------------------------------------------------
(* Shutdown. *)

\* SIGINT, SIGTERM, or the end of the hotkey signals: a capture is abandoned.
Terminate ==
  /\ Running
  /\ run' = "draining" /\ capture' = 0
  /\ Vanish(InCapture)
  /\ UNCHANGED <<born, modeOf, opened, jobs, workerVars, lockVars, busVars, state,
                 timerVars, muted>>

\* The worker finished what was queued, or is gone.
WorkerDrained ==
  /\ run = "draining" /\ jobs = <<>> /\ phase \in {"idle", "dead"}
  /\ run' = "stopped"
  /\ UNCHANGED <<born, modeOf, capture, opened, jobs, workerVars, lockVars, busVars,
                 state, timerVars, histVars>>

\* SHUTDOWN_GRACE is over with an utterance still in flight.
GraceElapsed ==
  /\ run = "draining"
  /\ run' = "stopped"
  /\ jobs' = <<>> /\ phase' = "dead" /\ current' = 0
  /\ Vanish(InWorker \cup Queued)
  /\ UNCHANGED <<born, modeOf, capture, opened, lockVars, busVars, state, timerVars, muted>>

Stopped == run = "stopped" /\ UNCHANGED vars
-----------------------------------------------------------------------------
Init ==
  /\ run = "running" /\ born = 0 /\ capture = 0 /\ opened = FALSE
  /\ modeOf = [u \in Utt |-> "dictate"]
  /\ jobs = <<>> /\ phase = "idle" /\ current = 0
  /\ locked \in BOOLEAN /\ lockNews = FALSE /\ verdict = "none"
  /\ enabled = TRUE /\ toggles = <<>> /\ ruling = "none"
  /\ state = "idle" /\ timers = {} /\ firing = {}
  /\ fate = [u \in Utt |-> "open"] /\ reports = [u \in Utt |-> 0] /\ muted = {}

LoopNext == \/ \E m \in Mode : KeyPressed(m) \/ StartRequested(m)
            \/ StartFails \/ DeviceReady \/ DeviceFails
            \/ KeyReleased \/ StopRequested \/ HoldExpired \/ CancelCapture
            \/ EnabledReceived \/ EnabledShown

ShutdownNext == Terminate \/ WorkerDrained \/ GraceElapsed \/ Stopped

Next == \/ LoopNext \/ ShutdownNext
        \/ \E b \in BOOLEAN : EnabledWritten(b) \/ LockSeen(b)
        \/ PublisherReads \/ PublisherWrites
        \/ WorkerStep \/ WorkerPanics
        \/ \E u \in Utt : TimerWakes(u) \/ TimerClears(u)

\* The runtime polls every ready task; sleeps end; every await of the worker
\* is bounded by a timeout or ends with the model or whisper call it waits on.
\* Keys, clients, the lock and faults owe nothing.
Fairness == /\ WF_vars(HoldExpired) /\ WF_vars(EnabledReceived) /\ WF_vars(EnabledShown)
            /\ WF_vars(WorkerStep)
            /\ WF_vars(PublisherReads) /\ WF_vars(PublisherWrites)
            /\ \A u \in Utt : WF_vars(TimerWakes(u)) /\ WF_vars(TimerClears(u))
            /\ WF_vars(GraceElapsed)

Spec == Init /\ [][Next]_vars /\ Fairness
-----------------------------------------------------------------------------
(* Properties. *)

\* An utterance is open exactly while it is in the capture, the queue or the
\* worker, and once it is over the user has been told exactly once; only a
\* shutdown or a worker that panicked swallows one (finish_capture, worker,
\* report: every path reports, and none reports twice).
Accounted ==
  \A u \in Utt :
    /\ (fate[u] = "open") <=> (u > born \/ u \in InFlight)
    /\ reports[u] = IF fate[u] \in {"handled", "turnedDown"} THEN 1 ELSE 0

\* Utterances are worked on in the order their keys were released: nothing
\* still queued is older than what the worker has or has finished (the single
\* worker and its channel, main.rs:264).
NoOvertaking ==
  \A u \in Queued, v \in Utt :
    (v \in InWorker \/ fate[v] = "handled") => v < u

\* What met a locked session when its capture ended or when its transcript was
\* ready never reaches the router (finish_capture and worker, main.rs:589, 642).
LockedSpeechIsInert ==
  \A u \in muted :
    /\ fate[u] # "handled"
    /\ ~(u = current /\ phase \in {"routing", "thinking", "typing"})

\* The bus never shows work that is not there: a busy state always has its
\* capture, job, worker phase or running timer behind it, whichever task wrote
\* the state last (set_state and finish are called from four tasks).  While
\* shutting down a dropped capture may still show as recording.
StatusNeverStale ==
  phase # "dead" =>
    /\ state = "recording" /\ run = "running" => capture # 0
    /\ state = "transcribing" => jobs # <<>> \/ phase \in {"hearing", "routing"}
    /\ state = "thinking" => phase = "thinking"
    /\ state = "typing" => phase = "typing"
    /\ state = "waiting" => timers \cup firing # {}

\* The abstract promise, with the stage of an utterance read off the capture,
\* the queue and the worker.
StageOf(u) == IF u > born THEN "unborn"
              ELSE IF u = capture THEN "recording"
              ELSE IF u \in Queued THEN "waiting"
              ELSE IF u = current THEN "working"
              ELSE "over"

stages == [u \in Utt |-> StageOf(u)]

Promise == INSTANCE Utterances WITH stage <- stages

\* One capture and one utterance in work at a time, taken strictly in turn:
\* the daemon implements Utterances.
KeepsPromise == Promise!Spec

\* Every released utterance is eventually over, whatever happens to it: the
\* queue always drains or dies with the daemon.
EveryReleaseEnds == Promise!EveryReleaseEnds

\* A lost key release cannot leave the microphone open: the hold timer ends
\* every capture (max_hold_ms, main.rs:376).
EveryRecordingEnds == Promise!EveryRecordingEnds

\* A prompt is always taken down again (the timer spawned at main.rs:664).
PromptEnds == (state = "waiting") ~> (state # "waiting" \/ run = "stopped")
=============================================================================
