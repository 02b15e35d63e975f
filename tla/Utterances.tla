----------------------------- MODULE Utterances -----------------------------
(***************************************************************************)
(* What parlad promises about utterances, with the microphone, the queue,  *)
(* the worker and the bus left out.  An utterance is numbered by the order *)
(* in which its key went down.  At most one is recorded and at most one is *)
(* worked on at a time, and an utterance is worked on only when every      *)
(* earlier one is over.  Daemon implements this specification.             *)
(***************************************************************************)
EXTENDS Naturals

CONSTANT MaxUtt    \* how many utterances a behaviour may contain

VARIABLE stage     \* how far each utterance has come

Utt    == 1 .. MaxUtt
Stages == {"unborn", "recording", "waiting", "working", "over"}
Alive  == {"recording", "waiting", "working"}

StageOK == stage \in [Utt -> Stages]

Move(u, from, to) == /\ stage[u] = from
                     /\ stage' = [stage EXCEPT ![u] = to]

Init == stage = [u \in Utt |-> "unborn"]

\* A capture starts: nothing else is being recorded, numbers are used in turn.
Record(u) == /\ Move(u, "unborn", "recording")
             /\ \A v \in Utt : stage[v] # "recording"
             /\ \A v \in Utt : v < u => stage[v] # "unborn"

\* A finished capture joins the queue.
Release(u) == Move(u, "recording", "waiting")

\* The worker takes the oldest one.
Take(u) == /\ Move(u, "waiting", "working")
           /\ \A v \in Utt : v < u => stage[v] = "over"

\* Utterances end: handled, refused, cancelled, or lost with the daemon.
End(S) == /\ S # {}
          /\ \A u \in S : stage[u] \in Alive
          /\ stage' = [u \in Utt |-> IF u \in S THEN "over" ELSE stage[u]]

Next == \/ \E u \in Utt : Record(u) \/ Release(u) \/ Take(u)
        \/ \E S \in SUBSET Utt : End(S)

Spec == Init /\ [][Next]_stage

\* Whatever is released is eventually over (the implementation's fairness).
EveryReleaseEnds == \A u \in Utt : (stage[u] \in {"waiting", "working"}) ~> (stage[u] = "over")

\* The microphone is eventually closed again.
EveryRecordingEnds == \A u \in Utt : (stage[u] = "recording") ~> (stage[u] # "recording")
=============================================================================
