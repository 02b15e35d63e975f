---------------------------- MODULE DaemonClaims ----------------------------
(***************************************************************************)
(* What a comment says of the daemon that its code does not keep: the run  *)
(* ends in a counterexample.                                               *)
(***************************************************************************)
EXTENDS Daemon

\* "The UI shows it that long unless something else happens first"
\* (main.rs:660): the timer of one prompt does not take down a later one.
\* A prompt's own timer is asleep or firing exactly until its window is over.
PromptKeepsItsWindow ==
  [][\A u \in firing \ firing' :
       state = "waiting" => \A v \in timers \cup firing : v <= u]_vars
=============================================================================
