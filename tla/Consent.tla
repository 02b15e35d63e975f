------------------------------- MODULE Consent -------------------------------
(***************************************************************************)
(* What parla promises about prompts, with windows, grammar, judge and      *)
(* policy left out.  A prompt is named after the utterance that raised it.  *)
(* At most one is up; it may lapse, after which it can only be dropped; a   *)
(* consent to it is good for carrying it out once.  Commands implements     *)
(* this specification.                                                     *)
(***************************************************************************)
EXTENDS Naturals

CONSTANT MaxUtt    \* how many utterances a behaviour may contain

VARIABLE prompt    \* what became of the prompt each utterance raised

Utt    == 1 .. MaxUtt
Fates  == {"none", "asked", "lapsed", "granted", "carriedOut", "dropped"}
Up     == {"asked", "lapsed"}

PromptOK == prompt \in [Utt -> Fates]

Move(u, from, to) == /\ prompt[u] \in from
                     /\ prompt' = [prompt EXCEPT ![u] = to]

Init == prompt = [u \in Utt |-> "none"]

\* A prompt is raised when no other is up or being carried out, and later than
\* every earlier one.
Ask(u) == /\ Move(u, {"none"}, "asked")
          /\ \A v \in Utt : prompt[v] \notin Up \cup {"granted"}
          /\ \A v \in Utt : v > u => prompt[v] = "none"

\* Its window of time is over.
Lapse(u) == Move(u, {"asked"}, "lapsed")

\* The user said yes in time.
Grant(u) == Move(u, {"asked"}, "granted")

\* The command is carried out, which uses the consent up.
CarryOut(u) == Move(u, {"granted"}, "carriedOut")

\* Denied, lapsed, superseded, or the command failed.
Drop(u) == Move(u, Up \cup {"granted"}, "dropped")

Next == \E u \in Utt : Ask(u) \/ Lapse(u) \/ Grant(u) \/ CarryOut(u) \/ Drop(u)

Spec == Init /\ [][Next]_prompt
=============================================================================
