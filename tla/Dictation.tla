------------------------------ MODULE Dictation ------------------------------
(***************************************************************************)
(* What parlad remembers of the text it typed (router.rs, LastDictation):   *)
(* the worker types dictations, takes the last one back ("scratch that") or *)
(* rewrites it; a correction pass re-reads the field some time later, on a  *)
(* task of its own.  Meanwhile the user types and moves the focus.          *)
(*                                                                         *)
(* Each utterance that is typed is one mark in a field, numbered after the  *)
(* utterance; the user's own text is made of marks 0.  A field is the text  *)
(* before the caret of the window.                                         *)
(***************************************************************************)
EXTENDS Naturals, Sequences

CONSTANTS Window,     \* the windows
          None,       \* no window: it could not be read
          MaxUtt,     \* utterances in a behaviour (bounds the model)
          MaxText     \* marks in a field, where the user types (bounds the model)

ASSUME DictationAssumption == /\ MaxUtt \in Nat \ {0} /\ MaxText \in Nat
                              /\ Window # {} /\ None \notin Window

Utt  == 1 .. MaxUtt
User == 0
Mark == Utt \cup {User}

VARIABLES field,      \* the text before the caret, by window
          focus,      \* the window that has it
          spoken,     \* utterances recorded so far
          keyed,      \* the window that had the focus when each was keyed
          current,    \* the utterance the worker took last
          phase,      \* where the worker is suspended
          hand,       \* the dictation that a scratch or an edit works on
          checked,    \* ... and whether its text may be deleted now
          last,       \* the dictation most recently typed
          timers,     \* sleeping tasks, by the dictation that set them
          passes      \* correction passes that are about to read the field

\* History: dictations whose text parla has set about deleting, those whose pass
\* has begun, and whether the field still is as parla left or found it.
VARIABLES doomed, begun, calm

userVars   == <<spoken, keyed>>
fieldVars  == <<field, focus>>
taskVars   == <<timers, passes, begun>>
vars == <<fieldVars, userVars, current, phase, hand, checked, last, taskVars, doomed, calm>>

\* A scratch deletes to take back, an edit to replace what it deletes.
Deleting == {"takingBack", "replacing"}
Phases   == {"idle", "composing", "typed", "rewriting", "retyping"} \cup Deleting

\* The text, the window at key-down, the dictation it began as (seq), and whether
\* a correction pass still waits.
Memory == [text : Utt, window : Window \cup {None}, seq : Utt, learn : BOOLEAN]
Nothing == [text |-> 0, window |-> None, seq |-> 0, learn |-> FALSE]

TypeOK == /\ field \in [Window -> Seq(Mark)] /\ focus \in Window
          /\ spoken \in 0 .. MaxUtt /\ current \in 0 .. spoken
          /\ keyed \in [Utt -> Window \cup {None}]
          /\ phase \in Phases
          /\ hand \in Memory \cup {Nothing} /\ last \in Memory \cup {Nothing}
          /\ checked \in BOOLEAN
          /\ timers \subseteq Utt /\ passes \subseteq Utt
          /\ doomed \subseteq Utt /\ begun \subseteq Utt
          /\ calm \in BOOLEAN
-----------------------------------------------------------------------------
(* Building blocks. *)

EndsWith(s, m) == s # <<>> /\ s[Len(s)] = m

Typed(m) == field' = [field EXCEPT ![focus] = Append(@, m)]

\* Backspaces in an empty field do nothing.
Erased == field' = [field EXCEPT ![focus] = IF @ = <<>> THEN @ ELSE SubSeq(@, 1, Len(@) - 1)]

\* The worker takes the next utterance.
Takes == phase = "idle" /\ current < spoken /\ current' = current + 1

\* The focus has not moved since the last dictation.  Whether its edit window is
\* over is left open: it may be, at any time (see PassedOver).
SameWindow(u) == keyed[u] = None \/ keyed[u] = last.window
RecentUnset(u) == SameWindow(u)                                    \* mutant
Recent(u) == last # Nothing /\ SameWindow(u)

\* The waiting pass of the last dictation begins, if there is one.
BeginsPassAgain == /\ UNCHANGED last                               \* mutant
                   /\ passes' = IF last.learn THEN passes \cup {last.seq} ELSE passes
                   /\ begun' = IF last.learn THEN begun \cup {last.seq} ELSE begun
BeginsPass == /\ last' = [last EXCEPT !.learn = FALSE]
              /\ passes' = IF last.learn THEN passes \cup {last.seq} ELSE passes
              /\ begun' = IF last.learn THEN begun \cup {last.seq} ELSE begun

\* ... or is forgotten, because parla is about to delete the text.
DisarmedNot == UNCHANGED last /\ doomed' = doomed \cup {last.seq}  \* mutant
Disarmed == /\ last' = [last EXCEPT !.learn = FALSE]
            /\ doomed' = doomed \cup {last.seq}

\* The worker is done with the utterance.
Finished == phase' = "idle" /\ hand' = Nothing /\ checked' = FALSE
-----------------------------------------------------------------------------
(* The user. *)

\* An utterance is spoken; the focus was looked up as its key went down.
Speaks ==
  /\ spoken < MaxUtt        \* bounds the model
  /\ spoken' = spoken + 1
  /\ \E w \in {focus, None} : keyed' = [keyed EXCEPT ![spoken + 1] = w]
  /\ UNCHANGED <<fieldVars, current, phase, hand, checked, last, taskVars, doomed, calm>>

\* The user, or a command, types, deletes, or moves the caret or the focus.
Disturbed == /\ calm' = FALSE
             /\ UNCHANGED <<userVars, current, phase, hand, checked, last, taskVars, doomed>>
UserTypes    == Len(field[focus]) < MaxText /\ Typed(User) /\ UNCHANGED focus /\ Disturbed
UserDeletes  == field[focus] # <<>> /\ Erased /\ UNCHANGED focus /\ Disturbed
FocusMoves   == focus' \in Window \ {focus} /\ UNCHANGED field /\ Disturbed
-----------------------------------------------------------------------------
(* The worker: a dictation. *)

\* The pass that waits for the previous dictation begins now.
Dictates ==
  /\ Takes
  /\ phase' = "composing" /\ BeginsPass
  /\ UNCHANGED <<fieldVars, userVars, hand, checked, timers, doomed, calm>>

Types ==
  /\ phase = "composing"
  /\ Typed(current)
  /\ phase' = "typed" /\ calm' = TRUE
  /\ UNCHANGED <<focus, userVars, current, hand, checked, last, taskVars, doomed>>

\* Where the field was readable at key-down, a pass is armed with its timer.
Remembers ==
  /\ phase = "typed"
  /\ \E learn \in BOOLEAN :
       /\ last' = [text |-> current, window |-> keyed[current], seq |-> current, learn |-> learn]
       /\ timers' = IF learn THEN timers \cup {current} ELSE timers
  /\ Finished
  /\ UNCHANGED <<fieldVars, userVars, current, passes, begun, doomed, calm>>
-----------------------------------------------------------------------------
(* The worker: scratch and edit. *)

\* An utterance that comes to nothing here, or a reference that has died.
PassedOver ==
  /\ Takes
  /\ UNCHANGED <<fieldVars, userVars, phase, hand, checked, last, taskVars, doomed, calm>>

Scratches ==
  /\ Takes /\ Recent(current + 1)
  /\ hand' = last /\ phase' = "takingBack" /\ Disarmed
  /\ UNCHANGED <<fieldVars, userVars, checked, taskVars, calm>>

\* The model is asked for the rewrite.
Edits ==
  /\ Takes /\ Recent(current + 1)
  /\ hand' = last /\ phase' = "rewriting"
  /\ UNCHANGED <<fieldVars, userVars, checked, last, taskVars, doomed, calm>>

Rewrites ==
  /\ phase = "rewriting"
  /\ phase' = "replacing" /\ Disarmed
  /\ UNCHANGED <<fieldVars, userVars, current, hand, checked, taskVars, calm>>

\* The text before the caret is read, if it can be, and must end with the
\* dictation; otherwise as many characters as were typed will go.
ReadsAnything == calm' = TRUE                                      \* mutant
ReadsText == EndsWith(field[focus], hand.text) /\ calm' = TRUE

Verifies ==
  /\ phase \in Deleting /\ ~checked
  /\ ReadsText \/ UNCHANGED calm
  /\ checked' = TRUE
  /\ UNCHANGED <<fieldVars, userVars, current, phase, hand, last, taskVars, doomed>>

Deletes ==
  /\ phase \in Deleting /\ checked
  /\ Erased
  /\ \/ phase = "takingBack" /\ last' = Nothing /\ Finished
     \/ phase = "replacing" /\ phase' = "retyping" /\ UNCHANGED <<last, hand, checked>>
  /\ UNCHANGED <<focus, userVars, current, taskVars, doomed, calm>>

\* The rewrite takes the place of the dictation, with nothing to learn.
RewrittenInName == [hand EXCEPT !.learn = FALSE]                   \* mutant
Rewritten == [hand EXCEPT !.text = current, !.learn = FALSE]

Retypes ==
  /\ phase = "retyping"
  /\ Typed(current)
  /\ last' = Rewritten /\ calm' = TRUE /\ Finished
  /\ UNCHANGED <<focus, userVars, current, taskVars, doomed>>

\* The model fails or leaves the text as it is, the text has changed, the field
\* cannot be read to its end.
GivesUp ==
  /\ phase \in {"rewriting"} \cup Deleting /\ ~checked
  /\ Finished
  /\ UNCHANGED <<fieldVars, userVars, current, last, taskVars, doomed, calm>>

\* The injector fails, before or after the keys went out.  `last` stays as it
\* was, also where its text has been deleted by now.
InjectionFails ==
  /\ phase \in {"composing", "retyping"} \/ (phase \in Deleting /\ checked)
  /\ \/ UNCHANGED field
     \/ IF phase \in Deleting THEN Erased ELSE Typed(current)
  /\ calm' = (calm /\ field' = field /\ phase # "retyping")
  /\ Finished
  /\ UNCHANGED <<focus, userVars, current, last, taskVars, doomed>>
-----------------------------------------------------------------------------
(* The correction passes. *)

\* The timer that a dictation set only acts for that dictation.
Own(d) == last.seq = d

TimerFires(d) ==
  /\ d \in timers /\ timers' = timers \ {d}
  /\ IF Own(d) THEN BeginsPass ELSE UNCHANGED <<last, passes, begun>>
  /\ UNCHANGED <<fieldVars, userVars, current, phase, hand, checked, doomed, calm>>

\* The pass reads the field, learns what it finds, and is over.
PassReads(d) ==
  /\ d \in passes /\ passes' = passes \ {d}
  /\ UNCHANGED <<fieldVars, userVars, current, phase, hand, checked, last, timers, begun,
                 doomed, calm>>
-----------------------------------------------------------------------------
Init ==
  /\ field = [w \in Window |-> <<>>] /\ focus \in Window
  /\ spoken = 0 /\ keyed = [u \in Utt |-> None]
  /\ current = 0 /\ phase = "idle" /\ hand = Nothing /\ checked = FALSE
  /\ last = Nothing
  /\ timers = {} /\ passes = {}
  /\ doomed = {} /\ begun = {} /\ calm = FALSE

Next == \/ Speaks \/ UserTypes \/ UserDeletes \/ FocusMoves
        \/ Dictates \/ Types \/ Remembers
        \/ PassedOver \/ Scratches \/ Edits \/ Rewrites
        \/ Verifies \/ Deletes \/ Retypes \/ GivesUp \/ InjectionFails
        \/ \E d \in Utt : TimerFires(d) \/ PassReads(d)

Spec == Init /\ [][Next]_vars
-----------------------------------------------------------------------------
(* Properties. *)

\* What parla deletes is the text it means to delete, if the user has left the
\* field and the focus alone since it was checked or, unchecked, since it was
\* typed: through edits of edits, and after keys that failed to go out.  The
\* exception is an edit that failed between its deletion and its rewrite
\* (verified_backspace, executor.rs:456, with the bookkeeping of scratch and edit).
TakesBackItsOwn ==
  [][Deletes /\ calm => EndsWith(field[focus], hand.text)]_vars

\* No correction pass begins for text that parla has set about deleting
\* (disarm_learn, router.rs:273).
PassNotAfterRewrite == [][(begun' \ begun) \cap doomed = {}]_vars

\* A pass begins when the next dictation does, or at its own timer
\* (router.rs:204 and 257).
PassAtItsTime == [][\A d \in begun' \ begun : phase' = "composing" \/ d \in timers \ timers']_vars

\* A pass that waits has not begun yet, and its timer is still to come: it is
\* neither run twice nor forgotten (take in dictate and in the timer).
WaitsOnce == last.learn => last.seq \notin begun /\ last.seq \in timers
=============================================================================
