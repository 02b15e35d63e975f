---------------------------- MODULE TypingProofs ----------------------------
(***************************************************************************)
(* Proofs about what is typed.  About Dictation, for every set of windows,  *)
(* every number of utterances and every length of the user's text; and,     *)
(* below it, about Injection, for every keymap, text and chord, every size  *)
(* of a text event and every number of attempts to connect.                 *)
(***************************************************************************)
EXTENDS Dictation, Injection, SequenceTheorems, FiniteSetTheorems, WellFoundedInduction,
        NaturalsInduction, TLAPS

Working == Deleting \cup {"rewriting", "retyping"}

\* A scratch or an edit works on the dictation that is remembered; only the pass
\* that waited for it may have begun since.
HandIsLast == phase \in Working => /\ last.text # 0
                                   /\ hand.text = last.text
                                   /\ hand.seq = last.seq

\* Once the text is to be deleted no pass waits for it.
IsDisarmed == phase \in Deleting \cup {"retyping"} => ~last.learn

\* A pass that waits is for text that parla has left alone.
WaitsForOwnText == last.learn => last.seq \notin doomed

\* Dictations are numbered in the order they are typed; the one being typed
\* has left no trace yet.
Numbered == /\ \A d \in timers \cup begun \cup doomed : d <= current
            /\ last.seq <= current
            /\ phase # "idle" => current \in Utt
            /\ phase \in {"composing", "typed"} =>
                 current \notin timers \cup begun \cup doomed

\* The field ends with what was typed last, while nobody has disturbed it, except
\* between the deletion of an edit and its rewrite.
FieldEnds == calm => /\ phase = "typed" => EndsWith(field[focus], current)
                     /\ phase \notin {"typed", "retyping"} /\ last.text # 0
                          => EndsWith(field[focus], last.text)

Core == HandIsLast /\ IsDisarmed /\ WaitsForOwnText /\ Numbered /\ WaitsOnce /\ FieldEnds
Inv  == TypeOK /\ Core
-----------------------------------------------------------------------------
(* Operators. *)

\* Typing leaves a text that ends with what was typed.
LEMMA AppendEnds ==
  ASSUME NEW s \in Seq(Mark), NEW m \in Mark
  PROVE  Append(s, m) \in Seq(Mark) /\ EndsWith(Append(s, m), m)
<1>1. Append(s, m) \in Seq(Mark) /\ Len(Append(s, m)) = Len(s) + 1
  OBVIOUS
<1>2. Append(s, m)[Len(s) + 1] = m /\ Append(s, m) # <<>>
  OBVIOUS
<1> QED BY <1>1, <1>2 DEF EndsWith

\* Deleting a mark leaves a text.
LEMMA EraseTyped ==
  ASSUME NEW s \in Seq(Mark), s # <<>>
  PROVE  SubSeq(s, 1, Len(s) - 1) \in Seq(Mark)
OBVIOUS

\* What is typed goes to the end of the focused field.
LEMMA TypedField ==
  ASSUME TypeOK, NEW m \in Mark, Typed(m)
  PROVE  field' \in [Window -> Seq(Mark)] /\ EndsWith(field'[focus], m)
<1>1. field[focus] \in Seq(Mark) /\ focus \in Window
  BY DEF TypeOK
<1>2. Append(field[focus], m) \in Seq(Mark) /\ EndsWith(Append(field[focus], m), m)
  BY <1>1, AppendEnds
<1> QED BY <1>1, <1>2 DEF Typed, TypeOK

\* A backspace leaves fields of text.
LEMMA ErasedField == TypeOK /\ Erased => field' \in [Window -> Seq(Mark)]
<1> SUFFICES ASSUME TypeOK, Erased PROVE field' \in [Window -> Seq(Mark)]
  OBVIOUS
<1>1. field[focus] \in Seq(Mark) /\ focus \in Window
  BY DEF TypeOK
<1>2. (IF field[focus] = <<>> THEN field[focus]
       ELSE SubSeq(field[focus], 1, Len(field[focus]) - 1)) \in Seq(Mark)
  BY <1>1, EraseTyped
<1> QED BY <1>1, <1>2 DEF Erased, TypeOK

\* A memory with its pass taken, or with another text, is a memory.
LEMMA MemoryKept ==
  ASSUME NEW r \in Memory \cup {Nothing}
  PROVE  /\ [r EXCEPT !.learn = FALSE] \in Memory \cup {Nothing}
         /\ [r EXCEPT !.learn = FALSE].text = r.text
         /\ [r EXCEPT !.learn = FALSE].seq = r.seq
         /\ [r EXCEPT !.learn = FALSE].learn = FALSE
         /\ r.learn \in BOOLEAN
         /\ r.text \in Nat /\ r.seq \in Nat
         /\ r.text # 0 <=> r # Nothing
         /\ r # Nothing => r.text \in Utt /\ r.seq \in Utt
         /\ r.learn => r.seq \in Utt
<1>1. CASE r = Nothing
  <2>1. r.text = 0 /\ r.seq = 0 /\ r.learn \in BOOLEAN /\ ~r.learn
    BY <1>1 DEF Nothing
  <2>2. r \in [text : {0}, window : {None}, seq : {0}, learn : {FALSE}]
    BY <1>1 DEF Nothing
  <2>3. [r EXCEPT !.learn = FALSE] = r
    BY <2>1, <2>2
  <2>4. /\ [r EXCEPT !.learn = FALSE].text = r.text
        /\ [r EXCEPT !.learn = FALSE].seq = r.seq
        /\ [r EXCEPT !.learn = FALSE].learn = FALSE
    BY <2>1, <2>2
  <2>5. [r EXCEPT !.learn = FALSE] \in Memory \cup {Nothing}
    BY <2>3
  <2>6. r.text \in Nat /\ r.seq \in Nat
    BY <2>1
  <2>7. r.text = 0 /\ r = Nothing
    BY <1>1, <2>1
  <2> QED BY <2>1, <2>4, <2>5, <2>6, <2>7, Zenon
<1>2. CASE r \in Memory
  <2>1. r.text \in Utt /\ r.seq \in Utt /\ r.learn \in BOOLEAN
    BY <1>2 DEF Memory
  <2>2. [r EXCEPT !.learn = FALSE] \in Memory
    BY <1>2 DEF Memory
  <2>3. \A u \in Utt : u \in Nat /\ u # 0
    BY DictationAssumption DEF Utt
  <2>4. r # Nothing
    BY <2>1, <2>3 DEF Nothing
  <2>5. /\ [r EXCEPT !.learn = FALSE].text = r.text
        /\ [r EXCEPT !.learn = FALSE].seq = r.seq
        /\ [r EXCEPT !.learn = FALSE].learn = FALSE
    BY <1>2 DEF Memory
  <2> QED BY <2>1, <2>2, <2>3, <2>4, <2>5
<1> QED BY <1>1, <1>2

\* What the end of a dictation's wait does to its memory, its pass and the rest.
LEMMA PassBegun ==
  ASSUME TypeOK, BeginsPass
  PROVE  /\ last' \in Memory \cup {Nothing} /\ ~last'.learn
         /\ last'.text = last.text /\ last'.seq = last.seq
         /\ passes' \subseteq Utt /\ begun' \subseteq Utt
         /\ begun \subseteq begun' /\ begun' \subseteq begun \cup {last.seq}
         /\ ~last.learn => begun' = begun
<1>1. last \in Memory \cup {Nothing}
  BY DEF TypeOK
<1>2. last' = [last EXCEPT !.learn = FALSE]
  BY DEF BeginsPass
<1>3. last' \in Memory \cup {Nothing} /\ ~last'.learn /\ last'.text = last.text /\ last'.seq = last.seq
  BY <1>1, <1>2, MemoryKept
<1>4. last.learn \in BOOLEAN /\ (last.learn => last.seq \in Utt)
  BY <1>1, MemoryKept
<1>5. CASE last.learn
  BY <1>3, <1>4, <1>5 DEF BeginsPass, TypeOK
<1>6. CASE ~last.learn
  BY <1>3, <1>6 DEF BeginsPass, TypeOK
<1> QED BY <1>4, <1>5, <1>6

\* What forgetting a pass does.
LEMMA PassDropped ==
  ASSUME TypeOK, last # Nothing, Disarmed
  PROVE  /\ last' \in Memory \cup {Nothing} /\ ~last'.learn
         /\ last'.text = last.text /\ last'.seq = last.seq
         /\ doomed' \subseteq Utt /\ doomed' = doomed \cup {last.seq}
<1>1. last \in Memory \cup {Nothing}
  BY DEF TypeOK
<1> QED BY <1>1, MemoryKept DEF Disarmed, TypeOK
-----------------------------------------------------------------------------
(* Types. *)

\* Types are kept.
LEMMA TypeKept == Inv /\ [Next]_vars => TypeOK'
<1> SUFFICES ASSUME Inv, [Next]_vars PROVE TypeOK'
  OBVIOUS
<1>0. TypeOK
  BY DEF Inv
<1>a. MaxUtt \in Nat \ {0} /\ spoken \in Nat /\ current \in Nat
      /\ (current < spoken => current + 1 \in 0 .. spoken /\ current + 1 \in Utt)
  BY <1>0, DictationAssumption DEF TypeOK, Utt
<1>b. phase # "idle" => current \in Utt
  BY DEF Inv, Core, Numbered
<1> USE DEF userVars, fieldVars, taskVars, Phases, Deleting
<1>1. CASE Speaks
  <2>1. spoken' \in 0 .. MaxUtt /\ current' \in 0 .. spoken'
    BY <1>0, <1>1, <1>a DEF Speaks, TypeOK
  <2>2. keyed' \in [Utt -> Window \cup {None}]
    BY <1>0, <1>1 DEF Speaks, TypeOK
  <2> QED BY <1>0, <1>1, <2>1, <2>2 DEF Speaks, TypeOK
<1>2. CASE UserTypes
  <2>1. field' \in [Window -> Seq(Mark)]
    BY <1>0, <1>2, TypedField DEF UserTypes, Mark
  <2> QED BY <1>0, <1>2, <2>1 DEF UserTypes, Disturbed, TypeOK
<1>3. CASE UserDeletes
  <2>1. field' \in [Window -> Seq(Mark)]
    BY <1>0, <1>3, ErasedField DEF UserDeletes
  <2> QED BY <1>0, <1>3, <2>1 DEF UserDeletes, Disturbed, TypeOK
<1>4. CASE FocusMoves
  BY <1>0, <1>4 DEF FocusMoves, Disturbed, TypeOK
<1>5. CASE Dictates
  BY <1>0, <1>5, <1>a, PassBegun DEF Dictates, Takes, TypeOK
<1>6. CASE Types
  <2>1. field' \in [Window -> Seq(Mark)]
    BY <1>0, <1>6, <1>b, TypedField DEF Types, Mark
  <2> QED BY <1>0, <1>6, <2>1 DEF Types, TypeOK
<1>7. CASE Remembers
  <2>1. current \in Utt /\ keyed[current] \in Window \cup {None}
    BY <1>0, <1>7, <1>b DEF Remembers, TypeOK
  <2>2. last' \in Memory /\ timers' \subseteq Utt
    BY <1>0, <1>7, <2>1 DEF Remembers, TypeOK, Memory
  <2> QED BY <1>0, <1>7, <2>2 DEF Remembers, Finished, TypeOK
<1>8. CASE PassedOver
  BY <1>0, <1>8, <1>a DEF PassedOver, Takes, TypeOK
<1>9. CASE Scratches
  BY <1>0, <1>9, <1>a, PassDropped DEF Scratches, Takes, Recent, TypeOK
<1>10. CASE Edits
  BY <1>0, <1>10, <1>a DEF Edits, Takes, TypeOK
<1>11. CASE Rewrites
  <2>1. last # Nothing
    BY <1>0, <1>11, MemoryKept DEF Inv, Core, HandIsLast, Working, Rewrites, TypeOK
  <2> QED BY <1>0, <1>11, <2>1, PassDropped DEF Rewrites, TypeOK
<1>12. CASE Verifies
  BY <1>0, <1>12 DEF Verifies, ReadsText, TypeOK
<1>13. CASE Deletes
  <2>1. field' \in [Window -> Seq(Mark)]
    BY <1>0, <1>13, ErasedField DEF Deletes
  <2> QED BY <1>0, <1>13, <2>1 DEF Deletes, Finished, TypeOK
<1>14. CASE Retypes
  <2>1. field' \in [Window -> Seq(Mark)]
    BY <1>0, <1>14, <1>b, TypedField DEF Retypes, Mark
  <2>2. hand \in Memory /\ current \in Utt
    BY <1>0, <1>14, <1>b, MemoryKept DEF Retypes, Inv, Core, HandIsLast, Working, TypeOK
  <2>3. last' \in Memory
    BY <1>14, <2>2 DEF Retypes, Rewritten, Memory
  <2> QED BY <1>0, <1>14, <2>1, <2>3 DEF Retypes, Finished, TypeOK
<1>15. CASE GivesUp
  BY <1>0, <1>15 DEF GivesUp, Finished, TypeOK
<1>16. CASE InjectionFails
  <2>1. field' \in [Window -> Seq(Mark)]
    BY <1>0, <1>16, <1>b, TypedField, ErasedField DEF InjectionFails, Mark, TypeOK
  <2> QED BY <1>0, <1>16, <2>1 DEF InjectionFails, Finished, TypeOK
<1>17. ASSUME NEW d \in Utt, TimerFires(d) PROVE TypeOK'
  BY <1>0, <1>17, PassBegun DEF TimerFires, TypeOK
<1>18. ASSUME NEW d \in Utt, PassReads(d) PROVE TypeOK'
  BY <1>0, <1>18 DEF PassReads, TypeOK
<1>19. CASE UNCHANGED vars
  BY <1>0, <1>19 DEF vars, TypeOK
<1> QED BY <1>1, <1>2, <1>3, <1>4, <1>5, <1>6, <1>7, <1>8, <1>9, <1>10, <1>11, <1>12,
           <1>13, <1>14, <1>15, <1>16, <1>17, <1>18, <1>19 DEF Next
-----------------------------------------------------------------------------
(* The invariant, one part at a time. *)

\* The fields that Inv relates are of their types.
LEMMA Values ==
  ASSUME Inv
  PROVE  /\ spoken \in Nat /\ current \in Nat /\ MaxUtt \in Nat /\ Utt \subseteq Nat
         /\ last \in Memory \cup {Nothing} /\ hand \in Memory \cup {Nothing}
         /\ last.seq \in Nat /\ last.text \in Nat /\ last.learn \in BOOLEAN
         /\ timers \subseteq Nat /\ begun \subseteq Nat /\ doomed \subseteq Nat
<1>1. TypeOK
  BY DEF Inv
<1>2. MaxUtt \in Nat /\ Utt \subseteq Nat /\ spoken \in Nat /\ current \in Nat
  BY <1>1, DictationAssumption DEF TypeOK, Utt
<1>3. last \in Memory \cup {Nothing} /\ hand \in Memory \cup {Nothing}
  BY <1>1 DEF TypeOK
<1>4. last.seq \in Nat /\ last.text \in Nat /\ last.learn \in BOOLEAN
  BY <1>3, MemoryKept
<1> QED BY <1>1, <1>2, <1>3, <1>4 DEF TypeOK

\* What is worked on stays the remembered dictation, and no pass waits for text
\* that is being deleted.
LEMMA HandKept == Inv /\ [Next]_vars => HandIsLast' /\ IsDisarmed' /\ WaitsForOwnText'
<1> SUFFICES ASSUME Inv, [Next]_vars PROVE HandIsLast' /\ IsDisarmed' /\ WaitsForOwnText'
  OBVIOUS
<1>0. TypeOK /\ HandIsLast /\ IsDisarmed /\ WaitsForOwnText /\ Numbered
  BY DEF Inv, Core
<1> USE DEF userVars, fieldVars, taskVars, Working, Deleting,
            HandIsLast, IsDisarmed, WaitsForOwnText
<1>1. CASE Speaks
  BY <1>0, <1>1 DEF Speaks
<1>2. CASE UserTypes \/ UserDeletes \/ FocusMoves
  BY <1>0, <1>2 DEF UserTypes, UserDeletes, FocusMoves, Disturbed
<1>5. CASE Dictates
  BY <1>0, <1>5, PassBegun DEF Dictates
<1>6. CASE Types
  BY <1>0, <1>6 DEF Types
<1>7. CASE Remembers
  BY <1>0, <1>7 DEF Remembers, Finished, Numbered
<1>8. CASE PassedOver
  BY <1>0, <1>8 DEF PassedOver, Takes
<1>9. CASE Scratches
  <2>1. last # Nothing /\ last.text # 0
    BY <1>9, Values, MemoryKept DEF Scratches, Recent
  <2> QED BY <1>0, <1>9, <2>1, PassDropped DEF Scratches
<1>10. CASE Edits
  <2>1. last.text # 0
    BY <1>10, Values, MemoryKept DEF Edits, Recent
  <2> QED BY <1>0, <1>10, <2>1 DEF Edits
<1>11. CASE Rewrites
  <2>1. last # Nothing
    BY <1>0, <1>11, Values, MemoryKept DEF Rewrites
  <2> QED BY <1>0, <1>11, <2>1, PassDropped DEF Rewrites
<1>12. CASE Verifies
  BY <1>0, <1>12 DEF Verifies
<1>13. CASE Deletes
  <2>1. CASE phase' = "idle" /\ last' = Nothing
    BY <1>0, <1>13, <2>1 DEF Deletes, Nothing
  <2>2. CASE phase \in Deleting /\ phase' = "retyping" /\ UNCHANGED <<last, hand>>
    BY <1>0, <1>13, <2>2 DEF Deletes
  <2> QED BY <1>13, <2>1, <2>2 DEF Deletes, Finished
<1>14. CASE Retypes
  <2>1. ~last'.learn
    BY <1>14, Values DEF Retypes, Rewritten, Memory, Nothing
  <2> QED BY <1>14, <2>1 DEF Retypes, Finished
<1>15. CASE GivesUp
  BY <1>0, <1>15 DEF GivesUp, Finished
<1>16. CASE InjectionFails
  BY <1>0, <1>16 DEF InjectionFails, Finished
<1>17. ASSUME NEW d \in Utt, TimerFires(d)
       PROVE HandIsLast' /\ IsDisarmed' /\ WaitsForOwnText'
  BY <1>0, <1>17, PassBegun DEF TimerFires
<1>18. ASSUME NEW d \in Utt, PassReads(d)
       PROVE HandIsLast' /\ IsDisarmed' /\ WaitsForOwnText'
  BY <1>0, <1>18 DEF PassReads
<1>19. CASE UNCHANGED vars
  BY <1>0, <1>19 DEF vars
<1> QED BY <1>1, <1>2, <1>5, <1>6, <1>7, <1>8, <1>9, <1>10, <1>11, <1>12,
           <1>13, <1>14, <1>15, <1>16, <1>17, <1>18, <1>19 DEF Next

\* Dictations stay numbered in order, and a pass waits once.
LEMMA WaitKept == Inv /\ [Next]_vars => Numbered' /\ WaitsOnce'
<1> SUFFICES ASSUME Inv, [Next]_vars PROVE Numbered' /\ WaitsOnce'
  OBVIOUS
<1>0. TypeOK /\ HandIsLast /\ Numbered /\ WaitsOnce
  BY DEF Inv, Core
<1>a. Takes => current' \in Utt /\ current' = current + 1
  BY <1>0, DictationAssumption DEF Takes, TypeOK, Utt
<1> USE Values DEF userVars, fieldVars, taskVars, Working, Deleting, Numbered, WaitsOnce
<1>1. CASE Speaks
  BY <1>0, <1>1 DEF Speaks
<1>2. CASE UserTypes \/ UserDeletes \/ FocusMoves
  BY <1>0, <1>2 DEF UserTypes, UserDeletes, FocusMoves, Disturbed
<1>5. CASE Dictates
  <2>1. last'.seq = last.seq /\ ~last'.learn /\ begun' \subseteq begun \cup {last.seq}
    BY <1>0, <1>5, PassBegun DEF Dictates
  <2> QED BY <1>0, <1>5, <1>a, <2>1 DEF Dictates
<1>6. CASE Types
  BY <1>0, <1>6 DEF Types
<1>7. CASE Remembers
  <2>1. last'.seq = current
    BY <1>7 DEF Remembers
  <2>2. last'.learn => timers' = timers \cup {current}
    BY <1>7 DEF Remembers
  <2>3. timers' \subseteq timers \cup {current}
    BY <1>7 DEF Remembers
  <2> QED BY <1>0, <1>7, <2>1, <2>2, <2>3 DEF Remembers, Finished
<1>8. CASE PassedOver
  BY <1>0, <1>8, <1>a DEF PassedOver, Takes
<1>9. CASE Scratches
  <2>1. last'.seq = last.seq /\ ~last'.learn /\ doomed' = doomed \cup {last.seq}
    BY <1>0, <1>9, PassDropped DEF Scratches, Recent
  <2> QED BY <1>0, <1>9, <1>a, <2>1 DEF Scratches
<1>10. CASE Edits
  BY <1>0, <1>10, <1>a DEF Edits
<1>11. CASE Rewrites
  <2>1. last # Nothing
    BY <1>0, <1>11, MemoryKept DEF Rewrites, HandIsLast
  <2>2. last'.seq = last.seq /\ ~last'.learn /\ doomed' = doomed \cup {last.seq}
    BY <1>0, <1>11, <2>1, PassDropped DEF Rewrites
  <2> QED BY <1>0, <1>11, <2>2 DEF Rewrites
<1>12. CASE Verifies
  BY <1>0, <1>12 DEF Verifies
<1>13. CASE Deletes
  <2>1. CASE phase' = "idle" /\ last' = Nothing
    BY <1>0, <1>13, <2>1 DEF Deletes, Nothing
  <2>2. CASE phase \in Deleting /\ phase' = "retyping" /\ UNCHANGED <<last, hand>>
    BY <1>0, <1>13, <2>2 DEF Deletes
  <2> QED BY <1>13, <2>1, <2>2 DEF Deletes, Finished
<1>14. CASE Retypes
  <2>1. last'.seq = last.seq /\ ~last'.learn
    BY <1>0, <1>14 DEF Retypes, Rewritten, HandIsLast, Memory, Nothing
  <2> QED BY <1>0, <1>14, <2>1 DEF Retypes, Finished
<1>15. CASE GivesUp
  BY <1>0, <1>15 DEF GivesUp, Finished
<1>16. CASE InjectionFails
  BY <1>0, <1>16 DEF InjectionFails, Finished
<1>17. ASSUME NEW d \in Utt, TimerFires(d) PROVE Numbered' /\ WaitsOnce'
  <2>1. CASE Own(d)
    <3>1. last'.seq = last.seq /\ ~last'.learn /\ begun' \subseteq begun \cup {d}
      BY <1>0, <1>17, <2>1, PassBegun DEF TimerFires, Own
    <3> QED BY <1>0, <1>17, <3>1 DEF TimerFires
  <2>2. CASE ~Own(d)
    BY <1>0, <1>17, <2>2 DEF TimerFires, Own
  <2> QED BY <2>1, <2>2
<1>18. ASSUME NEW d \in Utt, PassReads(d) PROVE Numbered' /\ WaitsOnce'
  BY <1>0, <1>18 DEF PassReads
<1>19. CASE UNCHANGED vars
  BY <1>0, <1>19 DEF vars
<1> QED BY <1>1, <1>2, <1>5, <1>6, <1>7, <1>8, <1>9, <1>10, <1>11, <1>12,
           <1>13, <1>14, <1>15, <1>16, <1>17, <1>18, <1>19 DEF Next

\* A failed injection leaves the fields as they were, or is told apart.
LEMMA FailedField ==
  ASSUME Inv, InjectionFails
  PROVE  phase' = "idle" /\ last' = last /\ (calm' => calm /\ field' = field /\ focus' = focus
                                             /\ phase \notin {"typed", "retyping"})
<1>1. phase # "typed"
  BY DEF InjectionFails, Deleting
<1>2. calm \in BOOLEAN
  BY DEF Inv, TypeOK
<1> QED BY <1>1, <1>2 DEF InjectionFails, Finished

\* A field that nobody disturbs ends with what was typed last.
LEMMA FieldKept == Inv /\ [Next]_vars => FieldEnds'
<1> SUFFICES ASSUME Inv, [Next]_vars PROVE FieldEnds'
  OBVIOUS
<1>0. TypeOK /\ HandIsLast /\ FieldEnds /\ (phase # "idle" => current \in Utt)
  BY DEF Inv, Core, Numbered
<1>a. Recent(current + 1) => last # Nothing /\ last.text # 0
  BY Values, MemoryKept DEF Recent
<1> USE DEF userVars, fieldVars, taskVars, FieldEnds
<1>1. CASE Speaks
  BY <1>0, <1>1 DEF Speaks
<1>2. CASE UserTypes \/ UserDeletes \/ FocusMoves
  BY <1>2 DEF UserTypes, UserDeletes, FocusMoves, Disturbed
<1>5. CASE Dictates
  BY <1>0, <1>5, PassBegun DEF Dictates, Takes
<1>6. CASE Types
  <2>1. EndsWith(field'[focus], current)
    BY <1>0, <1>6, TypedField DEF Types, Mark
  <2> QED BY <1>6, <2>1 DEF Types
<1>7. CASE Remembers
  BY <1>0, <1>7 DEF Remembers, Finished
<1>8. CASE PassedOver
  BY <1>0, <1>8 DEF PassedOver, Takes
<1>9. CASE Scratches
  <2>1. last'.text = last.text
    BY <1>0, <1>9, <1>a, PassDropped DEF Scratches
  <2> QED BY <1>0, <1>9, <2>1 DEF Scratches, Takes
<1>10. CASE Edits
  BY <1>0, <1>10 DEF Edits, Takes
<1>11. CASE Rewrites
  <2>1. last # Nothing
    BY <1>0, <1>11, Values, MemoryKept DEF Rewrites, HandIsLast, Working
  <2>2. last'.text = last.text
    BY <1>0, <1>11, <2>1, PassDropped DEF Rewrites
  <2> QED BY <1>0, <1>11, <2>2 DEF Rewrites
<1>12. CASE Verifies
  <2>1. hand.text = last.text /\ phase \notin {"typed", "retyping"}
    BY <1>0, <1>12 DEF Verifies, HandIsLast, Working, Deleting
  <2> QED BY <1>0, <1>12, <2>1 DEF Verifies, ReadsText
<1>13. CASE Deletes
  <2>1. CASE phase' = "idle" /\ last' = Nothing
    BY <2>1 DEF Nothing
  <2>2. CASE phase' = "retyping"
    BY <2>2
  <2> QED BY <1>13, <2>1, <2>2 DEF Deletes, Finished
<1>14. CASE Retypes
  <2>1. EndsWith(field'[focus], current)
    BY <1>0, <1>14, TypedField DEF Retypes, Mark
  <2>2. last'.text = current
    BY <1>14, Values DEF Retypes, Rewritten, Memory, Nothing
  <2> QED BY <1>14, <2>1, <2>2 DEF Retypes, Finished
<1>15. CASE GivesUp
  <2>1. phase \notin {"typed", "retyping"}
    BY <1>15 DEF GivesUp, Deleting
  <2> QED BY <1>0, <1>15, <2>1 DEF GivesUp, Finished
<1>16. CASE InjectionFails
  BY <1>0, <1>16, FailedField
<1>17. ASSUME NEW d \in Utt, TimerFires(d) PROVE FieldEnds'
  BY <1>0, <1>17, PassBegun DEF TimerFires
<1>18. ASSUME NEW d \in Utt, PassReads(d) PROVE FieldEnds'
  BY <1>0, <1>18 DEF PassReads
<1>19. CASE UNCHANGED vars
  BY <1>0, <1>19 DEF vars
<1> QED BY <1>1, <1>2, <1>5, <1>6, <1>7, <1>8, <1>9, <1>10, <1>11, <1>12,
           <1>13, <1>14, <1>15, <1>16, <1>17, <1>18, <1>19 DEF Next
-----------------------------------------------------------------------------
(* Theorems. *)

\* Init /\ steps: the invariant holds.
LEMMA Invariance == Spec => []Inv
<1>1. Init => Inv
  <2> SUFFICES ASSUME Init PROVE Inv
    OBVIOUS
  <2>1. <<>> \in Seq(Mark)
    OBVIOUS
  <2>2. TypeOK
    <3>1. field \in [Window -> Seq(Mark)] /\ keyed \in [Utt -> Window \cup {None}]
      BY <2>1 DEF Init
    <3>2. spoken \in 0 .. MaxUtt /\ current \in 0 .. spoken
      BY DictationAssumption DEF Init
    <3> QED BY <3>1, <3>2 DEF Init, TypeOK, Phases
  <2>3. Core
    BY DEF Init, Core, HandIsLast, IsDisarmed, WaitsForOwnText, Numbered, WaitsOnce,
           FieldEnds, Working, Deleting, Nothing
  <2> QED BY <2>2, <2>3 DEF Inv
<1>2. Inv /\ [Next]_vars => Inv'
  BY TypeKept, HandKept, WaitKept, FieldKept DEF Inv, Core
<1> QED BY <1>1, <1>2, PTL DEF Spec

\* Every variable of the dictation memory keeps its type.
THEOREM DictationTyped == Spec => []TypeOK
BY Invariance, PTL DEF Inv

\* A pass that waits has not begun, and its timer is still to come
\* (router.rs:204-218 and 250-269).
THEOREM OncePerDictation == Spec => []WaitsOnce
BY Invariance, PTL DEF Inv, Core

\* The text of a pass that begins has been neither scratched nor rewritten by
\* parla (disarm_learn, router.rs:273).
THEOREM NotAfterRewrite == Spec => PassNotAfterRewrite
<1>1. Inv /\ [Next]_vars => (begun' \ begun) \cap doomed = {} \/ UNCHANGED vars
  <2> SUFFICES ASSUME Inv, Next PROVE (begun' \ begun) \cap doomed = {}
    OBVIOUS
  <2>0. TypeOK /\ WaitsForOwnText
    BY DEF Inv, Core
  <2>1. CASE BeginsPass
    BY <2>0, <2>1, PassBegun DEF WaitsForOwnText
  <2>2. CASE UNCHANGED begun
    BY <2>2
  <2>3. BeginsPass \/ UNCHANGED begun
    BY DEF Next, Speaks, UserTypes, UserDeletes, FocusMoves, Disturbed, Dictates, Types,
           Remembers, PassedOver, Scratches, Edits, Rewrites, Verifies, Deletes, Retypes,
           GivesUp, InjectionFails, TimerFires, PassReads, taskVars
  <2> QED BY <2>1, <2>2, <2>3
<1>2. Inv /\ [Next]_vars => [(begun' \ begun) \cap doomed = {}]_vars
  BY <1>1
<1> QED BY <1>2, Invariance, PTL DEF Spec, PassNotAfterRewrite

\* A pass begins as the next dictation is composed, or at the timer that its own
\* dictation set.
THEOREM AtItsTime == Spec => PassAtItsTime
<1>1. Inv /\ [Next]_vars =>
        (\A d \in begun' \ begun : phase' = "composing" \/ d \in timers \ timers') \/ UNCHANGED vars
  <2> SUFFICES ASSUME Inv, Next
               PROVE  \A d \in begun' \ begun : phase' = "composing" \/ d \in timers \ timers'
    OBVIOUS
  <2>0. TypeOK
    BY DEF Inv
  <2>1. CASE Dictates
    BY <2>1 DEF Dictates
  <2>2. ASSUME NEW d \in Utt, TimerFires(d)
        PROVE  \A e \in begun' \ begun : e \in timers \ timers'
    <3>1. begun' \subseteq begun \cup {d}
      BY <2>0, <2>2, PassBegun DEF TimerFires, Own
    <3>2. d \in timers \ timers'
      BY <2>2 DEF TimerFires
    <3> QED BY <3>1, <3>2
  <2>3. CASE UNCHANGED begun
    BY <2>3
  <2>4. Dictates \/ (\E d \in Utt : TimerFires(d)) \/ UNCHANGED begun
    BY DEF Next, Speaks, UserTypes, UserDeletes, FocusMoves, Disturbed, Types,
           Remembers, PassedOver, Scratches, Edits, Rewrites, Verifies, Deletes, Retypes,
           GivesUp, InjectionFails, PassReads, taskVars
  <2> QED BY <2>1, <2>2, <2>3, <2>4
<1>2. Inv /\ [Next]_vars =>
        [\A d \in begun' \ begun : phase' = "composing" \/ d \in timers \ timers']_vars
  BY <1>1
<1> QED BY <1>2, Invariance, PTL DEF Spec, PassAtItsTime

\* In a field that nobody has disturbed since it was checked or typed into, a
\* scratch or an edit deletes the dictation it works on (router.rs:422 and 454).
THEOREM OwnTextTakenBack == Spec => TakesBackItsOwn
<1>1. Inv => (Deletes /\ calm => EndsWith(field[focus], hand.text))
  BY Values DEF Inv, Core, FieldEnds, HandIsLast, Deletes, Working, Deleting
<1>2. Inv /\ [Next]_vars => [Deletes /\ calm => EndsWith(field[focus], hand.text)]_vars
  BY <1>1
<1> QED BY <1>2, Invariance, PTL DEF Spec, TakesBackItsOwn
-----------------------------------------------------------------------------
(* The injector: its invariant. *)

\* The worker has a command in hand whenever it could send or answer one.
HasCommand == \/ stage \in {"draining", "reading", "probing"}
              \/ stage \in {"dialling", "connecting"} /\ purpose # "start"
              => job \in Id

Underway == Range(got) \cup Range(pipe)

\* Commands are taken in the order they were given, and what is on its way or has landed
\* is of those taken; of the one in hand nothing is, until its burst is out.
InTurn ==
  /\ \A m, n \in DOMAIN queue : m < n => queue[m] < queue[n]
  /\ job # 0 => \A n \in DOMAIN queue : job < queue[n]
  /\ \A x \in Underway : \A n \in DOMAIN queue : x.by < queue[n]
  /\ job # 0 => \A x \in Underway : x.by < job \/ (stage = "reading" /\ x.by = job)

\* What is on its way is in the order it was written, and follows what has landed.
Earlier(x, y) == x.by < y.by \/ (x.by = y.by /\ x.nth < y.nth)
Streams ==
  /\ \A m, n \in DOMAIN pipe : m < n => Earlier(pipe[m], pipe[n])
  /\ \A x \in Range(got), y \in Range(pipe) : Earlier(x, y)

\* Whatever is down, or will be, has its release on its way.
ReleasedBy(p, n, x) == p[n].is = "release" /\ p[n].what = x
Rises(p) == \A m \in DOMAIN p : p[m].is = "press" =>
              \E n \in DOMAIN p : m < n /\ ReleasedBy(p, n, p[m].what)
KeysRise ==
  /\ kwin.paused => kwin.down = {}
  /\ \A x \in kwin.down : \E n \in DOMAIN pipe : ReleasedBy(pipe, n, x)
  /\ Rises(pipe)
-----------------------------------------------------------------------------
(* Numbers and sequences. *)

\* A set of natural numbers has a least one.
LEMMA Least ==
  ASSUME NEW T, T \subseteq Nat, T # {}
  PROVE  \E x \in T : \A y \in T : x <= y
<1> DEFINE R == OpToRel(<, Nat)
<1>1. PICK x \in T : \A y \in T : ~(<<y, x>> \in R)
  BY WFMin, NatLessThanWellFounded
<1>2. ASSUME NEW y \in T PROVE x <= y
  <2>1. y < x => <<y, x>> \in R
    BY DEF OpToRel
  <2> HIDE DEF R
  <2>2. ~(y < x)
    BY <1>1, <2>1
  <2> QED BY <2>2
<1> QED BY <1>2, Zenon

\* What a set without a least element has: nothing.
LEMMA Descent ==
  ASSUME NEW T, T \subseteq Nat, \A x \in T : \E y \in T : y < x
  PROVE  T = {}
<1> SUFFICES ASSUME T # {} PROVE FALSE
  OBVIOUS
<1>1. PICK x \in T : \A y \in T : x <= y
  BY Least, Zenon
<1>2. PICK y \in T : y < x
  BY <1>1
<1> QED BY <1>1, <1>2

\* The greatest of a bounded set of numbers.
LEMMA Greatest ==
  ASSUME NEW hi \in Nat, NEW S, S \subseteq 0 .. hi, S # {}
  PROVE  Max(S) \in S /\ \A x \in S : x <= Max(S)
<1> DEFINE T == {hi - x : x \in S}
<1>1. \A x \in S : hi - x \in Nat
  OBVIOUS
<1>2. PICK t \in T : \A y \in T : t <= y
  BY <1>1, Least
<1>3. PICK m \in S : t = hi - m
  OBVIOUS
<1>4. ASSUME NEW x \in S PROVE m >= x
  <2>1. t <= hi - x
    BY <1>2
  <2> QED BY <1>3, <2>1
<1>5. Max(S) \in S /\ \A x \in S : Max(S) >= x
  BY <1>4 DEF Max
<1>6. S \subseteq Int
  OBVIOUS
<1> QED BY <1>5, <1>6

\* A finite set as a sequence is one of its elements.
LEMMA SetInSequence ==
  ASSUME NEW S, IsFiniteSet(S)
  PROVE  SetToSeq(S) \in Seq(S)
<1>1. Cardinality(S) \in Nat /\ ExistsBijection(1 .. Cardinality(S), S)
  BY FS_CardinalityType
<1>2. \E f \in [1 .. Cardinality(S) -> S] : IsInjective(f)
  BY <1>1 DEF ExistsBijection, Bijection, Injection, IsInjective
<1>3. SetToSeq(S) \in [1 .. Cardinality(S) -> S]
  BY <1>2 DEF SetToSeq
<1> QED BY <1>1, <1>3
-----------------------------------------------------------------------------
(* Keymaps. *)

\* Keys are numbers.
LEMMA KeysAreNumbers == Key \subseteq Nat \ {0}
BY InjectionAssumption

\* Some place comes first.
LEMMA ForemostExists ==
  ASSUME NEW ps, ps \subseteq Place, ps # {}
  PROVE  Foremost(ps) \in ps
<1>1. ASSUME NEW p \in ps PROVE p.key \in Nat /\ p.level \in Nat
  <2>1. p \in Place
    OBVIOUS
  <2>2. p.key \in Key /\ p.level \in 1 .. 4
    BY <2>1 DEF Place
  <2>3. \A k \in Key : k \in Nat
    BY KeysAreNumbers
  <2>4. p.key \in Nat
    BY <2>2, <2>3, Zenon
  <2>5. p.level \in Nat
    BY <2>2
  <2> QED BY <2>4, <2>5
<1> DEFINE K == {p.key : p \in ps}
<1>2. PICK k \in K : \A x \in K : k <= x
  BY <1>1, Least
<1> DEFINE L == {p.level : p \in {q \in ps : q.key = k}}
<1>3. L # {} /\ L \subseteq Nat
  BY <1>1, <1>2
<1>4. PICK l \in L : \A x \in L : l <= x
  BY <1>3, Least
<1>5. PICK p \in ps : p.key = k /\ p.level = l
  BY <1>4
<1>6. ASSUME NEW q \in ps PROVE p.key < q.key \/ (p.key = q.key /\ p.level <= q.level)
  <2>1. k <= q.key /\ k \in Nat /\ q.key \in Nat
    BY <1>1, <1>2
  <2>2. CASE q.key = k
    <3>1. q.level \in L
      BY <2>2
    <3>2. l <= q.level
      BY <1>4, <3>1
    <3> QED BY <1>5, <2>2, <3>2
  <2>3. CASE q.key # k
    BY <1>5, <2>1, <2>3
  <2> QED BY <2>2, <2>3
<1> QED BY <1>5, <1>6 DEF Foremost

\* Where a symbol is looked for it is found at a place of the keyboard, or nowhere.
LEMMA Located ==
  ASSUME NEW m, NEW g, NEW s
  PROVE  Locate(m, g, s) \in Place \cup {Nowhere}
<1>1. Places(m, g, s) \subseteq Place /\ Places(m, 1, s) \subseteq Place
  BY DEF Places
<1>2. Places(m, g, s) # {} => Foremost(Places(m, g, s)) \in Place
  BY <1>1, ForemostExists
<1>3. Foremost(Places(m, 1, s)) \in Place \cup {Nowhere}
  <2>1. CASE Places(m, 1, s) = {}
    BY <2>1 DEF Foremost
  <2>2. CASE Places(m, 1, s) # {}
    BY <1>1, <2>2, ForemostExists
  <2> QED BY <2>1, <2>2
<1> QED BY <1>2, <1>3 DEF Locate

\* A modifier has one key, or none.
LEMMA ModifierKey ==
  ASSUME NEW m, NEW s
  PROVE  IsFiniteSet(FindModifier(m, s)) /\ FindModifier(m, s) \subseteq Key
<1> DEFINE ps == {q \in Places(m, 1, s) : q.level = 1}
           first == Foremost(ps)
<1>1. ps \subseteq Place
  BY DEF Places
<1>2. first \in Place \cup {Nowhere}
  <2>1. CASE ps = {}
    BY <2>1 DEF Foremost
  <2>2. CASE ps # {}
    BY <1>1, <2>2, ForemostExists
  <2> QED BY <2>1, <2>2
<1>3. FindModifier(m, s) = {p.key : p \in {first} \ {Nowhere}}
  BY DEF FindModifier
<1> HIDE DEF ps, first
<1>4. CASE first = Nowhere
  <2>1. FindModifier(m, s) = {}
    BY <1>3, <1>4
  <2> QED BY <2>1, FS_EmptySet
<1>5. CASE first # Nowhere
  <2>1. FindModifier(m, s) = {first.key}
    BY <1>3, <1>5
  <2>2. first.key \in Key
    BY <1>2, <1>5 DEF Place
  <2> QED BY <2>1, <2>2, FS_Singleton
<1> QED BY <1>4, <1>5

\* A character is typed with keys of the keyboard.
LEMMA FingeringTyped ==
  ASSUME NEW m, NEW p \in Place
  PROVE  Fingering(m, p) \in Seq(Key)
<1> DEFINE A == IF p.level \in {2, 4} THEN FindModifier(m, "shift") ELSE {}
           B == IF p.level \in {3, 4} THEN FindModifier(m, "altgr") ELSE {}
<1>1. IsFiniteSet(A) /\ A \subseteq Key /\ IsFiniteSet(B) /\ B \subseteq Key
  BY ModifierKey, FS_EmptySet
<1>2. Fingering(m, p) = SetToSeq(A) \o SetToSeq(B) \o <<p.key>>
  BY DEF Fingering
<1> HIDE DEF A, B
<1>3. SetToSeq(A) \in Seq(Key) /\ SetToSeq(B) \in Seq(Key)
  BY <1>1, SetInSequence, SeqMonotonic
<1>4. <<p.key>> \in Seq(Key)
  BY DEF Place
<1> QED BY <1>2, <1>3, <1>4

-----------------------------------------------------------------------------
(* Bursts. *)

\* An event of a burst, before it goes out.
Raw == [is : {"press", "release"}, what : Stroke] \cup [is : {"utf8"}, what : Seq(Char)]

\* A burst after a burst: what rises in each rises in both.
LEMMA RisesTogether ==
  ASSUME NEW S, NEW a \in Seq(S), NEW b \in Seq(S), Rises(a), Rises(b)
  PROVE  a \o b \in Seq(S) /\ Rises(a \o b)
<1>1. /\ a \o b \in Seq(S) /\ Len(a \o b) = Len(a) + Len(b)
      /\ \A i \in 1 .. Len(a) + Len(b) : (a \o b)[i] = IF i <= Len(a) THEN a[i] ELSE b[i - Len(a)]
  BY ConcatProperties
<1> DEFINE c == a \o b
<1>2. Len(a) \in Nat /\ Len(b) \in Nat /\ DOMAIN a = 1 .. Len(a) /\ DOMAIN b = 1 .. Len(b)
  OBVIOUS
<1>3. DOMAIN c = 1 .. Len(a) + Len(b)
  BY <1>1, <1>2
<1> HIDE DEF c
<1>4. \A i \in 1 .. Len(a) : c[i] = a[i] /\ i \in DOMAIN c
  BY <1>1, <1>2, <1>3 DEF c
<1>5. \A i \in 1 .. Len(b) : c[i + Len(a)] = b[i] /\ i + Len(a) \in DOMAIN c
  <2>1. ASSUME NEW i \in 1 .. Len(b) PROVE c[i + Len(a)] = b[i] /\ i + Len(a) \in DOMAIN c
    <3>1. i + Len(a) \in 1 .. Len(a) + Len(b) /\ ~(i + Len(a) <= Len(a)) /\ (i + Len(a)) - Len(a) = i
      BY <1>2
    <3> QED BY <1>1, <1>3, <3>1 DEF c
  <2> QED BY <2>1
<1>6. ASSUME NEW m \in DOMAIN c, c[m].is = "press"
      PROVE  \E n \in DOMAIN c : m < n /\ ReleasedBy(c, n, c[m].what)
  <2>1. CASE m <= Len(a)
    <3>1. m \in DOMAIN a /\ c[m] = a[m]
      BY <1>2, <1>3, <1>4, <2>1
    <3>2. PICK n \in DOMAIN a : m < n /\ ReleasedBy(a, n, a[m].what)
      BY <1>6, <3>1 DEF Rises
    <3>3. c[n] = a[n] /\ n \in DOMAIN c
      BY <1>2, <1>4
    <3> QED BY <3>1, <3>2, <3>3 DEF ReleasedBy
  <2>2. CASE ~(m <= Len(a))
    <3>1. m - Len(a) \in 1 .. Len(b) /\ (m - Len(a)) + Len(a) = m /\ m \in Nat
      BY <1>2, <1>3, <2>2
    <3>2. c[m] = b[m - Len(a)]
      BY <1>5, <3>1
    <3>3. PICK n \in DOMAIN b : m - Len(a) < n /\ ReleasedBy(b, n, b[m - Len(a)].what)
      BY <1>2, <1>6, <3>1, <3>2 DEF Rises
    <3>4. c[n + Len(a)] = b[n] /\ n + Len(a) \in DOMAIN c
      BY <1>2, <1>5
    <3>5. m < n + Len(a)
      BY <1>2, <3>1, <3>3
    <3> QED BY <3>2, <3>3, <3>4, <3>5 DEF ReleasedBy
  <2> QED BY <2>1, <2>2
<1> QED BY <1>1, <1>6 DEF Rises, c

\* What presses nothing rises.
LEMMA NothingPressed ==
  ASSUME NEW b, \A n \in DOMAIN b : b[n].is # "press"
  PROVE  Rises(b)
BY DEF Rises

\* Keys that go down in turn come up again.
LEMMA StrokesRise ==
  ASSUME NEW ks \in Seq(Stroke)
  PROVE  Strokes(ks) \in Seq(Raw) /\ Rises(Strokes(ks))
<1> DEFINE N == Len(ks)
           a == [i \in DOMAIN ks |-> Press(ks[i])]
           b == [i \in DOMAIN ks |-> Release(Reverse(ks)[i])]
           c == a \o b
<1>1. N \in Nat /\ DOMAIN ks = 1 .. N /\ \A i \in 1 .. N : ks[i] \in Stroke
  OBVIOUS
<1>2. ASSUME NEW i \in 1 .. N
      PROVE  Reverse(ks)[i] = ks[(N - i) + 1] /\ (N - i) + 1 \in 1 .. N
  BY <1>1 DEF Reverse
<1>3. \A x \in Stroke : Press(x) \in Raw /\ Release(x) \in Raw
  BY DEF Press, Release, Raw
<1>4. a \in Seq(Raw) /\ Len(a) = N /\ \A i \in 1 .. N : a[i] = Press(ks[i])
  <2>1. \A i \in 1 .. N : Press(ks[i]) \in Raw
    BY <1>1, <1>3
  <2>2. a \in [1 .. N -> Raw]
    BY <1>1, <2>1
  <2> QED BY <1>1, <2>2
<1>5. b \in Seq(Raw) /\ Len(b) = N /\ \A i \in 1 .. N : b[i] = Release(ks[(N - i) + 1])
  <2>1. \A i \in 1 .. N : Release(Reverse(ks)[i]) \in Raw
    BY <1>1, <1>2, <1>3
  <2>2. b \in [1 .. N -> Raw]
    BY <1>1, <2>1
  <2> QED BY <1>1, <1>2, <2>2
<1>6. Strokes(ks) = c
  BY DEF Strokes
<1> HIDE DEF a, b, N
<1>7. /\ c \in Seq(Raw) /\ Len(c) = N + N
      /\ \A i \in 1 .. N + N : c[i] = IF i <= N THEN a[i] ELSE b[i - N]
  <2>1. /\ a \o b \in Seq(Raw) /\ Len(a \o b) = Len(a) + Len(b)
        /\ \A i \in 1 .. Len(a) + Len(b) : (a \o b)[i] = IF i <= Len(a) THEN a[i] ELSE b[i - Len(a)]
    BY <1>4, <1>5, ConcatProperties
  <2> QED BY <1>4, <1>5, <2>1
<1> HIDE DEF c
<1>8. DOMAIN c = 1 .. N + N
  BY <1>7
<1>9. ASSUME NEW m \in DOMAIN c, c[m].is = "press"
      PROVE  \E n \in DOMAIN c : m < n /\ ReleasedBy(c, n, c[m].what)
  <2>1. m <= N
    <3>1. SUFFICES ASSUME ~(m <= N) PROVE FALSE
      OBVIOUS
    <3>2. m - N \in 1 .. N /\ c[m] = b[m - N]
      BY <1>1, <1>7, <1>8, <3>1
    <3> QED BY <1>5, <1>9, <3>2 DEF Release
  <2>2. m \in 1 .. N /\ c[m] = Press(ks[m])
    BY <1>1, <1>4, <1>7, <1>8, <2>1
  <2> DEFINE n == N + ((N - m) + 1)
  <2>3. n \in 1 .. N + N /\ ~(n <= N) /\ n - N = (N - m) + 1 /\ (N - m) + 1 \in 1 .. N /\ m < n
        /\ (N - ((N - m) + 1)) + 1 = m
    BY <1>1, <2>2
  <2>4. c[n] = b[(N - m) + 1]
    BY <1>7, <2>3
  <2>5. c[n] = Release(ks[m])
    BY <1>5, <2>3, <2>4
  <2> QED BY <1>8, <2>2, <2>3, <2>5 DEF ReleasedBy, Press, Release
<1> QED BY <1>6, <1>7, <1>9 DEF Rises

\* The same for keycodes.
LEMMA KeysRiseAgain ==
  ASSUME NEW ks \in Seq(Key)
  PROVE  OnKeys(ks) \in Seq(Raw) /\ Rises(OnKeys(ks))
<1> DEFINE ss == [n \in DOMAIN ks |-> OnKey(ks[n])]
<1>1. \A k \in Key : OnKey(k) \in Stroke
  BY DEF OnKey, Stroke
<1>2. Len(ks) \in Nat /\ DOMAIN ks = 1 .. Len(ks) /\ \A n \in 1 .. Len(ks) : ks[n] \in Key
  OBVIOUS
<1>3. ss \in [1 .. Len(ks) -> Stroke]
  BY <1>1, <1>2
<1>4. ss \in Seq(Stroke)
  BY <1>2, <1>3
<1> HIDE DEF ss
<1>5. Strokes(ss) \in Seq(Raw) /\ Rises(Strokes(ss))
  BY <1>4, StrokesRise
<1> QED BY <1>5 DEF OnKeys, ss

\* The recursion of FlattenSeq, up to a length.
Joined(ss, m, f) == f = [i \in 1 .. m |-> IF i = 1 THEN ss[i] ELSE f[i - 1] \o ss[i]]

\* It has a solution for every length.
LEMMA JoinedExists ==
  ASSUME NEW ss, NEW m \in Nat
  PROVE  \E f : Joined(ss, m, f)
<1> DEFINE T == {k \in Nat : ~\E f : Joined(ss, k, f)}
<1>1. ASSUME NEW k \in T PROVE \E j \in T : j < k
  <2>1. k # 0
    <3>1. Joined(ss, 0, <<>>)
      BY DEF Joined
    <3> QED BY <3>1
  <2>2. k - 1 \in Nat /\ k - 1 < k
    BY <2>1
  <2>3. ASSUME NEW g, Joined(ss, k - 1, g) PROVE FALSE
    <3> DEFINE f == [n \in 1 .. k |-> IF n < k THEN g[n] ELSE IF k = 1 THEN ss[k] ELSE g[k - 1] \o ss[k]]
    <3>1. \A n \in 1 .. (k - 1) : f[n] = g[n]
      BY <2>2
    <3>2. f[k] = IF k = 1 THEN ss[k] ELSE g[k - 1] \o ss[k]
      BY <2>1
    <3>3. f = [n \in 1 .. k |-> f[n]]
      OBVIOUS
    <3> HIDE DEF f
    <3>4. \A n \in 1 .. (k - 1) : g[n] = IF n = 1 THEN ss[n] ELSE g[n - 1] \o ss[n]
      BY <2>3 DEF Joined
    <3>5. ASSUME NEW n \in 1 .. k
          PROVE  f[n] = IF n = 1 THEN ss[n] ELSE f[n - 1] \o ss[n]
      <4>1. CASE n = 1 /\ n # k
        <5>1. n \in 1 .. (k - 1)
          BY <2>2, <4>1
        <5> QED BY <3>1, <3>4, <4>1, <5>1
      <4>2. CASE n = k
        <5>1. n # 1 => f[n - 1] = g[k - 1]
          BY <2>2, <3>1, <4>2
        <5> QED BY <3>2, <4>2, <5>1
      <4>3. CASE n # 1 /\ n # k
        <5>1. n \in 1 .. (k - 1) /\ n - 1 \in 1 .. (k - 1)
          BY <2>2, <4>3
        <5>2. f[n] = g[n] /\ f[n - 1] = g[n - 1]
          BY <3>1, <5>1
        <5> QED BY <3>4, <4>3, <5>1, <5>2
      <4> QED BY <4>1, <4>2, <4>3
    <3>6. Joined(ss, k, f)
      BY <3>3, <3>5 DEF Joined
    <3> QED BY <3>6
  <2> QED BY <2>2, <2>3
<1> HIDE DEF T
<1>2. T \subseteq Nat
  BY DEF T
<1>3. T = {}
  BY <1>1, <1>2, Descent
<1> QED BY <1>3 DEF T

\* A text whose every character's keys rise does.
LEMMA FlattenedRises ==
  ASSUME NEW ss \in Seq(Seq(Raw)), \A n \in DOMAIN ss : Rises(ss[n])
  PROVE  FlattenSeq(ss) \in Seq(Raw) /\ Rises(FlattenSeq(ss))
<1>1. Len(ss) \in Nat /\ DOMAIN ss = 1 .. Len(ss) /\ \A n \in 1 .. Len(ss) : ss[n] \in Seq(Raw)
  OBVIOUS
<1>2. CASE Len(ss) = 0
  <2>1. FlattenSeq(ss) = <<>>
    BY <1>1, <1>2 DEF FlattenSeq
  <2>2. Rises(<<>>)
    BY NothingPressed
  <2> QED BY <2>1, <2>2
<1>3. CASE Len(ss) # 0
  <2> DEFINE f == CHOOSE g : Joined(ss, Len(ss), g)
  <2>1. FlattenSeq(ss) = f[Len(ss)]
    BY <1>3 DEF FlattenSeq, Joined
  <2>2. Joined(ss, Len(ss), f)
    BY <1>1, JoinedExists
  <2> HIDE DEF f
  <2> DEFINE T == {n \in 1 .. Len(ss) : ~(f[n] \in Seq(Raw) /\ Rises(f[n]))}
  <2>3. ASSUME NEW n \in T PROVE \E j \in T : j < n
    <3>1. f[n] = IF n = 1 THEN ss[n] ELSE f[n - 1] \o ss[n]
      BY <2>2 DEF Joined
    <3>2. ss[n] \in Seq(Raw) /\ Rises(ss[n])
      BY <1>1
    <3>3. n # 1
      BY <3>1, <3>2
    <3>4. n - 1 \in 1 .. Len(ss) /\ n - 1 < n
      BY <1>1, <3>3
    <3>5. ~(f[n - 1] \in Seq(Raw) /\ Rises(f[n - 1]))
      BY <3>1, <3>2, <3>3, RisesTogether
    <3> QED BY <3>4, <3>5
  <2> HIDE DEF T
  <2>4. T \subseteq Nat
    BY DEF T
  <2>5. T = {}
    BY <2>3, <2>4, Descent
  <2>6. Len(ss) \in 1 .. Len(ss)
    BY <1>1, <1>3
  <2>7. f[Len(ss)] \in Seq(Raw) /\ Rises(f[Len(ss)])
    BY <2>5, <2>6 DEF T
  <2> QED BY <2>1, <2>7
<1> QED BY <1>2, <1>3

\* A character has its bytes, and no text none.
LEMMA BytesOfOne ==
  ASSUME NEW c \in Char
  PROVE  Bytes(<<c>>) = Width[c] /\ Width[c] \in 1 .. 4
<1> DEFINE one == <<c>>
           IsIt(f) == f = [n \in 0 .. Len(one) |-> IF n = 0 THEN 0 ELSE f[n - 1] + Width[one[n]]]
           it == [n \in 0 .. 1 |-> IF n = 0 THEN 0 ELSE 0 + Width[c]]
           f == CHOOSE g : IsIt(g)
<1>1. Len(one) = 1 /\ one[1] = c /\ Width[c] \in 1 .. 4
  BY InjectionAssumption
<1>2. IsIt(it)
  <2>1. it[0] = 0 /\ it[1] = 0 + Width[c]
    OBVIOUS
  <2>2. \A n \in 0 .. 1 : (IF n = 0 THEN 0 ELSE it[n - 1] + Width[one[n]])
                              = IF n = 0 THEN 0 ELSE 0 + Width[c]
    BY <1>1, <2>1
  <2> QED BY <1>1, <2>2
<1>3. IsIt(f)
  BY <1>2
<1>4. Bytes(one) = f[1]
  BY <1>1 DEF Bytes
<1> HIDE DEF f
<1>5. f[0] = 0
  BY <1>1, <1>3
<1>6. f[1] = f[0] + Width[c]
  BY <1>1, <1>3
<1> QED BY <1>1, <1>4, <1>5, <1>6

\* An event takes some of the text, since no character is longer than an event may be.
LEMMA CutTakesSome ==
  ASSUME NEW t \in Seq(Char), t # <<>>
  PROVE  FloorCharBoundary(t) \in 1 .. Len(t)
<1> DEFINE S == {n \in 0 .. Len(t) : Bytes(SubSeq(t, 1, n)) <= Chunk}
<1>1. Len(t) \in Nat /\ Len(t) >= 1 /\ t[1] \in Char
  OBVIOUS
<1>2. SubSeq(t, 1, 1) = <<t[1]>>
  <2>1. \A i \in 1 .. 1 : t[i] \in Char
    BY <1>1
  <2>2. /\ SubSeq(t, 1, 1) \in Seq(Char) /\ Len(SubSeq(t, 1, 1)) = 1
        /\ \A i \in 1 .. 1 : SubSeq(t, 1, 1)[i] = t[i]
    <3>1. 1 \in Int /\ 1 <= 1 /\ (1 - 1) + 1 = 1 /\ \A i \in 1 .. 1 : (1 + i) - 1 = i
      OBVIOUS
    <3> QED BY <2>1, <3>1, SubSeqProperties
  <2>3. SubSeq(t, 1, 1)[1] = t[1]
    BY <2>2
  <2>4. <<t[1]>> \in Seq(Char) /\ Len(<<t[1]>>) = 1 /\ <<t[1]>>[1] = t[1]
    BY <1>1
  <2>5. \A i \in 1 .. Len(SubSeq(t, 1, 1)) : SubSeq(t, 1, 1)[i] = <<t[1]>>[i]
    <3>1. SUFFICES ASSUME NEW i \in 1 .. 1 PROVE SubSeq(t, 1, 1)[i] = <<t[1]>>[i]
      BY <2>2
    <3>2. i = 1
      OBVIOUS
    <3> QED BY <2>3, <2>4, <3>2
  <2> QED BY <2>2, <2>4, <2>5, SeqEqual
<1>3. Bytes(SubSeq(t, 1, 1)) <= Chunk
  <2>1. Bytes(<<t[1]>>) \in 1 .. 4
    <3>1. Bytes(<<t[1]>>) = Width[t[1]] /\ Width[t[1]] \in 1 .. 4
      BY <1>1, BytesOfOne
    <3> QED BY <3>1
  <2>2. Chunk \in Nat /\ Chunk >= 4
    BY InjectionAssumption
  <2>3. Bytes(<<t[1]>>) <= Chunk
    BY <2>1, <2>2
  <2> QED BY <1>2, <2>3
<1>4. 1 \in S
  BY <1>1, <1>3
<1>5. FloorCharBoundary(t) = Max(S)
  BY DEF FloorCharBoundary
<1>6. S \subseteq 0 .. Len(t)
  OBVIOUS
<1> HIDE DEF S
<1>7. Max(S) \in S /\ \A x \in S : x <= Max(S)
  BY <1>1, <1>4, <1>6, Greatest
<1>8. Max(S) \in 0 .. Len(t) /\ 1 <= Max(S)
  BY <1>4, <1>6, <1>7
<1> QED BY <1>1, <1>5, <1>8

\* What is left of a text after n characters, and how far its first event goes.
Rest(t, n)   == SubSeq(t, n + 1, Len(t))
Cut(t, n)    == FloorCharBoundary(Rest(t, n))
ChunkAt(t, n) == Utf8(SubSeq(Rest(t, n), 1, Cut(t, n)))

\* The recursion of Chunks, from a character on.
Chunked(t, m, f) ==
  f = [n \in m .. Len(t) |-> IF n = Len(t) THEN <<>> ELSE <<ChunkAt(t, n)>> \o f[n + Cut(t, n)]]

\* Each event takes a part of the text.
LEMMA ChunkTyped ==
  ASSUME NEW t \in Seq(Char), NEW n \in 0 .. Len(t), n # Len(t)
  PROVE  /\ n + Cut(t, n) \in (n + 1) .. Len(t)
         /\ ChunkAt(t, n) \in Raw /\ ChunkAt(t, n).is = "utf8"
<1>1. /\ Len(t) \in Nat /\ n + 1 \in Int /\ Len(t) \in Int
      /\ \A i \in (n + 1) .. Len(t) : t[i] \in Char
  OBVIOUS
<1>2. Rest(t, n) \in Seq(Char) /\ Len(Rest(t, n)) = Len(t) - n
  BY <1>1 DEF Rest
<1>3. Rest(t, n) # <<>>
  BY <1>1, <1>2
<1>4. Cut(t, n) \in 1 .. Len(t) - n
  BY <1>2, <1>3, CutTakesSome DEF Cut
<1>5. SubSeq(Rest(t, n), 1, Cut(t, n)) \in Seq(Char)
  BY <1>2, <1>4
<1> QED BY <1>1, <1>4, <1>5 DEF ChunkAt, Utf8, Raw

\* It has a solution from every character on, found from the end.
LEMMA ChunkedExists ==
  ASSUME NEW t \in Seq(Char), NEW m \in 0 .. Len(t)
  PROVE  \E f : Chunked(t, Len(t) - m, f)
<1> DEFINE N == Len(t)
           T == {k \in 0 .. N : ~\E f : Chunked(t, N - k, f)}
<1>1. N \in Nat
  OBVIOUS
<1>2. ASSUME NEW k \in T PROVE \E j \in T : j < k
  <2>1. k # 0
    <3>1. Chunked(t, N - 0, [n \in N .. N |-> <<>>])
      BY <1>1 DEF Chunked
    <3> QED BY <3>1
  <2> DEFINE m0 == N - k
  <2>2. k - 1 \in 0 .. N /\ k - 1 < k /\ N - (k - 1) = m0 + 1 /\ m0 \in 0 .. N /\ m0 # N
    BY <1>1, <2>1
  <2>3. ASSUME NEW g, Chunked(t, m0 + 1, g) PROVE FALSE
    <3> DEFINE f == [n \in m0 .. N |-> IF n = m0 THEN <<ChunkAt(t, n)>> \o g[n + Cut(t, n)] ELSE g[n]]
    <3>1. \A n \in (m0 + 1) .. N : f[n] = g[n]
      BY <1>1, <2>2
    <3>2. f[m0] = <<ChunkAt(t, m0)>> \o g[m0 + Cut(t, m0)]
      BY <1>1, <2>2
    <3>3. f = [n \in m0 .. N |-> f[n]]
      OBVIOUS
    <3> HIDE DEF f
    <3>4. \A n \in (m0 + 1) .. N : g[n] = IF n = N THEN <<>> ELSE <<ChunkAt(t, n)>> \o g[n + Cut(t, n)]
      BY <2>3 DEF Chunked
    <3>5. ASSUME NEW n \in m0 .. N
          PROVE  f[n] = IF n = N THEN <<>> ELSE <<ChunkAt(t, n)>> \o f[n + Cut(t, n)]
      <4>1. CASE n = N
        <5>1. n \in (m0 + 1) .. N
          BY <1>1, <2>2, <4>1
        <5> QED BY <3>1, <3>4, <4>1, <5>1
      <4>2. CASE n # N
        <5>1. n \in 0 .. Len(t)
          BY <1>1, <2>2
        <5>2. n + Cut(t, n) \in (n + 1) .. N
          BY <4>2, <5>1, ChunkTyped
        <5>3. n + Cut(t, n) \in (m0 + 1) .. N
          BY <1>1, <2>2, <5>2
        <5>4. f[n + Cut(t, n)] = g[n + Cut(t, n)]
          BY <3>1, <5>3
        <5>5. CASE n = m0
          BY <3>2, <4>2, <5>4, <5>5
        <5>6. CASE n # m0
          <6>1. n \in (m0 + 1) .. N
            BY <1>1, <2>2, <5>6
          <6> QED BY <3>1, <3>4, <4>2, <5>4, <6>1
        <5> QED BY <5>5, <5>6
      <4> QED BY <4>1, <4>2
    <3>6. Chunked(t, m0, f)
      BY <3>3, <3>5 DEF Chunked
    <3> QED BY <3>6
  <2> QED BY <2>2, <2>3
<1> HIDE DEF T
<1>3. T \subseteq Nat
  BY DEF T
<1>4. T = {}
  BY <1>2, <1>3, Descent
<1> QED BY <1>4 DEF T

\* A text goes out as events that hold parts of it.
LEMMA ChunksTyped ==
  ASSUME NEW t \in Seq(Char)
  PROVE  Chunks(t) \in Seq(Raw) /\ Rises(Chunks(t))
<1> DEFINE N == Len(t)
           f == CHOOSE g : Chunked(t, 0, g)
           IsText(b) == b \in Seq(Raw) /\ \A n \in DOMAIN b : b[n].is = "utf8"
           T == {k \in 0 .. N : ~IsText(f[N - k])}
<1>1. N \in Nat /\ N - N = 0
  OBVIOUS
<1>2. Chunked(t, 0, f)
  BY <1>1, ChunkedExists
<1>3. Chunks(t) = f[0]
  BY DEF Chunks, Chunked, ChunkAt, Cut, Rest
<1> HIDE DEF f
<1>4. ASSUME NEW k \in T PROVE \E j \in T : j < k
  <2>1. N - k \in 0 .. N
    BY <1>1
  <2>2. f[N - k] = IF N - k = N THEN <<>> ELSE <<ChunkAt(t, N - k)>> \o f[(N - k) + Cut(t, N - k)]
    BY <1>2, <2>1 DEF Chunked
  <2>3. IsText(<<>>)
    OBVIOUS
  <2>4. N - k # N
    BY <2>2, <2>3
  <2>5. (N - k) + Cut(t, N - k) \in (N - k) + 1 .. N /\ ChunkAt(t, N - k) \in Raw
        /\ ChunkAt(t, N - k).is = "utf8"
    BY <2>1, <2>4, ChunkTyped
  <2> DEFINE next == (N - k) + Cut(t, N - k)
             j == N - next
  <2>6. next \in (N - k) + 1 .. N
    BY <2>5
  <2>7. f[N - k] = <<ChunkAt(t, N - k)>> \o f[next]
    BY <2>2, <2>4
  <2> HIDE DEF next
  <2>8. j \in 0 .. N /\ j < k /\ N - j = next
    BY <1>1, <2>6
  <2>9. ~IsText(f[next])
    <3>1. SUFFICES ASSUME IsText(f[next]) PROVE IsText(f[N - k])
      OBVIOUS
    <3> DEFINE a == <<ChunkAt(t, N - k)>>
    <3>2. a \in Seq(Raw) /\ Len(a) = 1 /\ a[1].is = "utf8"
      BY <2>5
    <3>3. /\ a \o f[next] \in Seq(Raw) /\ Len(a \o f[next]) = Len(a) + Len(f[next])
          /\ \A i \in 1 .. Len(a) + Len(f[next]) :
               (a \o f[next])[i] = IF i <= Len(a) THEN a[i] ELSE f[next][i - Len(a)]
      BY <3>1, <3>2, ConcatProperties
    <3>4. DOMAIN f[next] = 1 .. Len(f[next]) /\ Len(f[next]) \in Nat
      BY <3>1
    <3>5. DOMAIN (a \o f[next]) = 1 .. 1 + Len(f[next])
      BY <3>2, <3>3
    <3> HIDE DEF a
    <3>6. ASSUME NEW i \in 1 .. 1 + Len(f[next]) PROVE (a \o f[next])[i].is = "utf8"
      <4>1. CASE i = 1
        BY <3>2, <3>3, <4>1
      <4>2. CASE i # 1
        <5>1. i - 1 \in DOMAIN f[next] /\ ~(i <= 1)
          BY <3>4, <4>2
        <5>2. (a \o f[next])[i] = f[next][i - 1]
          BY <3>2, <3>3, <5>1
        <5> QED BY <3>1, <5>1, <5>2
      <4> QED BY <4>1, <4>2
    <3> QED BY <2>7, <3>3, <3>5, <3>6 DEF a
  <2> QED BY <2>8, <2>9
<1> HIDE DEF T
<1>5. T \subseteq Nat
  BY DEF T
<1>6. T = {}
  BY <1>4, <1>5, Descent
<1>7. IsText(f[0])
  <2>1. N \in 0 .. N
    BY <1>1
  <2> QED BY <1>1, <1>6, <2>1 DEF T
<1>8. Rises(f[0])
  BY <1>7, NothingPressed
<1> QED BY <1>3, <1>7, <1>8

\* What a command is made of.
LEMMA CommandFields ==
  ASSUME NEW c \in Command
  PROVE  c.text \in Seq(Char) /\ c.keys \in Seq(Sym \cup {"nonsense"})
<1>1. <<>> \in Seq(Char) /\ <<>> \in Seq(Sym \cup {"nonsense"})
  OBVIOUS
<1> QED BY <1>1 DEF Command

\* A burst by text is of text, or of keysyms that rise.
LEMMA TextBurst ==
  ASSUME NEW c \in Command
  PROVE  ByText(c).ok \in BOOLEAN /\ ByText(c).burst \in Seq(Raw) /\ Rises(ByText(c).burst)
<1>1. c.text \in Seq(Char) /\ c.keys \in Seq(Sym \cup {"nonsense"})
  BY CommandFields
<1>2. CASE c.is = "type"
  BY <1>1, <1>2, ChunksTyped DEF ByText
<1>3. CASE c.is # "type" /\ "nonsense" \in Range(c.keys)
  <2>1. ByText(c).ok = FALSE /\ ByText(c).burst = <<>>
    BY <1>3 DEF ByText
  <2>2. <<>> \in Seq(Raw) /\ Rises(<<>>)
    BY NothingPressed
  <2> QED BY <2>1, <2>2
<1>4. CASE c.is # "type" /\ "nonsense" \notin Range(c.keys)
  <2> DEFINE ks == [n \in DOMAIN c.keys |-> Keysym(c.keys[n])]
  <2>1. ByText(c).ok = TRUE /\ ByText(c).burst = Strokes(ks)
    BY <1>4 DEF ByText
  <2>2. Len(c.keys) \in Nat /\ DOMAIN c.keys = 1 .. Len(c.keys)
    BY <1>1
  <2>3. ASSUME NEW n \in 1 .. Len(c.keys) PROVE Keysym(c.keys[n]) \in Stroke
    <3>1. c.keys[n] \in Sym \cup {"nonsense"}
      BY <1>1
    <3>2. c.keys[n] # "nonsense"
      BY <1>4, <2>2 DEF Range
    <3> QED BY <3>1, <3>2 DEF Keysym, Stroke
  <2>4. ks \in [1 .. Len(c.keys) -> Stroke]
    BY <2>2, <2>3
  <2>5. ks \in Seq(Stroke)
    BY <2>2, <2>4
  <2> HIDE DEF ks
  <2> QED BY <2>1, <2>5, StrokesRise
<1> QED BY <1>2, <1>3, <1>4

\* A burst by the keymap is of keys that rise.
LEMMA KeysBurst ==
  ASSUME NEW c \in Command, NEW i \in Session
  PROVE  ByKeys(i, c).ok \in BOOLEAN /\ ByKeys(i, c).burst \in Seq(Raw) /\ Rises(ByKeys(i, c).burst)
<1>1. c.text \in Seq(Char) /\ c.keys \in Seq(Sym \cup {"nonsense"})
  BY CommandFields
<1>2. <<>> \in Seq(Raw) /\ Rises(<<>>)
  BY NothingPressed
<1>3. CASE c.is = "type"
  <2> DEFINE ss == [n \in DOMAIN c.text |->
                      IF Unreachable(i, c.text[n]) THEN <<>>
                      ELSE OnKeys(Fingering(i.map, i.cache[c.text[n]]))]
             ok == ~\E x \in Range(c.text) : Unreachable(i, x)
  <2>1. ByKeys(i, c) = [ok |-> ok, burst |-> FlattenSeq(ss)]
    BY <1>3 DEF ByKeys
  <2>2. ok \in BOOLEAN
    OBVIOUS
  <2>3. Len(c.text) \in Nat /\ DOMAIN c.text = 1 .. Len(c.text)
    BY <1>1
  <2>4. ASSUME NEW n \in 1 .. Len(c.text) PROVE ss[n] \in Seq(Raw) /\ Rises(ss[n])
    <3>1. CASE Unreachable(i, c.text[n])
      BY <1>2, <2>3, <3>1
    <3>2. CASE ~Unreachable(i, c.text[n])
      <4>1. c.text[n] \in Char
        BY <1>1
      <4>2. i.cache[c.text[n]] \in Place \cup {Nowhere}
        BY <4>1 DEF Session
      <4>3. i.cache[c.text[n]] \in Place
        BY <3>2, <4>2 DEF Unreachable
      <4>4. Fingering(i.map, i.cache[c.text[n]]) \in Seq(Key)
        BY <4>3, FingeringTyped
      <4>5. ss[n] = OnKeys(Fingering(i.map, i.cache[c.text[n]]))
        BY <2>3, <3>2
      <4> QED BY <4>4, <4>5, KeysRiseAgain
    <3> QED BY <3>1, <3>2
  <2>5. ss = [n \in 1 .. Len(c.text) |-> ss[n]]
    BY <2>3
  <2> HIDE DEF ss, ok
  <2>6. ss \in [1 .. Len(c.text) -> Seq(Raw)]
    BY <2>4, <2>5
  <2>7. ss \in Seq(Seq(Raw)) /\ DOMAIN ss = 1 .. Len(c.text)
    BY <2>3, <2>6
  <2>8. FlattenSeq(ss) \in Seq(Raw) /\ Rises(FlattenSeq(ss))
    BY <2>4, <2>7, FlattenedRises
  <2> QED BY <2>1, <2>2, <2>8
<1>4. CASE c.is # "type" /\ \E n \in DOMAIN c.keys : Locate(i.map, i.group, c.keys[n]) = Nowhere
  <2>1. ByKeys(i, c).ok = FALSE /\ ByKeys(i, c).burst = <<>>
    BY <1>4 DEF ByKeys
  <2> QED BY <1>2, <2>1
<1>5. CASE c.is # "type" /\ ~\E n \in DOMAIN c.keys : Locate(i.map, i.group, c.keys[n]) = Nowhere
  <2> DEFINE ks == [n \in DOMAIN c.keys |-> Locate(i.map, i.group, c.keys[n]).key]
  <2>1. ByKeys(i, c) = [ok |-> TRUE, burst |-> OnKeys(ks)]
    BY <1>5, Zenon DEF ByKeys
  <2>2. Len(c.keys) \in Nat /\ DOMAIN c.keys = 1 .. Len(c.keys)
    BY <1>1
  <2>3. ASSUME NEW n \in 1 .. Len(c.keys) PROVE Locate(i.map, i.group, c.keys[n]).key \in Key
    <3>1. Locate(i.map, i.group, c.keys[n]) # Nowhere
      BY <1>5, <2>2
    <3>2. Locate(i.map, i.group, c.keys[n]) \in Place
      BY <3>1, Located
    <3> QED BY <3>2 DEF Place
  <2>4. ks \in [1 .. Len(c.keys) -> Key]
    BY <2>2, <2>3
  <2>5. ks \in Seq(Key)
    BY <2>2, <2>4
  <2> HIDE DEF ks
  <2>6. OnKeys(ks) \in Seq(Raw) /\ Rises(OnKeys(ks))
    BY <2>5, KeysRiseAgain
  <2> QED BY <2>1, <2>6
<1> QED BY <1>3, <1>4, <1>5

\* What goes out of a burst is the burst, with its command and its order.
LEMMA SentOut ==
  ASSUME NEW b \in Seq(Raw), Rises(b), NEW id \in Id,
         NEW s, s = [n \in DOMAIN b |-> Sent(b[n], id, n)]
  PROVE  /\ s \in Seq(Carried) /\ Rises(s)
         /\ DOMAIN s = 1 .. Len(s) /\ Len(s) \in Nat
         /\ \A n \in DOMAIN s : s[n].by = id /\ s[n].nth = n
<1>1. Len(b) \in Nat /\ DOMAIN b = 1 .. Len(b) /\ \A n \in 1 .. Len(b) : b[n] \in Raw
  OBVIOUS
<1>2. DOMAIN s = 1 .. Len(b) /\ \A n \in 1 .. Len(b) : s[n] = Sent(b[n], id, n)
  BY <1>1
<1>3. ASSUME NEW n \in 1 .. Len(b) PROVE s[n] \in Carried
  <2>1. b[n] \in Raw /\ n \in Nat \ {0} /\ s[n] = Sent(b[n], id, n)
    BY <1>1, <1>2
  <2>2. CASE b[n] \in [is : {"press", "release"}, what : Stroke]
    BY <2>1, <2>2 DEF Sent, Carried
  <2>3. CASE b[n] \in [is : {"utf8"}, what : Seq(Char)]
    BY <2>1, <2>3 DEF Sent, Carried
  <2> QED BY <2>1, <2>2, <2>3 DEF Raw
<1>4. s \in [1 .. Len(b) -> Carried]
  BY <1>2, <1>3
<1>5. s \in Seq(Carried) /\ Len(s) = Len(b)
  BY <1>1, <1>4
<1>6. \A n \in DOMAIN s : s[n].by = id /\ s[n].nth = n /\ s[n].is = b[n].is /\ s[n].what = b[n].what
  BY <1>2 DEF Sent
<1>7. Rises(s)
  <2>1. DOMAIN s = DOMAIN b
    BY <1>1, <1>2
  <2> QED BY <1>6, <2>1 DEF Rises, ReleasedBy
<1> QED BY <1>1, <1>2, <1>5, <1>6, <1>7

\* The worker's session stays one, whatever it looks up in the keymap.
LEMMA ResolvedTyped ==
  ASSUME NEW i \in Session, NEW c
  PROVE  Resolved(i, c) \in Session
<1> DEFINE new == [x \in Char |-> IF x \in Range(c.text) /\ i.cache[x] = Nowhere
                                  THEN Locate(i.map, i.group, x) ELSE i.cache[x]]
<1>1. ASSUME NEW x \in Char PROVE new[x] \in Place \cup {Nowhere}
  <2>1. i.cache[x] \in Place \cup {Nowhere}
    BY DEF Session
  <2> QED BY <2>1, Located
<1>2. new \in [Char -> Place \cup {Nowhere}]
  BY <1>1
<1>3. Resolved(i, c) = [i EXCEPT !.cache = new]
  BY DEF Resolved
<1> HIDE DEF new
<1> QED BY <1>2, <1>3 DEF Session

\* A new session, and a dead one.
LEMMA FreshTyped == Fresh \in Session /\ NoSession \in Session
<1>1. NoCache \in [Char -> Place \cup {Nowhere}]
  BY DEF NoCache
<1>2. Fresh \in Session
  BY <1>1 DEF Fresh, Session
<1> QED BY <1>2 DEF NoSession, Session

\* Whatever event is read, a session stays one.
LEMMA HandleTyped ==
  ASSUME NEW i \in Session, NEW e \in Event
  PROVE  Handle(i, e) \in Session
<1>1. NoCache \in [Char -> Place \cup {Nowhere}]
  BY DEF NoCache
<1>2. \A m, g : g \in Nat \ {0} => FitGroup(m, g) \in Nat \ {0}
  BY DEF FitGroup
<1>3. CanType(i) \in BOOLEAN
  BY DEF CanType, Session
<1>4. CASE e \in [is : Plain]
  <2>1. e.is \in Plain
    BY <1>4
  <2>2. ASSUME NEW v \in BOOLEAN
        PROVE  /\ [i EXCEPT !.caps = v] \in Session /\ [i EXCEPT !.bound = v] \in Session
               /\ [i EXCEPT !.text = v] \in Session /\ [i EXCEPT !.keyboard = v] \in Session
               /\ [i EXCEPT !.done = v] \in Session /\ [i EXCEPT !.resumed = v] \in Session
               /\ [i EXCEPT !.dead = v] \in Session
    BY DEF Session
  <2>3. i.caps \in BOOLEAN
    BY DEF Session
  <2>4. CASE e.is \in {"capability", "seat", "text", "keyboard"}
    BY <2>2, <2>3, <2>4 DEF Handle
  <2>5. CASE e.is \in {"done", "resumed", "paused"}
    BY <1>3, <2>2, <2>5 DEF Handle
  <2>6. CASE e.is \in {"disconnected", "broken", "unreadable"}
    <3>1. Handle(i, e) \in {[i EXCEPT !.dead = TRUE], i}
      BY <2>6 DEF Handle
    <3> QED BY <2>2, <3>1
  <2> QED BY <2>1, <2>4, <2>5, <2>6 DEF Plain
<1>5. CASE e \in [is : {"keymap"}, map : Keymap]
  <2>1. e.is = "keymap" /\ e.map \in Keymap
    BY <1>5
  <2>2. Handle(i, e) = [i EXCEPT !.map = e.map, !.group = FitGroup(e.map, @), !.cache = NoCache]
    BY <2>1 DEF Handle
  <2>3. i.group \in Nat \ {0}
    BY DEF Session
  <2>4. FitGroup(e.map, i.group) \in Nat \ {0}
    BY <1>2, <2>3
  <2> QED BY <1>1, <2>1, <2>2, <2>4 DEF Session
<1>6. CASE e \in [is : {"modifiers"}, group : Nat \ {0}]
  <2>1. e.is = "modifiers" /\ e.group \in Nat \ {0}
    BY <1>6
  <2>2. Handle(i, e) = IF i.map = NoMap THEN i ELSE SetGroup(i, e.group)
    BY <2>1 DEF Handle
  <2>3. FitGroup(i.map, e.group) \in Nat \ {0}
    BY <1>2, <2>1
  <2>4. [i EXCEPT !.group = FitGroup(i.map, e.group), !.cache = NoCache] \in Session
    BY <1>1, <2>3 DEF Session
  <2> QED BY <2>2, <2>4 DEF SetGroup
<1> QED BY <1>4, <1>5, <1>6 DEF Event

-----------------------------------------------------------------------------
(* The injector: types. *)

Sound == InjectorTypeOK /\ HasCommand

\* The types in parts: the callers, the worker, KWin and what is remembered.
CallsTyped  == /\ picked \in {"trying", "starting", "probing", "eis", "ydotool", "none"}
               /\ candidate \in Nat /\ asked \in Seq(Command) /\ held \in BOOLEAN
               /\ waiting \in Id \cup {0} /\ queue \in Seq(Id)
               /\ answer \in [Id -> {"none", "ok", "failed", "unresponsive"}]
WorkTyped   == /\ job \in Id \cup {0} /\ attempt \in 1 .. Attempts
               /\ stage \in {"unstarted", "dialling", "connecting", "idle", "draining", "reading",
                             "probing", "gone"}
               /\ purpose \in {"start", "drain", "send"} /\ result \in BOOLEAN
ServerTyped == /\ session \in Session /\ kwin \in Compositor /\ wire \in Seq(Event)
               /\ events \in 0 .. MaxEvents /\ pipe \in Seq(Carried)
PastTyped   == got \in Seq(Heard) /\ disturbed \subseteq Id /\ strayed \subseteq Id /\ deaf \in BOOLEAN

\* The types, by who writes what.
LEMMA TypedInParts == InjectorTypeOK <=> CallsTyped /\ WorkTyped /\ ServerTyped /\ PastTyped
BY DEF InjectorTypeOK, CallsTyped, WorkTyped, ServerTyped, PastTyped

\* Commands are numbered.
LEMMA Numbers == InjectorTypeOK => Id = 1 .. Len(asked) /\ Len(asked) \in Nat /\ Id \subseteq Nat \ {0}
BY DEF InjectorTypeOK, Id

\* What leaves one part of the state alone leaves its types alone: the calls, ...
LEMMA CallsRest == InjectorTypeOK /\ UNCHANGED <<callVars, answer>> => CallsTyped' /\ Id' = Id
BY DEF InjectorTypeOK, CallsTyped, callVars, Id
\* ... the worker's part, ...
LEMMA WorkRest == InjectorTypeOK /\ Id \subseteq Id' /\ UNCHANGED workVars => WorkTyped'
BY DEF InjectorTypeOK, WorkTyped, workVars
\* ... the command it has in hand, ...
LEMMA CommandRest == HasCommand /\ Id \subseteq Id' /\ UNCHANGED workVars => HasCommand'
BY DEF HasCommand, workVars
\* ... KWin's part, ...
LEMMA ServerRest == InjectorTypeOK /\ Id' = Id /\ UNCHANGED <<session, serverVars>> => ServerTyped'
BY DEF InjectorTypeOK, ServerTyped, serverVars, Carried
\* ... and the history.
LEMMA PastRest ==
  InjectorTypeOK /\ Id' = Id /\ UNCHANGED <<got, disturbed, strayed, deaf>> => PastTyped'
BY DEF InjectorTypeOK, PastTyped, Heard

\* A layout of a keymap has a number.
LEMMA LayoutsNumbered ==
  ASSUME NEW m \in Keymap
  PROVE  Layouts(m) \subseteq Nat \ {0}
<1>1. m \in [Key -> Seq(Seq(Sym))]
  BY InjectionAssumption
<1>2. ASSUME NEW k \in Key PROVE DOMAIN m[k] \subseteq Nat \ {0}
  BY <1>1
<1> QED BY <1>2 DEF Layouts

\* A key produces a symbol, or none.
LEMMA SymbolsOnly ==
  ASSUME InjectorTypeOK, NEW x \in Stroke
  PROVE  Produces(x) \in Sym \cup {NoSymbol}
<1>1. CASE x.key = 0
  BY <1>1 DEF Produces, Stroke
<1>2. CASE x.key # 0
  <2> DEFINE ls == kwin.map[x.key]
             g == IF kwin.group \in DOMAIN ls THEN kwin.group ELSE ((kwin.group - 1) % Len(ls)) + 1
  <2>1. kwin.map \in [Key -> Seq(Seq(Sym))] /\ kwin.group \in Nat \ {0}
    BY InjectionAssumption DEF InjectorTypeOK, Compositor
  <2>2. x.key \in Key
    BY <1>2 DEF Stroke
  <2>3. ls \in Seq(Seq(Sym))
    BY <2>1, <2>2
  <2>4. Produces(x) = IF ls = <<>> THEN NoSymbol
                      ELSE IF Level \in DOMAIN ls[g] THEN ls[g][Level] ELSE FirstOf(ls[g])
    BY <1>2 DEF Produces
  <2>5. ASSUME ls # <<>> PROVE g \in DOMAIN ls
    <3>1. Len(ls) \in Nat \ {0} /\ DOMAIN ls = 1 .. Len(ls)
      BY <2>3, <2>5
    <3>2. kwin.group - 1 \in Nat
      BY <2>1
    <3> HIDE DEF ls
    <3>3. (kwin.group - 1) % Len(ls) \in 0 .. (Len(ls) - 1)
      BY <3>1, <3>2
    <3>4. ((kwin.group - 1) % Len(ls)) + 1 \in DOMAIN ls
      BY <3>1, <3>3
    <3> QED BY <3>4
  <2>6. ls # <<>> => ls[g] \in Seq(Sym)
    BY <2>3, <2>5
  <2> HIDE DEF ls, g
  <2>7. \A s \in Seq(Sym) : FirstOf(s) \in Sym \cup {NoSymbol}
    BY DEF FirstOf
  <2>8. ls # <<>> /\ Level \in DOMAIN ls[g] => ls[g][Level] \in Sym
    BY <2>6
  <2> QED BY <2>4, <2>6, <2>7, <2>8
<1> QED BY <1>1, <1>2

\* What lands is something the window can have got.
LEMMA LandedTyped ==
  ASSUME NEW m \in Carried, NEW n \in Nat \ {0}, NEW s \in Sym \cup {NoSymbol}, NEW ms
  PROVE  Landed(m, n, s, ms) \in Heard
<1>1. m.by \in Id /\ m.nth \in Nat \ {0}
  BY DEF Carried
<1>2. ms \cap {"ctrl"} \in SUBSET {"ctrl"}
  OBVIOUS
<1> QED BY <1>1, <1>2 DEF Landed, Heard

\* What KWin takes from the pipe and hands to the window.
LEMMA LandsTyped == Sound /\ Lands => Sound'
<1> SUFFICES ASSUME Sound, Lands PROVE Sound'
  OBVIOUS
<1>1. InjectorTypeOK /\ HasCommand
  BY DEF Sound
<1> DEFINE m == Head(pipe)
<1>2. pipe \in Seq(Carried) /\ pipe # <<>> /\ kwin \in Compositor /\ got \in Seq(Heard)
  BY <1>1 DEF InjectorTypeOK, Lands
<1>3. m \in Carried /\ Tail(pipe) \in Seq(Carried)
  BY <1>2, HeadTailProperties
<1>4. /\ pipe' = Tail(pipe)
      /\ UNCHANGED <<callVars, workVars, session, wire, events, answer, disturbed, strayed, deaf>>
  BY DEF Lands
<1>5. CallsTyped' /\ Id' = Id /\ WorkTyped' /\ HasCommand'
  BY <1>1, <1>4, CallsRest, WorkRest, CommandRest
<1>6. Carried' = Carried /\ Heard' = Heard
  BY <1>5 DEF Carried, Heard
<1>7. kwin' \in Compositor /\ got' \in Seq(Heard)
  <2>1. CASE kwin.paused
    BY <1>2, <2>1 DEF Lands
  <2>2. CASE ~kwin.paused /\ m.is = "press"
    <3>1. kwin' = [kwin EXCEPT !.down = @ \cup {m.what}]
      BY <2>2 DEF Lands
    <3>2. got' = IF Produces(m.what) \in Modifier THEN got
                 ELSE Append(got, Landed(m, 1, Produces(m.what), HeldDown))
      BY <2>2 DEF Lands
    <3>3. m.what \in Stroke
      BY <1>3, <2>2 DEF Carried
    <3>4. kwin' \in Compositor
      BY <1>2, <3>1, <3>3 DEF Compositor
    <3>5. Produces(m.what) \in Sym \cup {NoSymbol}
      BY <1>1, <3>3, SymbolsOnly
    <3>6. Landed(m, 1, Produces(m.what), HeldDown) \in Heard
      BY <1>3, <3>5, LandedTyped
    <3>7. Append(got, Landed(m, 1, Produces(m.what), HeldDown)) \in Seq(Heard)
      BY <1>2, <3>6, AppendProperties
    <3> QED BY <1>2, <3>2, <3>4, <3>7
  <2>3. CASE ~kwin.paused /\ m.is = "release"
    <3>1. kwin' = [kwin EXCEPT !.down = @ \ {m.what}] /\ got' = got
      BY <2>3 DEF Lands
    <3>2. kwin' \in Compositor
      BY <1>2, <3>1 DEF Compositor
    <3> QED BY <1>2, <3>1, <3>2
  <2>4. CASE ~kwin.paused /\ m.is \notin {"press", "release"}
    <3> DEFINE new == [n \in DOMAIN m.what |-> Landed(m, n, m.what[n], {})]
    <3>1. got' = got \o new /\ kwin' = kwin
      BY <2>4 DEF Lands
    <3>2. m.what \in Seq(Char)
      BY <1>3, <2>4 DEF Carried
    <3>3. Len(m.what) \in Nat /\ DOMAIN m.what = 1 .. Len(m.what)
          /\ \A n \in 1 .. Len(m.what) : m.what[n] \in Sym
      BY <3>2 DEF Sym
    <3> HIDE DEF m
    <3>4. ASSUME NEW n \in 1 .. Len(m.what) PROVE Landed(m, n, m.what[n], {}) \in Heard
      BY <1>3, <3>3, LandedTyped
    <3>5. new \in [1 .. Len(m.what) -> Heard]
      BY <3>3, <3>4
    <3>6. new \in Seq(Heard)
      BY <3>3, <3>5
    <3> HIDE DEF new
    <3> QED BY <1>2, <3>1, <3>6
  <2> QED BY <2>1, <2>2, <2>3, <2>4
<1>8. ServerTyped'
  BY <1>1, <1>3, <1>4, <1>6, <1>7 DEF ServerTyped, InjectorTypeOK, Session
<1>9. PastTyped'
  BY <1>1, <1>4, <1>5, <1>6, <1>7 DEF PastTyped, InjectorTypeOK
<1> QED BY <1>5, <1>8, <1>9, TypedInParts, PTL DEF Sound

\* Plain events.
LEMMA TellsTyped == \A x \in Plain : Tells(x) \in Event
BY DEF Tells, Event

\* Whom an event of KWin's own catches are commands.
LEMMA CaughtTyped == Sound /\ OnItsOwn => disturbed' \subseteq Id /\ events' \in 0 .. MaxEvents
<1> SUFFICES ASSUME Sound, OnItsOwn PROVE disturbed' \subseteq Id /\ events' \in 0 .. MaxEvents
  OBVIOUS
<1>1. InjectorTypeOK /\ HasCommand
  BY DEF Sound
<1>2. disturbed \subseteq Id /\ pipe \in Seq(Carried) /\ events \in 0 .. MaxEvents
  BY <1>1 DEF InjectorTypeOK
<1>3. InPipe \subseteq Id
  <2>1. \A n \in DOMAIN pipe : pipe[n].by \in Id
    <3>1. \A x \in Carried : x.by \in Id
      BY DEF Carried
    <3> QED BY <1>2, <3>1
  <2> QED BY <2>1 DEF InPipe
<1>4. stage = "reading" => job \in Id
  BY <1>1 DEF HasCommand
<1>5. disturbed' = disturbed \cup InPipe \cup (IF stage = "reading" THEN {job} ELSE {})
  BY DEF OnItsOwn
<1>6. disturbed' \subseteq Id
  BY <1>2, <1>3, <1>4, <1>5
<1>7. events' \in 0 .. MaxEvents
  BY <1>2, InjectionAssumption DEF OnItsOwn
<1> QED BY <1>6, <1>7

\* What KWin does beside reading.
Serves == Offers \/ Resumes \/ Pauses \/ SwitchesLayout \/ ChangesKeymap \/ Disconnects

\* It changes nothing but itself and the socket, and catches commands only.
LEMMA ServesFrame ==
  Sound /\ Serves => /\ UNCHANGED <<callVars, workVars, session, got, answer, strayed, deaf>>
                     /\ disturbed' \subseteq Id /\ events' \in 0 .. MaxEvents
<1> SUFFICES ASSUME Sound, Serves
             PROVE  /\ UNCHANGED <<callVars, workVars, session, got, answer, strayed, deaf>>
                    /\ disturbed' \subseteq Id /\ events' \in 0 .. MaxEvents
  OBVIOUS
<1>1. CASE Offers \/ Resumes
  BY <1>1 DEF Offers, Resumes, history, Sound, InjectorTypeOK
<1>2. CASE Pauses \/ SwitchesLayout \/ ChangesKeymap \/ Disconnects
  <2>1. OnItsOwn
    BY <1>2 DEF Pauses, SwitchesLayout, ChangesKeymap, Disconnects
  <2>2. UNCHANGED <<callVars, workVars, session, got, answer, strayed, deaf>>
    BY <2>1 DEF OnItsOwn
  <2> QED BY <2>1, <2>2, CaughtTyped
<1> QED BY <1>1, <1>2 DEF Serves

\* Its socket still carries events.
LEMMA ServesSocket ==
  Sound /\ Serves => /\ kwin' \in Compositor /\ wire' \in Seq(Event)
                     /\ pipe' = pipe \/ pipe' = <<>>
<1> SUFFICES ASSUME Sound, Serves
             PROVE  kwin' \in Compositor /\ wire' \in Seq(Event) /\ (pipe' = pipe \/ pipe' = <<>>)
  OBVIOUS
<1>1. kwin \in Compositor /\ wire \in Seq(Event)
  BY DEF Sound, InjectorTypeOK
<1>2. kwin.map \in Keymap /\ kwin.group \in Nat \ {0}
  BY <1>1 DEF Compositor
<1>3. \A g \in Nat \ {0} : [is |-> "modifiers", group |-> g] \in Event
  BY DEF Event
<1>4. \A m \in Keymap : [is |-> "keymap", map |-> m] \in Event
  BY DEF Event
<1>5. CASE Offers
  <2>1. kwin' \in Compositor /\ pipe' = pipe
    BY <1>1, <1>5 DEF Offers, Compositor
  <2> DEFINE device == IF kwin.offers = "text" THEN <<Tells("text")>>
                       ELSE <<Tells("keyboard"), [is |-> "keymap", map |-> kwin.map]>>
             set == <<Tells("done"), [is |-> "modifiers", group |-> kwin.group]>>
  <2>2. Tells("text") \in Event /\ Tells("keyboard") \in Event /\ Tells("done") \in Event
    BY TellsTyped DEF Plain
  <2>3. device \in Seq(Event)
    BY <1>2, <1>4, <2>2
  <2>4. set \in Seq(Event)
    BY <1>2, <1>3, <2>2
  <2>5. wire' = wire \o device \o set
    BY <1>5 DEF Offers
  <2> HIDE DEF device, set
  <2> QED BY <1>1, <2>1, <2>3, <2>4, <2>5
<1>6. CASE Resumes
  <2>1. kwin' \in Compositor /\ pipe' = pipe
    BY <1>1, <1>6 DEF Resumes, Compositor
  <2>2. Tells("resumed") \in Event /\ wire' = Append(wire, Tells("resumed"))
    BY <1>6, TellsTyped DEF Resumes, Plain
  <2> QED BY <1>1, <2>1, <2>2, AppendProperties
<1>7. CASE Pauses
  <2>1. kwin' \in Compositor /\ pipe' = pipe
    BY <1>1, <1>7 DEF Pauses, Compositor
  <2>2. Tells("paused") \in Event /\ wire' = Append(wire, Tells("paused"))
    BY <1>7, TellsTyped DEF Pauses, Plain
  <2> QED BY <1>1, <2>1, <2>2, AppendProperties
<1>8. CASE SwitchesLayout
  <2>1. PICK g \in Layouts(kwin.map) : /\ kwin' = [kwin EXCEPT !.group = g]
                                       /\ wire' = Append(wire, [is |-> "modifiers", group |-> g])
    BY <1>8 DEF SwitchesLayout
  <2>2. g \in Nat \ {0}
    BY <1>2, <2>1, LayoutsNumbered
  <2>3. kwin' \in Compositor /\ pipe' = pipe
    BY <1>1, <1>8, <2>1, <2>2 DEF SwitchesLayout, Compositor
  <2> QED BY <1>1, <1>3, <2>1, <2>2, <2>3, AppendProperties
<1>9. CASE ChangesKeymap
  <2>1. PICK m \in Keymap, usable \in BOOLEAN :
          /\ kwin' = [kwin EXCEPT !.map = m, !.group = 1]
          /\ wire' = wire \o <<IF usable THEN [is |-> "keymap", map |-> m] ELSE Tells("unreadable"),
                               [is |-> "modifiers", group |-> 1]>>
    BY <1>9 DEF ChangesKeymap
  <2>2. kwin' \in Compositor /\ pipe' = pipe
    <3>1. pipe' = pipe
      BY <1>9 DEF ChangesKeymap
    <3>2. [kwin EXCEPT !.map = m, !.group = 1] \in Compositor
      <4>1. \A g \in Nat \ {0} : [kwin EXCEPT !.map = m, !.group = g] \in Compositor
        BY <1>1 DEF Compositor
      <4>2. 1 \in Nat \ {0}
        OBVIOUS
      <4> QED BY <4>1, <4>2, Zenon
    <3> QED BY <2>1, <3>1, <3>2
  <2>3. (IF usable THEN [is |-> "keymap", map |-> m] ELSE Tells("unreadable")) \in Event
    BY <1>4, TellsTyped DEF Plain
  <2>4. [is |-> "modifiers", group |-> 1] \in Event
    BY <1>3
  <2> QED BY <1>1, <2>1, <2>2, <2>3, <2>4
<1>10. CASE Disconnects
  <2>1. kwin' \in Compositor /\ pipe' = <<>>
    BY <1>1, <1>10 DEF Disconnects, Compositor
  <2>2. PICK ending \in {"disconnected", "broken"} : wire' = Append(wire, Tells(ending))
    BY <1>10 DEF Disconnects
  <2>3. Tells(ending) \in Event
    BY TellsTyped DEF Plain
  <2> QED BY <1>1, <2>1, <2>2, <2>3, AppendProperties
<1> QED BY <1>5, <1>6, <1>7, <1>8, <1>9, <1>10 DEF Serves

\* KWin's own steps keep the types.
LEMMA ServesTyped == Sound /\ Serves => Sound'
<1> SUFFICES ASSUME Sound, Serves PROVE Sound'
  OBVIOUS
<1>1. InjectorTypeOK /\ HasCommand
  BY DEF Sound
<1>2. /\ UNCHANGED <<callVars, workVars, session, got, answer, strayed, deaf>>
      /\ disturbed' \subseteq Id /\ events' \in 0 .. MaxEvents
  BY ServesFrame
<1>3. kwin' \in Compositor /\ wire' \in Seq(Event) /\ (pipe' = pipe \/ pipe' = <<>>)
  BY ServesSocket
<1>4. CallsTyped' /\ Id' = Id /\ WorkTyped' /\ HasCommand'
  BY <1>1, <1>2, CallsRest, WorkRest, CommandRest
<1>5. Carried' = Carried /\ Heard' = Heard
  BY <1>4 DEF Carried, Heard
<1>6. ServerTyped'
  <2>1. pipe' \in Seq(Carried)
    <3>1. pipe \in Seq(Carried) /\ <<>> \in Seq(Carried)
      BY <1>1, EmptySeq DEF InjectorTypeOK
    <3> QED BY <1>3, <3>1
  <2>2. session' \in Session
    BY <1>1, <1>2 DEF InjectorTypeOK
  <2> QED BY <1>2, <1>3, <1>5, <2>1, <2>2 DEF ServerTyped
<1>7. PastTyped'
  BY <1>1, <1>2, <1>4, <1>5 DEF PastTyped, InjectorTypeOK
<1> QED BY <1>4, <1>6, <1>7, TypedInParts, PTL DEF Sound
-----------------------------------------------------------------------------
(* The worker. *)

\* An answer, heard or not, ends the command.
LEMMA AnswersTyped ==
  ASSUME InjectorTypeOK, NEW ok \in BOOLEAN, Answers(ok)
  PROVE  CallsTyped' /\ Id' = Id /\ WorkTyped' /\ HasCommand'
<1>1. Id' = Id
  BY DEF Answers, Id
<1>2. answer' \in [Id -> {"none", "ok", "failed", "unresponsive"}]
  BY DEF Answers, InjectorTypeOK
<1>3. waiting' \in Id \cup {0}
  BY DEF Answers, InjectorTypeOK
<1>4. CallsTyped'
  BY <1>1, <1>2, <1>3 DEF Answers, InjectorTypeOK, CallsTyped
<1>5. WorkTyped'
  BY <1>1 DEF Answers, InjectorTypeOK, WorkTyped
<1>6. HasCommand'
  BY DEF Answers, HasCommand
<1> QED BY <1>1, <1>4, <1>5, <1>6

\* A closed session.
LEMMA ClosedTyped == InjectorTypeOK => Closed \in Compositor
BY DEF InjectorTypeOK, Compositor, Closed

\* A failed attempt to connect.
LEMMA AttemptFailsTyped ==
  ASSUME Sound, AttemptFails, stage \in {"dialling", "connecting"}
  PROVE  Sound'
<1>1. InjectorTypeOK /\ HasCommand
  BY DEF Sound
<1>2. /\ session' = NoSession /\ kwin' = Closed /\ wire' = <<>> /\ pipe' = <<>>
      /\ UNCHANGED <<events, got, disturbed, strayed, deaf>>
  BY DEF AttemptFails
<1>3. CallsTyped' /\ Id' = Id /\ WorkTyped' /\ HasCommand'
  <2>1. CASE /\ attempt < Attempts /\ Dials(attempt + 1, purpose)
             /\ UNCHANGED <<callVars, job, result, answer>>
    <3>1. CallsTyped' /\ Id' = Id
      BY <1>1, <2>1, CallsRest
    <3>2. attempt + 1 \in 1 .. Attempts
      BY <1>1, <2>1, InjectionAssumption DEF InjectorTypeOK
    <3>3. WorkTyped'
      BY <1>1, <2>1, <3>1, <3>2 DEF WorkTyped, InjectorTypeOK, Dials
    <3>4. HasCommand'
      BY <1>1, <2>1, <3>1 DEF HasCommand, Dials
    <3> QED BY <3>1, <3>3, <3>4
  <2>2. CASE /\ purpose = "start" /\ stage' = "gone"
             /\ UNCHANGED <<callVars, attempt, purpose, job, result, answer>>
    <3>1. CallsTyped' /\ Id' = Id
      BY <1>1, <2>2, CallsRest
    <3>2. WorkTyped'
      BY <1>1, <2>2, <3>1 DEF WorkTyped, InjectorTypeOK
    <3>3. HasCommand'
      BY <2>2 DEF HasCommand
    <3> QED BY <3>1, <3>2, <3>3
  <2>3. CASE Answers(FALSE)
    BY <1>1, <2>3, AnswersTyped
  <2> QED BY <2>1, <2>2, <2>3 DEF AttemptFails
<1>4. ServerTyped'
  <2>1. kwin' \in Compositor /\ session' \in Session
    BY <1>1, <1>2, ClosedTyped, FreshTyped
  <2>2. wire' \in Seq(Event) /\ pipe' \in Seq(Carried')
    BY <1>2
  <2> QED BY <1>1, <1>2, <2>1, <2>2 DEF ServerTyped, InjectorTypeOK, Session
<1>5. PastTyped'
  BY <1>1, <1>2, <1>3, PastRest
<1> QED BY <1>3, <1>4, <1>5, TypedInParts, PTL DEF Sound

\* A burst goes out: to the end of the pipe, with its command and in its order.
GoesOut == \E s \in Seq(Carried) : /\ Rises(s) /\ DOMAIN s = 1 .. Len(s) /\ Len(s) \in Nat
                                   /\ \A n \in DOMAIN s : s[n].by = job /\ s[n].nth = n
                                   /\ pipe' = pipe \o s

\* What a burst does.
LEMMA BurstsSend ==
  ASSUME InjectorTypeOK, job \in Id, Bursts
  PROVE  /\ session' \in Session /\ strayed' \subseteq Id /\ disturbed' \subseteq Id
         /\ UNCHANGED <<kwin, wire, events, got, deaf>>
         /\ \/ /\ stage' = "reading" /\ result' \in BOOLEAN /\ (pipe' = pipe \/ GoesOut)
               /\ UNCHANGED <<callVars, attempt, purpose, job, answer>>
            \/ Answers(FALSE) /\ pipe' = pipe
<1> DEFINE c == asked[job]
           i == IF session.text THEN session ELSE Resolved(session, c)
           b == IF i.text THEN ByText(c) ELSE ByKeys(i, c)
<1>1. c \in Command /\ session \in Session
  BY DEF InjectorTypeOK, Id
<1>2. i \in Session
  BY <1>1, ResolvedTyped
<1>3. /\ session' = i
      /\ strayed' = IF deaf \/ Doubtful(i, c) THEN strayed \cup {job} ELSE strayed
      /\ UNCHANGED <<kwin, wire, events, got, deaf>>
      /\ \/ /\ pipe' = IF kwin.open THEN pipe \o [n \in DOMAIN b.burst |-> Sent(b.burst[n], job, n)]
                       ELSE pipe
            /\ disturbed' = IF kwin.open /\ wire = <<>> THEN disturbed ELSE disturbed \cup {job}
            /\ stage' = "reading" /\ result' = b.ok
            /\ UNCHANGED <<callVars, attempt, purpose, job, answer>>
         \/ ~kwin.open /\ disturbed' = disturbed \cup {job} /\ Answers(FALSE) /\ UNCHANGED pipe
  BY DEF Bursts
<1> HIDE DEF i
<1>4. b.ok \in BOOLEAN /\ b.burst \in Seq(Raw) /\ Rises(b.burst)
  <2>1. CASE i.text
    <3>1. b = ByText(c)
      BY <2>1
    <3> QED BY <1>1, <3>1, TextBurst
  <2>2. CASE ~i.text
    <3>1. b = ByKeys(i, c)
      BY <2>2
    <3> QED BY <1>1, <1>2, <3>1, KeysBurst
  <2> QED BY <2>1, <2>2
<1> HIDE DEF b, c
<1>5. strayed' \subseteq Id /\ disturbed' \subseteq Id
  BY <1>3 DEF InjectorTypeOK
<1>6. ASSUME pipe' = pipe \o [n \in DOMAIN b.burst |-> Sent(b.burst[n], job, n)]
      PROVE  GoesOut
  <2> DEFINE s == [n \in DOMAIN b.burst |-> Sent(b.burst[n], job, n)]
  <2>1. s = [n \in DOMAIN b.burst |-> Sent(b.burst[n], job, n)]
    OBVIOUS
  <2> HIDE DEF s
  <2>2. /\ s \in Seq(Carried) /\ Rises(s) /\ DOMAIN s = 1 .. Len(s) /\ Len(s) \in Nat
        /\ \A n \in DOMAIN s : s[n].by = job /\ s[n].nth = n
    BY <1>4, <2>1, SentOut
  <2>3. pipe' = pipe \o s
    BY <1>6, <2>1
  <2> QED BY <2>2, <2>3 DEF GoesOut
<1> QED BY <1>2, <1>3, <1>4, <1>5, <1>6

\* A burst keeps the types.
LEMMA BurstsTyped ==
  ASSUME Sound, job \in Id, Bursts
  PROVE  Sound'
<1>1. InjectorTypeOK /\ HasCommand
  BY DEF Sound
<1>2. /\ session' \in Session /\ strayed' \subseteq Id /\ disturbed' \subseteq Id
      /\ UNCHANGED <<kwin, wire, events, got, deaf>>
      /\ \/ /\ stage' = "reading" /\ result' \in BOOLEAN /\ (pipe' = pipe \/ GoesOut)
            /\ UNCHANGED <<callVars, attempt, purpose, job, answer>>
         \/ Answers(FALSE) /\ pipe' = pipe
  BY <1>1, BurstsSend
<1>3. pipe' \in Seq(Carried)
  <2>1. pipe \in Seq(Carried)
    BY <1>1 DEF InjectorTypeOK
  <2>2. ASSUME GoesOut PROVE pipe' \in Seq(Carried)
    <3>1. PICK s \in Seq(Carried) : pipe' = pipe \o s
      BY <2>2 DEF GoesOut
    <3> QED BY <2>1, <3>1, ConcatProperties
  <2> QED BY <1>2, <2>1, <2>2
<1>4. CallsTyped' /\ Id' = Id /\ WorkTyped' /\ HasCommand'
  <2>1. CASE /\ stage' = "reading" /\ result' \in BOOLEAN
             /\ UNCHANGED <<callVars, attempt, purpose, job, answer>>
    <3>1. CallsTyped' /\ Id' = Id
      BY <1>1, <2>1, CallsRest
    <3>2. WorkTyped'
      BY <1>1, <2>1, <3>1 DEF WorkTyped, InjectorTypeOK
    <3>3. HasCommand'
      BY <2>1, <3>1 DEF HasCommand
    <3> QED BY <3>1, <3>2, <3>3
  <2>2. CASE Answers(FALSE)
    BY <1>1, <2>2, AnswersTyped
  <2> QED BY <1>2, <2>1, <2>2
<1>5. Carried' = Carried /\ Heard' = Heard
  BY <1>4 DEF Carried, Heard
<1>6. ServerTyped'
  <2>1. kwin' \in Compositor /\ wire' \in Seq(Event) /\ events' \in 0 .. MaxEvents
    BY <1>1, <1>2 DEF InjectorTypeOK
  <2> QED BY <1>2, <1>3, <1>5, <2>1 DEF ServerTyped
<1>7. PastTyped'
  <2>1. got' \in Seq(Heard) /\ deaf' \in BOOLEAN
    BY <1>1, <1>2 DEF InjectorTypeOK
  <2> QED BY <1>2, <1>4, <1>5, <2>1 DEF PastTyped
<1> QED BY <1>4, <1>6, <1>7, TypedInParts, PTL DEF Sound

\* Connecting.
LEMMA ConnectsTyped == Sound /\ Connects => Sound'
<1> SUFFICES ASSUME Sound, Connects PROVE Sound'
  OBVIOUS
<1>1. InjectorTypeOK /\ HasCommand /\ stage = "dialling"
  BY DEF Sound, Connects
<1>2. CASE AttemptFails
  BY <1>1, <1>2, AttemptFailsTyped
<1>3. CASE ~AttemptFails
  <2>1. PICK o \in Offer :
          /\ session' = Fresh /\ deaf' = FALSE /\ stage' = "connecting"
          /\ kwin' = [Closed EXCEPT !.open = TRUE, !.offers = o] /\ pipe' = <<>>
          /\ wire' = (IF o = "pointer" THEN <<>> ELSE <<Tells("capability")>>) \o <<Tells("seat")>>
          /\ UNCHANGED <<callVars, attempt, purpose, job, result, events, got, answer, disturbed, strayed>>
    BY <1>3 DEF Connects
  <2>2. CallsTyped' /\ Id' = Id
    BY <1>1, <2>1, CallsRest
  <2>3. WorkTyped'
    BY <1>1, <2>1, <2>2 DEF WorkTyped, InjectorTypeOK
  <2>4. HasCommand'
    BY <1>1, <2>1, <2>2 DEF HasCommand
  <2>5. wire' \in Seq(Event)
    <3>1. Tells("capability") \in Event /\ Tells("seat") \in Event
      BY TellsTyped DEF Plain
    <3>2. <<Tells("capability")>> \in Seq(Event) /\ <<Tells("seat")>> \in Seq(Event)
          /\ <<>> \in Seq(Event)
      BY <3>1
    <3>3. (IF o = "pointer" THEN <<>> ELSE <<Tells("capability")>>) \in Seq(Event)
      BY <3>2
    <3> QED BY <2>1, <3>2, <3>3, ConcatProperties
  <2>6. kwin' \in Compositor
    <3>1. o \in {"text", "keyboard", "pointer"}
      BY InjectionAssumption
    <3>2. Closed \in Compositor
      BY <1>1, ClosedTyped
    <3> QED BY <2>1, <3>1, <3>2 DEF Compositor
  <2>7. session' \in Session /\ pipe' \in Seq(Carried') /\ events' \in 0 .. MaxEvents
    BY <1>1, <2>1, FreshTyped, EmptySeq DEF InjectorTypeOK
  <2>8. ServerTyped'
    BY <2>5, <2>6, <2>7 DEF ServerTyped
  <2>9. PastTyped'
    BY <1>1, <2>1, <2>2 DEF PastTyped, InjectorTypeOK, Heard
  <2> QED BY <2>2, <2>3, <2>4, <2>8, <2>9, TypedInParts, PTL DEF Sound
<1> QED BY <1>2, <1>3

\* Reading an event of KWin's.
LEMMA ReadsTyped == Sound /\ Reads => Sound'
<1> SUFFICES ASSUME Sound, Reads PROVE Sound'
  OBVIOUS
<1> DEFINE e == Head(wire)
<1>1. InjectorTypeOK /\ HasCommand /\ wire # <<>>
  BY DEF Sound, Reads
<1>2. e \in Event /\ Tail(wire) \in Seq(Event)
  BY <1>1, HeadTailProperties DEF InjectorTypeOK
<1>3. CASE Refused(session, e) /\ stage = "connecting"
  <2>1. AttemptFails
    BY <1>3 DEF Reads
  <2> QED BY <1>3, <2>1, AttemptFailsTyped
<1>4. CASE ~(Refused(session, e) /\ stage = "connecting")
  <2>1. /\ session' = Handle(session, e) /\ wire' = Tail(wire)
        /\ deaf' = (deaf \/ e.is = "unreadable")
        /\ IF Refused(session, e) /\ stage # "idle" THEN Answers(FALSE)
           ELSE UNCHANGED <<callVars, workVars, answer>>
        /\ UNCHANGED <<kwin, pipe, events, got, disturbed, strayed>>
    BY <1>4 DEF Reads
  <2>2. CallsTyped' /\ Id' = Id /\ WorkTyped' /\ HasCommand'
    <3>1. CASE Answers(FALSE)
      BY <1>1, <3>1, AnswersTyped
    <3>2. CASE UNCHANGED <<callVars, workVars, answer>>
      BY <1>1, <3>2, CallsRest, WorkRest, CommandRest
    <3> QED BY <2>1, <3>1, <3>2
  <2>3. session' \in Session
    <3>1. session \in Session
      BY <1>1 DEF InjectorTypeOK
    <3> QED BY <1>2, <2>1, <3>1, HandleTyped
  <2>4. Carried' = Carried /\ Heard' = Heard
    BY <2>2 DEF Carried, Heard
  <2>5. kwin' \in Compositor /\ pipe' \in Seq(Carried) /\ events' \in 0 .. MaxEvents
    BY <1>1, <2>1 DEF InjectorTypeOK
  <2>6. ServerTyped'
    BY <1>2, <2>1, <2>3, <2>4, <2>5 DEF ServerTyped
  <2>7. deaf' \in BOOLEAN
    BY <1>1, <2>1 DEF InjectorTypeOK
  <2>8. PastTyped'
    BY <1>1, <2>1, <2>2, <2>4, <2>7 DEF PastTyped, InjectorTypeOK
  <2> QED BY <2>2, <2>6, <2>8, TypedInParts, PTL DEF Sound
<1> QED BY <1>3, <1>4

\* The worker's other steps.
Works == \/ Connected \/ SetupEnds \/ Receives \/ EnsuresReady \/ ReadsBack \/ ShutsDown

\* The worker's steps keep the types, and a command in hand.
LEMMA WorksTyped == Sound /\ Works => Sound'
<1> SUFFICES ASSUME Sound, Works PROVE Sound'
  OBVIOUS
<1>1. InjectorTypeOK /\ HasCommand
  BY DEF Sound
<1>2. CASE stage = "connecting" /\ purpose = "send" /\ Bursts
  <2>1. job \in Id
    BY <1>1, <1>2 DEF HasCommand
  <2> QED BY <1>2, <2>1, BurstsTyped
<1>3. CASE stage = "draining" /\ Bursts
  <2>1. job \in Id
    BY <1>1, <1>3 DEF HasCommand
  <2> QED BY <1>3, <2>1, BurstsTyped
<1>4. CASE /\ stage = "connecting" /\ stage' = IF purpose = "start" THEN "idle" ELSE "draining"
           /\ UNCHANGED <<callVars, attempt, purpose, job, result, session, serverVars, history>>
  <2>1. UNCHANGED <<callVars, answer>> /\ UNCHANGED <<session, serverVars>>
        /\ UNCHANGED <<got, disturbed, strayed, deaf>>
    BY <1>4 DEF history
  <2>2. CallsTyped' /\ Id' = Id /\ ServerTyped' /\ PastTyped'
    BY <1>1, <2>1, CallsRest, ServerRest, PastRest
  <2>3. WorkTyped'
    BY <1>1, <1>4, <2>2 DEF WorkTyped, InjectorTypeOK
  <2>4. HasCommand'
    BY <1>1, <1>4, <2>2 DEF HasCommand
  <2> QED BY <2>2, <2>3, <2>4, TypedInParts, PTL DEF Sound
<1>5. CASE SetupEnds
  <2>1. stage = "connecting" /\ AttemptFails
    BY <1>5 DEF SetupEnds
  <2> QED BY <2>1, AttemptFailsTyped
<1>6. CASE Receives
  <2>1. UNCHANGED <<picked, candidate, asked, waiting, held, result, session, serverVars, history>>
        /\ job' = Head(queue) /\ queue' = Tail(queue) /\ queue # <<>>
    BY <1>6 DEF Receives
  <2>2. Id' = Id
    BY <2>1 DEF Id
  <2>3. queue' \in Seq(Id) /\ job' \in Id
    BY <1>1, <2>1, HeadTailProperties DEF InjectorTypeOK
  <2>4. CallsTyped'
    BY <1>1, <2>1, <2>2, <2>3 DEF CallsTyped, InjectorTypeOK, history
  <2>5. stage' \in {"probing", "draining", "dialling"} /\ attempt' \in 1 .. Attempts
        /\ purpose' \in {"start", "drain", "send"}
    <3>1. 1 \in 1 .. Attempts
      BY InjectionAssumption
    <3> QED BY <1>1, <1>6, <3>1 DEF Receives, Dials, InjectorTypeOK
  <2>6. WorkTyped' /\ HasCommand'
    BY <1>1, <2>1, <2>2, <2>3, <2>5 DEF WorkTyped, HasCommand, InjectorTypeOK
  <2>7. ServerTyped' /\ PastTyped'
    BY <1>1, <2>1, <2>2, ServerRest, PastRest DEF history
  <2> QED BY <2>2, <2>4, <2>6, <2>7, TypedInParts, PTL DEF Sound
<1>7. CASE /\ stage = "draining" /\ Dials(1, "send")
           /\ UNCHANGED <<callVars, job, result, session, serverVars, history>>
  <2>1. UNCHANGED <<callVars, answer>> /\ UNCHANGED <<session, serverVars>>
        /\ UNCHANGED <<got, disturbed, strayed, deaf>>
    BY <1>7 DEF history
  <2>2. CallsTyped' /\ Id' = Id /\ ServerTyped' /\ PastTyped'
    BY <1>1, <2>1, CallsRest, ServerRest, PastRest
  <2>3. 1 \in 1 .. Attempts
    BY InjectionAssumption
  <2>4. WorkTyped'
    BY <1>1, <1>7, <2>2, <2>3 DEF WorkTyped, InjectorTypeOK, Dials
  <2>5. HasCommand'
    BY <1>1, <1>7, <2>2 DEF HasCommand, Dials
  <2> QED BY <2>2, <2>4, <2>5, TypedInParts, PTL DEF Sound
<1>8. CASE /\ Answers(FALSE) \/ Answers(~session.dead /\ result)
           /\ UNCHANGED <<session, serverVars, got, disturbed, strayed, deaf>>
  <2>1. FALSE \in BOOLEAN /\ (~session.dead /\ result) \in BOOLEAN
    OBVIOUS
  <2>2. CallsTyped' /\ Id' = Id /\ WorkTyped' /\ HasCommand'
    BY <1>1, <1>8, <2>1, AnswersTyped
  <2>3. ServerTyped' /\ PastTyped'
    BY <1>1, <1>8, <2>2, ServerRest, PastRest
  <2> QED BY <2>2, <2>3, TypedInParts, PTL DEF Sound
<1>9. CASE ShutsDown
  <2>1. /\ stage' = "gone" /\ session' = NoSession
        /\ kwin' = Closed /\ wire' = <<>> /\ pipe' = <<>> /\ disturbed' = disturbed \cup InPipe
        /\ UNCHANGED <<callVars, attempt, purpose, job, result, events, got, answer, strayed, deaf>>
    BY <1>9 DEF ShutsDown
  <2>2. CallsTyped' /\ Id' = Id
    BY <1>1, <2>1, CallsRest
  <2>3. WorkTyped'
    BY <1>1, <2>1, <2>2 DEF WorkTyped, InjectorTypeOK
  <2>4. HasCommand'
    BY <2>1 DEF HasCommand
  <2>5. Closed \in Compositor /\ NoSession \in Session
    BY <1>1, ClosedTyped, FreshTyped
  <2>6. ServerTyped'
    BY <1>1, <2>1, <2>5 DEF ServerTyped, InjectorTypeOK
  <2>7. InPipe \subseteq Id
    <3>1. \A x \in Carried : x.by \in Id
      BY DEF Carried
    <3>2. pipe \in Seq(Carried)
      BY <1>1 DEF InjectorTypeOK
    <3>3. \A n \in DOMAIN pipe : pipe[n].by \in Id
      BY <3>1, <3>2
    <3> QED BY <3>3 DEF InPipe
  <2>8. PastTyped'
    BY <1>1, <2>1, <2>2, <2>7 DEF PastTyped, InjectorTypeOK, Heard
  <2> QED BY <2>2, <2>3, <2>4, <2>6, <2>8, TypedInParts, PTL DEF Sound
<1> QED BY <1>2, <1>3, <1>4, <1>5, <1>6, <1>7, <1>8, <1>9
        DEF Works, Connected, EnsuresReady, ReadsBack, Drained
-----------------------------------------------------------------------------
(* The callers. *)

\* A command that is given.
LEMMA SendsTyped ==
  ASSUME InjectorTypeOK, NEW c \in Command, Sends(c)
  PROVE  /\ asked' \in Seq(Command) /\ Id' = Id \cup {Len(asked) + 1}
         /\ Len(asked) \in Nat /\ Id = 1 .. Len(asked)
         /\ waiting' \in Id' /\ queue' \in Seq(Id') /\ queue' = Append(queue, Len(asked) + 1)
         /\ answer' \in [Id' -> {"none", "ok", "failed", "unresponsive"}]
<1>1. /\ asked \in Seq(Command) /\ queue \in Seq(Id)
      /\ answer \in [Id -> {"none", "ok", "failed", "unresponsive"}]
  BY DEF InjectorTypeOK
<1> DEFINE N == Len(asked)
<1>2. N \in Nat /\ Id = 1 .. N
  BY <1>1 DEF Id
<1>3. asked' \in Seq(Command) /\ Len(asked') = N + 1
  BY <1>1, AppendProperties DEF Sends
<1>4. Id' = 1 .. (N + 1)
  BY <1>3 DEF Id
<1> HIDE DEF N
<1>5. Id' = Id \cup {N + 1}
  BY <1>2, <1>4
<1>6. queue \in Seq(Id') /\ N + 1 \in Id'
  BY <1>1, <1>5, SeqMonotonic
<1>7. queue' = Append(queue, N + 1) /\ waiting' = N + 1
  BY DEF Sends, N
<1>8. queue' \in Seq(Id')
  BY <1>6, <1>7, AppendProperties
<1>9. answer' \in [Id' -> {"none", "ok", "failed", "unresponsive"}]
  <2> DEFINE A == {"none", "ok", "failed", "unresponsive"}
  <2>1. answer \in Seq(A) /\ Len(answer) = N
    BY <1>1, <1>2
  <2>2. answer' = Append(answer, "none") /\ "none" \in A
    BY DEF Sends
  <2>3. answer' \in Seq(A) /\ Len(answer') = N + 1
    BY <2>1, <2>2, AppendProperties
  <2> QED BY <1>4, <2>3
<1> QED BY <1>2, <1>3, <1>5, <1>6, <1>7, <1>8, <1>9 DEF N

\* With a command more, everything else is as it was.
LEMMA MoreCommands ==
  ASSUME Sound, Id \subseteq Id',
         UNCHANGED <<workVars, session, serverVars, got, disturbed, strayed, deaf>>
  PROVE  WorkTyped' /\ HasCommand' /\ ServerTyped' /\ PastTyped'
<1>1. InjectorTypeOK /\ HasCommand
  BY DEF Sound
<1>2. WorkTyped' /\ HasCommand'
  BY <1>1, WorkRest, CommandRest
<1>3. pipe' \in Seq(Carried')
  <2>1. Carried \subseteq Carried'
    BY DEF Carried
  <2>2. pipe \in Seq(Carried) /\ pipe' = pipe
    BY <1>1 DEF InjectorTypeOK, serverVars
  <2> QED BY <2>1, <2>2, SeqMonotonic
<1>4. got' \in Seq(Heard')
  <2>1. Heard \subseteq Heard'
    BY DEF Heard
  <2>2. got \in Seq(Heard) /\ got' = got
    BY <1>1 DEF InjectorTypeOK
  <2> QED BY <2>1, <2>2, SeqMonotonic
<1>5. ServerTyped'
  BY <1>1, <1>3 DEF ServerTyped, InjectorTypeOK, serverVars
<1>6. PastTyped'
  BY <1>1, <1>4 DEF PastTyped, InjectorTypeOK
<1> QED BY <1>2, <1>5, <1>6

\* So do the callers' steps.
LEMMA CallerTyped == Sound /\ Caller => Sound'
<1> SUFFICES ASSUME Sound, Caller PROVE Sound'
  OBVIOUS
<1>1. InjectorTypeOK /\ HasCommand
  BY DEF Sound
<1>2. TriesNext => candidate' \in Nat /\ picked' \in {"trying", "none"}
  BY <1>1 DEF TriesNext, InjectorTypeOK
<1>3. ASSUME NEW c \in Command, Sends(c), held' = held, candidate' = candidate,
             picked' \in {"probing", "eis"},
             UNCHANGED <<workVars, session, serverVars, got, disturbed, strayed, deaf>>
      PROVE  Sound'
  <2>1. /\ asked' \in Seq(Command) /\ Id \subseteq Id'
        /\ waiting' \in Id' /\ queue' \in Seq(Id')
        /\ answer' \in [Id' -> {"none", "ok", "failed", "unresponsive"}]
    BY <1>1, <1>3, SendsTyped
  <2>2. WorkTyped' /\ HasCommand' /\ ServerTyped' /\ PastTyped'
    BY <1>3, <2>1, MoreCommands
  <2>3. CallsTyped'
    BY <1>1, <1>3, <2>1 DEF CallsTyped, InjectorTypeOK
  <2> QED BY <2>2, <2>3, TypedInParts, PTL DEF Sound
<1>4. ASSUME UNCHANGED <<asked, queue, workVars, session, serverVars, got, disturbed, strayed, deaf>>,
             picked' \in {"trying", "starting", "probing", "eis", "ydotool", "none"}, candidate' \in Nat,
             held' \in BOOLEAN, waiting' \in Id \cup {0},
             answer' \in [Id -> {"none", "ok", "failed", "unresponsive"}]
      PROVE  Sound'
  <2>1. Id' = Id
    BY <1>4 DEF Id
  <2>2. WorkTyped' /\ HasCommand' /\ ServerTyped' /\ PastTyped'
    BY <1>4, <2>1, MoreCommands
  <2>3. CallsTyped'
    BY <1>1, <1>4, <2>1 DEF CallsTyped, InjectorTypeOK
  <2> QED BY <2>2, <2>3, TypedInParts, PTL DEF Sound
<1>5. /\ picked \in {"trying", "starting", "probing", "eis", "ydotool", "none"} /\ candidate \in Nat
      /\ held \in BOOLEAN /\ waiting \in Id \cup {0}
      /\ answer \in [Id -> {"none", "ok", "failed", "unresponsive"}]
  BY <1>1 DEF InjectorTypeOK
<1>6. CASE CallerGivesUp
  <2>1. waiting' = 0 /\ answer' = [answer EXCEPT ![waiting] = "unresponsive"]
        /\ UNCHANGED <<picked, candidate, asked, queue, held, workVars, session, serverVars,
                       got, disturbed, strayed, deaf>>
    BY <1>6 DEF CallerGivesUp
  <2>2. answer' \in [Id -> {"none", "ok", "failed", "unresponsive"}]
    BY <1>5, <2>1
  <2> QED BY <1>4, <1>5, <2>1, <2>2
<1>7. CASE StartsWorker
  <2>1. /\ picked' = "starting" /\ held' = TRUE /\ Dials(1, "start")
        /\ UNCHANGED <<candidate, asked, waiting, queue, job, result, session, serverVars, history>>
    BY <1>7 DEF StartsWorker
  <2>2. Id' = Id
    BY <2>1 DEF Id
  <2>3. CallsTyped'
    BY <1>1, <2>1, <2>2 DEF CallsTyped, InjectorTypeOK, history
  <2>4. 1 \in 1 .. Attempts
    BY InjectionAssumption
  <2>5. WorkTyped'
    BY <1>1, <2>1, <2>2, <2>4 DEF WorkTyped, InjectorTypeOK, Dials
  <2>6. HasCommand'
    BY <2>1 DEF HasCommand, Dials
  <2>7. ServerTyped' /\ PastTyped'
    BY <1>1, <2>1, <2>2, ServerRest, PastRest DEF history
  <2> QED BY <2>3, <2>5, <2>6, <2>7, TypedInParts, PTL DEF Sound
<1>8. CASE WorkerReports
  <2>1. UNCHANGED <<workVars, session, serverVars, got, disturbed, strayed, deaf>>
    BY <1>8 DEF WorkerReports
  <2> DEFINE probe == [is |-> "probe", text |-> <<>>, keys |-> <<>>]
  <2>2. probe \in Command
    BY DEF Command
  <2>3. CASE picked' = "probing" /\ Sends(probe) /\ UNCHANGED <<candidate, held>>
    BY <1>3, <2>1, <2>2, <2>3
  <2>4. CASE TriesNext /\ held' = FALSE /\ UNCHANGED <<asked, waiting, queue, answer>>
    BY <1>2, <1>4, <1>5, <2>1, <2>4
  <2> QED BY <1>8, <2>3, <2>4 DEF WorkerReports
<1>9. CASE ProbeReturns
  <2>1. /\ UNCHANGED <<asked, waiting, queue, workVars, session, serverVars, history>>
        /\ \/ picked' = "eis" /\ UNCHANGED <<candidate, held>>
           \/ TriesNext /\ held' = FALSE
    BY <1>9 DEF ProbeReturns
  <2>2. UNCHANGED <<answer, got, disturbed, strayed, deaf>>
    BY <2>1 DEF history
  <2> QED BY <1>2, <1>4, <1>5, <2>1, <2>2
<1>10. CASE TriesYdotool
  <2>1. /\ UNCHANGED <<asked, waiting, queue, held, workVars, session, serverVars, history>>
        /\ (picked' = "ydotool" /\ UNCHANGED candidate) \/ TriesNext
    BY <1>10 DEF TriesYdotool
  <2>2. UNCHANGED <<answer, got, disturbed, strayed, deaf>>
    BY <2>1 DEF history
  <2> QED BY <1>2, <1>4, <1>5, <2>1, <2>2
<1>11. CASE Drops
  <2>1. /\ UNCHANGED <<picked, candidate, asked, waiting, queue, workVars, session, serverVars, history>>
        /\ held' = FALSE
    BY <1>11 DEF Drops
  <2>2. UNCHANGED <<answer, got, disturbed, strayed, deaf>>
    BY <2>1 DEF history
  <2> QED BY <1>4, <1>5, <2>1, <2>2
<1>12. ASSUME NEW c \in Asked, Asks(c) PROVE Sound'
  <2>1. c \in Command
    BY InjectionAssumption
  <2>2. /\ picked = "eis" /\ Sends(c)
        /\ UNCHANGED <<picked, candidate, held, workVars, session, serverVars,
                       got, disturbed, strayed, deaf>>
    BY <1>12 DEF Asks
  <2> QED BY <1>3, <2>1, <2>2
<1> QED BY <1>6, <1>7, <1>8, <1>9, <1>10, <1>11, <1>12 DEF Caller

\* At the start.
LEMMA InitSound == InjectorInit => Sound
<1> SUFFICES ASSUME InjectorInit PROVE Sound
  OBVIOUS
<1>1. Id = {}
  BY DEF InjectorInit, Id
<1>2. CallsTyped
  <2>1. <<>> \in [{} -> {"none", "ok", "failed", "unresponsive"}]
    OBVIOUS
  <2>2. asked = <<>> /\ queue = <<>> /\ answer = <<>>
    BY DEF InjectorInit
  <2>3. asked \in Seq(Command) /\ queue \in Seq(Id)
    BY <2>2, EmptySeq
  <2>4. answer \in [Id -> {"none", "ok", "failed", "unresponsive"}]
    BY <1>1, <2>1, <2>2
  <2>5. waiting \in Id \cup {0} /\ candidate \in Nat /\ held \in BOOLEAN
        /\ picked \in {"trying", "starting", "probing", "eis", "ydotool", "none"}
    BY DEF InjectorInit
  <2> QED BY <2>3, <2>4, <2>5 DEF CallsTyped
<1>3. WorkTyped
  BY InjectionAssumption DEF InjectorInit, WorkTyped
<1>4. kwin \in Compositor
  <2>1. PICK m \in Keymap : \E g \in Layouts(m) :
          kwin = [open |-> FALSE, offered |-> FALSE, paused |-> TRUE, offers |-> "pointer",
                  map |-> m, group |-> g, down |-> {}]
    BY DEF InjectorInit
  <2>2. PICK g \in Layouts(m) :
          kwin = [open |-> FALSE, offered |-> FALSE, paused |-> TRUE, offers |-> "pointer",
                  map |-> m, group |-> g, down |-> {}]
    BY <2>1
  <2>3. g \in Nat \ {0}
    BY <2>2, LayoutsNumbered
  <2> QED BY <2>2, <2>3 DEF Compositor
<1>5. ServerTyped
  BY <1>4, FreshTyped, InjectionAssumption DEF InjectorInit, ServerTyped
<1>6. PastTyped
  <2>1. got \in Seq(Heard)
    BY EmptySeq DEF InjectorInit
  <2> QED BY <2>1 DEF InjectorInit, PastTyped
<1>7. HasCommand
  BY DEF InjectorInit, HasCommand
<1> QED BY <1>2, <1>3, <1>5, <1>6, <1>7, TypedInParts DEF Sound

\* Every step keeps the types.
LEMMA NextSound == Sound /\ [InjectorNext]_injectorVars => Sound'
<1> SUFFICES ASSUME Sound, [InjectorNext]_injectorVars PROVE Sound'
  OBVIOUS
<1>1. CASE UNCHANGED injectorVars
  <2>1. InjectorTypeOK /\ HasCommand
    BY DEF Sound
  <2>2. UNCHANGED <<callVars, answer>> /\ UNCHANGED workVars /\ UNCHANGED <<session, serverVars>>
        /\ UNCHANGED <<got, disturbed, strayed, deaf>>
    BY <1>1 DEF injectorVars, history
  <2>3. CallsTyped' /\ Id' = Id /\ WorkTyped' /\ HasCommand' /\ ServerTyped' /\ PastTyped'
    BY <2>1, <2>2, CallsRest, WorkRest, CommandRest, ServerRest, PastRest
  <2> QED BY <2>3, TypedInParts, PTL DEF Sound
<1>2. CASE Lands
  BY <1>2, LandsTyped
<1>3. CASE Serves
  BY <1>3, ServesTyped
<1>4. CASE Connects
  BY <1>4, ConnectsTyped
<1>5. CASE Reads
  BY <1>5, ReadsTyped
<1>6. CASE Works
  BY <1>6, WorksTyped
<1>7. CASE Caller
  BY <1>7, CallerTyped
<1> QED BY <1>1, <1>2, <1>3, <1>4, <1>5, <1>6, <1>7 DEF InjectorNext, Server, Worker, Serves, Works

\* The commands, the session, the socket and KWin keep their types: a key is pressed only
\* where the keymap has one, and a reply belongs to a command (eis.rs, worker_main, Inner).
THEOREM InjectorTyped == InjectorSpec => []InjectorTypeOK
<1>1. InjectorSpec => []Sound
  BY InitSound, NextSound, PTL DEF InjectorSpec
<1>2. Sound => InjectorTypeOK
  BY DEF Sound
<1> QED BY <1>1, <1>2, PTL

-----------------------------------------------------------------------------
(* No key stays down. *)

\* Where nothing new is pressed.
LEMMA DownAsBefore ==
  ASSUME KeysRise, pipe' = pipe, kwin'.down = kwin.down, kwin'.paused => kwin.paused
  PROVE  KeysRise'
BY DEF KeysRise, Rises, ReleasedBy

\* Where KWin lets go of everything.
LEMMA LetsGo ==
  ASSUME KeysRise, pipe' = pipe \/ pipe' = <<>>, kwin'.down = {}
  PROVE  KeysRise'
BY DEF KeysRise, Rises, ReleasedBy

\* Where a burst goes out.
LEMMA BurstRises ==
  ASSUME Sound, KeysRise, GoesOut, kwin' = kwin
  PROVE  KeysRise'
<1>1. PICK s \in Seq(Carried) : Rises(s) /\ pipe' = pipe \o s
  BY DEF GoesOut
<1>2. pipe \in Seq(Carried) /\ Rises(pipe)
  BY DEF Sound, InjectorTypeOK, KeysRise
<1>3. Rises(pipe')
  BY <1>1, <1>2, RisesTogether
<1>4. ASSUME NEW n \in DOMAIN pipe PROVE n \in DOMAIN pipe' /\ pipe'[n] = pipe[n]
  BY <1>1, <1>2, ConcatProperties
<1>5. ASSUME NEW x \in kwin.down PROVE \E n \in DOMAIN pipe' : ReleasedBy(pipe', n, x)
  <2>1. PICK n \in DOMAIN pipe : ReleasedBy(pipe, n, x)
    BY DEF KeysRise
  <2> QED BY <1>4, <2>1 DEF ReleasedBy
<1> QED BY <1>3, <1>5 DEF KeysRise, Rises, ReleasedBy

\* Where KWin reads an event.
LEMMA LandsRises == Sound /\ KeysRise /\ Lands => KeysRise'
<1> SUFFICES ASSUME Sound, KeysRise, Lands PROVE KeysRise'
  OBVIOUS
<1> DEFINE m == Head(pipe)
<1>1. pipe \in Seq(Carried) /\ pipe # <<>> /\ pipe' = Tail(pipe) /\ kwin \in Compositor
  BY DEF Sound, InjectorTypeOK, Lands
<1>2. /\ m = pipe[1] /\ 1 \in DOMAIN pipe /\ Len(pipe) \in Nat /\ DOMAIN pipe = 1 .. Len(pipe)
      /\ DOMAIN pipe' = 1 .. Len(pipe) - 1
      /\ \A n \in 1 .. Len(pipe) - 1 : pipe'[n] = pipe[n + 1]
  <2>1. /\ Tail(pipe) \in Seq(Carried) /\ Len(Tail(pipe)) = Len(pipe) - 1
        /\ \A i \in 1 .. Len(Tail(pipe)) : Tail(pipe)[i] = pipe[i + 1]
    BY <1>1, HeadTailProperties
  <2>2. DOMAIN Tail(pipe) = 1 .. Len(Tail(pipe))
    BY <2>1, LenProperties
  <2> QED BY <1>1, <2>1, <2>2
<1>3. ASSUME NEW x, NEW n \in DOMAIN pipe, n # 1, ReleasedBy(pipe, n, x)
      PROVE  n - 1 \in DOMAIN pipe' /\ ReleasedBy(pipe', n - 1, x)
  <2>1. n - 1 \in 1 .. Len(pipe) - 1 /\ (n - 1) + 1 = n
    BY <1>2, <1>3
  <2> QED BY <1>2, <1>3, <2>1 DEF ReleasedBy
<1>4. Rises(pipe')
  <2>1. SUFFICES ASSUME NEW k \in DOMAIN pipe', pipe'[k].is = "press"
                 PROVE  \E n \in DOMAIN pipe' : k < n /\ ReleasedBy(pipe', n, pipe'[k].what)
    BY DEF Rises
  <2>2. k + 1 \in DOMAIN pipe /\ pipe'[k] = pipe[k + 1] /\ k \in Nat /\ k >= 1
    BY <1>2
  <2>3. PICK n \in DOMAIN pipe : k + 1 < n /\ ReleasedBy(pipe, n, pipe[k + 1].what)
    BY <2>1, <2>2 DEF KeysRise, Rises
  <2>4. n # 1 /\ k < n - 1
    BY <1>2, <2>2, <2>3
  <2> QED BY <1>3, <2>2, <2>3, <2>4
<1>5. kwin'.paused = kwin.paused
  BY <1>1 DEF Lands, Compositor
<1>6. kwin'.paused => kwin'.down = {}
  <2>1. kwin.paused => kwin' = kwin
    BY DEF Lands
  <2> QED BY <1>5, <2>1 DEF KeysRise
<1>7. ASSUME NEW x \in kwin'.down PROVE \E n \in DOMAIN pipe' : ReleasedBy(pipe', n, x)
  <2>1. ~kwin.paused
    BY <1>5, <1>6, <1>7
  <2>2. CASE m.is = "press" /\ x = m.what
    <3>1. PICK n \in DOMAIN pipe : 1 < n /\ ReleasedBy(pipe, n, pipe[1].what)
      BY <1>2, <2>2 DEF KeysRise, Rises
    <3> QED BY <1>2, <1>3, <2>2, <3>1
  <2>3. CASE x \in kwin.down /\ ~(m.is = "release" /\ x = m.what)
    <3>1. PICK n \in DOMAIN pipe : ReleasedBy(pipe, n, x)
      BY <2>3 DEF KeysRise
    <3>2. n # 1
      BY <1>2, <2>3, <3>1 DEF ReleasedBy
    <3> QED BY <1>3, <3>1, <3>2
  <2>4. \/ m.is = "press" /\ x = m.what
        \/ x \in kwin.down /\ ~(m.is = "release" /\ x = m.what)
    <3>1. CASE m.is = "press"
      <4>1. kwin' = [kwin EXCEPT !.down = @ \cup {m.what}]
        BY <2>1, <3>1 DEF Lands
      <4>2. kwin'.down = kwin.down \cup {m.what}
        BY <1>1, <4>1 DEF Compositor
      <4> QED BY <3>1, <4>2
    <3>2. CASE m.is = "release"
      <4>1. kwin' = [kwin EXCEPT !.down = @ \ {m.what}]
        BY <2>1, <3>2 DEF Lands
      <4>2. kwin'.down = kwin.down \ {m.what}
        BY <1>1, <4>1 DEF Compositor
      <4> QED BY <4>2
    <3>3. CASE m.is \notin {"press", "release"}
      <4>1. kwin' = kwin
        BY <2>1, <3>3 DEF Lands
      <4> QED BY <3>3, <4>1
    <3> QED BY <3>1, <3>2, <3>3
  <2> QED BY <2>2, <2>3, <2>4
<1> QED BY <1>4, <1>6, <1>7 DEF KeysRise, Rises, ReleasedBy

\* A burst that goes out, or does not.
LEMMA BurstsRise ==
  ASSUME Sound, KeysRise, job \in Id, Bursts
  PROVE  KeysRise'
<1>1. kwin' = kwin /\ (pipe' = pipe \/ GoesOut)
  BY BurstsSend DEF Sound
<1> QED BY <1>1, BurstRises, DownAsBefore

\* A failed attempt to connect.
LEMMA AttemptFailsRises ==
  ASSUME Sound, KeysRise, AttemptFails
  PROVE  KeysRise'
<1>1. kwin' = Closed /\ pipe' = <<>>
  BY DEF AttemptFails
<1>2. kwin \in Compositor
  BY DEF Sound, InjectorTypeOK
<1>3. Closed.down = {}
  BY <1>2 DEF Closed, Compositor
<1> QED BY <1>1, <1>3, LetsGo

\* Whatever happens, what is down or will be has its release to come.
LEMMA NextRises == Sound /\ KeysRise /\ [InjectorNext]_injectorVars => KeysRise'
<1> SUFFICES ASSUME Sound, KeysRise, [InjectorNext]_injectorVars PROVE KeysRise'
  OBVIOUS
<1>1. kwin \in Compositor
  BY DEF Sound, InjectorTypeOK
<1>2. UNCHANGED serverVars => KeysRise'
  BY DownAsBefore DEF serverVars
<1>3. CASE UNCHANGED injectorVars
  BY <1>2, <1>3 DEF injectorVars
<1>4. CASE Lands
  BY <1>4, LandsRises
<1>5. CASE Offers
  <2>1. pipe' = pipe /\ kwin' = [kwin EXCEPT !.offered = TRUE]
    BY <1>5 DEF Offers
  <2>2. kwin'.down = kwin.down /\ kwin'.paused = kwin.paused
    BY <1>1, <2>1 DEF Compositor
  <2> QED BY <2>1, <2>2, DownAsBefore
<1>6. CASE Resumes
  <2>1. pipe' = pipe /\ kwin' = [kwin EXCEPT !.paused = FALSE]
    BY <1>6 DEF Resumes
  <2>2. kwin'.down = kwin.down /\ ~kwin'.paused
    BY <1>1, <2>1 DEF Compositor
  <2> QED BY <2>1, <2>2, DownAsBefore
<1>7. CASE Pauses \/ Disconnects
  <2>1. (pipe' = pipe \/ pipe' = <<>>)
    BY <1>7 DEF Pauses, Disconnects
  <2>2. kwin'.down = {}
    BY <1>1, <1>7 DEF Pauses, Disconnects, Compositor
  <2> QED BY <2>1, <2>2, LetsGo
<1>8. CASE SwitchesLayout \/ ChangesKeymap
  <2>1. pipe' = pipe
    BY <1>8 DEF SwitchesLayout, ChangesKeymap
  <2>2. kwin'.down = kwin.down /\ kwin'.paused = kwin.paused
    BY <1>1, <1>8 DEF SwitchesLayout, ChangesKeymap, Compositor
  <2> QED BY <2>1, <2>2, DownAsBefore
<1>9. CASE AttemptFails
  BY <1>9, AttemptFailsRises
<1>10. CASE Connects /\ ~AttemptFails
  <2>1. PICK o \in Offer : kwin' = [Closed EXCEPT !.open = TRUE, !.offers = o] /\ pipe' = <<>>
    BY <1>10 DEF Connects
  <2>2. kwin'.down = {}
    BY <1>1, <2>1 DEF Closed, Compositor
  <2> QED BY <2>1, <2>2, LetsGo
<1>11. CASE Reads /\ ~AttemptFails
  <2>1. UNCHANGED <<kwin, pipe>>
    BY <1>11 DEF Reads
  <2> QED BY <2>1, DownAsBefore
<1>12. CASE (Connected \/ EnsuresReady) /\ Bursts
  <2>1. \/ stage = "draining"
        \/ stage = "connecting" /\ purpose = "send"
        \/ UNCHANGED serverVars
    BY <1>12 DEF Connected, EnsuresReady
  <2>2. job \in Id \/ UNCHANGED serverVars
    BY <2>1 DEF Sound, HasCommand
  <2> QED BY <1>2, <1>12, <2>2, BurstsRise
<1>13. CASE ((Connected \/ EnsuresReady) /\ ~Bursts) \/ Receives \/ ReadsBack \/ Caller
  <2>1. UNCHANGED serverVars
    BY <1>13 DEF Connected, EnsuresReady, Receives, ReadsBack, Caller, CallerGivesUp, StartsWorker,
       WorkerReports, ProbeReturns, TriesYdotool, Drops, Asks
  <2> QED BY <1>2, <2>1
<1>14. CASE SetupEnds
  BY <1>9, <1>14 DEF SetupEnds
<1>15. CASE ShutsDown
  <2>1. kwin' = Closed /\ pipe' = <<>>
    BY <1>15 DEF ShutsDown
  <2>2. kwin'.down = {}
    BY <1>1, <2>1 DEF Closed, Compositor
  <2> QED BY <2>1, <2>2, LetsGo
<1> QED BY <1>3, <1>4, <1>5, <1>6, <1>7, <1>8, <1>9, <1>10, <1>11, <1>12, <1>13, <1>14, <1>15
        DEF InjectorNext, Server, Worker

\* At first no key is down.
LEMMA InitRises == InjectorInit => KeysRise
<1> SUFFICES ASSUME InjectorInit PROVE KeysRise
  OBVIOUS
<1>1. pipe = <<>> /\ kwin.down = {}
  BY DEF InjectorInit
<1>2. DOMAIN pipe = {}
  BY <1>1
<1> QED BY <1>1, <1>2 DEF KeysRise, Rises

\* No burst leaves a key down, for any keymap and layout, and whatever pauses, disconnects
\* or changes its keymap meanwhile (eis.rs, key_chord and type_text).
THEOREM KeysComeUp == InjectorSpec => []KeysUp
<1>1. InjectorInit => Sound /\ KeysRise
  BY InitSound, InitRises
<1>2. Sound /\ KeysRise /\ [InjectorNext]_injectorVars => (Sound /\ KeysRise)'
  BY NextSound, NextRises
<1>3. KeysRise => KeysUp
  <2> SUFFICES ASSUME KeysRise, pipe = <<>> PROVE kwin.down = {}
    BY DEF KeysUp
  <2>1. DOMAIN pipe = {}
    OBVIOUS
  <2> QED BY <2>1 DEF KeysRise
<1> QED BY <1>1, <1>2, <1>3, PTL DEF InjectorSpec

-----------------------------------------------------------------------------
(* Once and in order. *)

InOrder == InTurn /\ Streams /\ OnceInOrder

\* Everything that is queued, in hand, on its way or has landed belongs to a command.
LEMMA AllNumbered ==
  InjectorTypeOK => /\ \A n \in DOMAIN queue : queue[n] \in Id
                    /\ \A x \in Underway : x.by \in Id
                    /\ \A n \in DOMAIN pipe : pipe[n] \in Carried /\ pipe[n].by \in Nat /\ pipe[n].nth \in Nat
                    /\ \A n \in DOMAIN got : got[n] \in Heard /\ got[n].by \in Nat /\ got[n].nth \in Nat
                    /\ DOMAIN got = 1 .. Len(got) /\ Len(got) \in Nat
                    /\ DOMAIN pipe = 1 .. Len(pipe) /\ Len(pipe) \in Nat
                    /\ DOMAIN queue = 1 .. Len(queue) /\ Len(queue) \in Nat
<1> SUFFICES ASSUME InjectorTypeOK
             PROVE  /\ \A n \in DOMAIN queue : queue[n] \in Id
                    /\ \A x \in Underway : x.by \in Id
                    /\ \A n \in DOMAIN pipe : pipe[n] \in Carried /\ pipe[n].by \in Nat /\ pipe[n].nth \in Nat
                    /\ \A n \in DOMAIN got : got[n] \in Heard /\ got[n].by \in Nat /\ got[n].nth \in Nat
                    /\ DOMAIN got = 1 .. Len(got) /\ Len(got) \in Nat
                    /\ DOMAIN pipe = 1 .. Len(pipe) /\ Len(pipe) \in Nat
                    /\ DOMAIN queue = 1 .. Len(queue) /\ Len(queue) \in Nat
  OBVIOUS
<1>1. queue \in Seq(Id) /\ pipe \in Seq(Carried) /\ got \in Seq(Heard)
  BY DEF InjectorTypeOK
<1>2. Id \subseteq Nat
  BY Numbers
<1>3. \A x \in Carried : x.by \in Id /\ x.nth \in Nat
  BY DEF Carried
<1>4. \A x \in Heard : x.by \in Id /\ x.nth \in Nat
  BY DEF Heard
<1>5. /\ \A n \in DOMAIN queue : queue[n] \in Id
      /\ \A n \in DOMAIN pipe : pipe[n] \in Carried
      /\ \A n \in DOMAIN got : got[n] \in Heard
  BY <1>1
<1>6. \A x \in Underway : x.by \in Id
  BY <1>3, <1>4, <1>5 DEF Underway, Range
<1>7. /\ \A n \in DOMAIN pipe : pipe[n] \in Carried /\ pipe[n].by \in Nat /\ pipe[n].nth \in Nat
      /\ \A n \in DOMAIN got : got[n] \in Heard /\ got[n].by \in Nat /\ got[n].nth \in Nat
  BY <1>2, <1>3, <1>4, <1>5
<1>8. /\ DOMAIN got = 1 .. Len(got) /\ Len(got) \in Nat
      /\ DOMAIN pipe = 1 .. Len(pipe) /\ Len(pipe) \in Nat
      /\ DOMAIN queue = 1 .. Len(queue) /\ Len(queue) \in Nat
  BY <1>1, LenProperties
<1> QED BY <1>5, <1>6, <1>7, <1>8

\* Where nothing is taken from the queue or sent.
LEMMA TurnAsBefore ==
  ASSUME InTurn, queue' = queue, job' = job \/ job' = 0,
         stage = "reading" /\ job' # 0 => stage' = "reading",
         \A x \in Underway' : \E y \in Underway : x.by = y.by
  PROVE  InTurn'
<1>1. \A m, n \in DOMAIN queue' : m < n => queue'[m] < queue'[n]
  BY DEF InTurn
<1>2. job' # 0 => \A n \in DOMAIN queue' : job' < queue'[n]
  BY DEF InTurn
<1>3. ASSUME NEW x \in Underway', NEW n \in DOMAIN queue' PROVE x.by < queue'[n]
  <2>1. PICK y \in Underway : x.by = y.by
    OBVIOUS
  <2> QED BY <2>1 DEF InTurn
<1>4. ASSUME job' # 0, NEW x \in Underway'
      PROVE  x.by < job' \/ (stage' = "reading" /\ x.by = job')
  <2>1. PICK y \in Underway : x.by = y.by
    OBVIOUS
  <2>2. y.by < job \/ (stage = "reading" /\ y.by = job)
    BY <1>4 DEF InTurn
  <2> QED BY <1>4, <2>1, <2>2
<1> QED BY <1>1, <1>2, <1>3, <1>4 DEF InTurn

\* Where nothing lands, and what is on its way stays or is lost.
LEMMA StreamsAsBefore ==
  ASSUME Streams, OnceInOrder, got' = got, pipe' = pipe \/ pipe' = <<>>
  PROVE  /\ Streams' /\ OnceInOrder'
         /\ \A x \in Underway' : \E y \in Underway : x.by = y.by
<1>1. OnceInOrder'
  BY DEF OnceInOrder, Before
<1>2. CASE pipe' = pipe
  BY <1>1, <1>2 DEF Streams, Earlier, Underway
<1>3. CASE pipe' = <<>>
  <2>1. DOMAIN pipe' = {} /\ Range(pipe') = {}
    BY <1>3 DEF Range
  <2> QED BY <1>1, <2>1 DEF Streams, Underway
<1> QED BY <1>2, <1>3

\* What lands is of the event that was read, character by character.
LEMMA LandsAdds ==
  ASSUME Sound, Lands
  PROVE  \E k \in Nat : /\ Len(got') = Len(got) + k
                        /\ DOMAIN got' = 1 .. Len(got) + k
                        /\ \A n \in 1 .. Len(got) : got'[n] = got[n]
                        /\ \A n \in Len(got) + 1 .. Len(got) + k :
                             got'[n].by = pipe[1].by /\ got'[n].nth = pipe[1].nth
                             /\ got'[n].char = n - Len(got)
<1> DEFINE m == Head(pipe)
           Adds(k) == /\ Len(got') = Len(got) + k
                      /\ DOMAIN got' = 1 .. Len(got) + k
                      /\ \A n \in 1 .. Len(got) : got'[n] = got[n]
                      /\ \A n \in Len(got) + 1 .. Len(got) + k :
                           got'[n].by = pipe[1].by /\ got'[n].nth = pipe[1].nth
                           /\ got'[n].char = n - Len(got)
<1>1. pipe \in Seq(Carried) /\ pipe # <<>> /\ got \in Seq(Heard) /\ InjectorTypeOK
  BY DEF Sound, InjectorTypeOK, Lands
<1>2. m = pipe[1] /\ m \in Carried /\ Len(got) \in Nat /\ DOMAIN got = 1 .. Len(got)
  BY <1>1, HeadTailProperties
<1>3. got' = got => Adds(0)
  BY <1>2
<1>4. CASE kwin.paused \/ m.is = "release"
  <2>1. got' = got
    BY <1>4 DEF Lands
  <2> HIDE DEF Adds
  <2> QED BY <1>3, <2>1 DEF Adds
<1>5. CASE ~kwin.paused /\ m.is = "press"
  <2> DEFINE x == Landed(m, 1, Produces(m.what), HeldDown)
  <2>1. got' = got \/ got' = Append(got, x)
    BY <1>5 DEF Lands
  <2>2. x.by = pipe[1].by /\ x.nth = pipe[1].nth /\ x.char = 1
    BY <1>2 DEF Landed
  <2>3. x \in Heard
    <3>1. m.what \in Stroke
      BY <1>2, <1>5 DEF Carried
    <3>2. Produces(m.what) \in Sym \cup {NoSymbol}
      BY <1>1, <3>1, SymbolsOnly
    <3> QED BY <1>2, <3>2, LandedTyped
  <2> HIDE DEF x
  <2>4. ASSUME got' = Append(got, x) PROVE Adds(1)
    <3>1. /\ got' \in Seq(Heard) /\ Len(got') = Len(got) + 1
          /\ \A n \in 1 .. Len(got) : got'[n] = got[n]
          /\ got'[Len(got) + 1] = x
      BY <1>1, <2>3, <2>4, AppendProperties
    <3>2. \A n \in Len(got) + 1 .. Len(got) + 1 : n = Len(got) + 1 /\ n - Len(got) = 1
      BY <1>2
    <3> QED BY <2>2, <3>1, <3>2
  <2> HIDE DEF Adds
  <2> QED BY <1>3, <2>1, <2>4 DEF Adds
<1>6. CASE ~kwin.paused /\ m.is \notin {"press", "release"}
  <2> DEFINE new == [n \in DOMAIN m.what |-> Landed(m, n, m.what[n], {})]
  <2>1. got' = got \o new
    BY <1>6 DEF Lands
  <2>2. m.what \in Seq(Char)
    BY <1>2, <1>6 DEF Carried
  <2>3. Len(m.what) \in Nat /\ DOMAIN m.what = 1 .. Len(m.what)
        /\ \A n \in 1 .. Len(m.what) : m.what[n] \in Sym
    BY <2>2 DEF Sym
  <2>4. ASSUME NEW n \in 1 .. Len(m.what)
        PROVE  Landed(m, n, m.what[n], {}) \in Heard
    BY <1>2, <2>3, LandedTyped
  <2>5. new \in [1 .. Len(m.what) -> Heard]
    BY <2>3, <2>4
  <2>6. new \in Seq(Heard) /\ Len(new) = Len(m.what)
    BY <2>3, <2>5
  <2>7. \A n \in 1 .. Len(m.what) : new[n].by = pipe[1].by /\ new[n].nth = pipe[1].nth /\ new[n].char = n
    BY <1>2, <2>3 DEF Landed
  <2> DEFINE k == Len(m.what)
  <2> HIDE DEF new
  <2>8. /\ got' \in Seq(Heard) /\ Len(got') = Len(got) + k
        /\ \A i \in 1 .. Len(got) + k : got'[i] = IF i <= Len(got) THEN got[i] ELSE new[i - Len(got)]
    <3>1. /\ got \o new \in Seq(Heard) /\ Len(got \o new) = Len(got) + Len(new)
          /\ \A i \in 1 .. Len(got) + Len(new) :
               (got \o new)[i] = IF i <= Len(got) THEN got[i] ELSE new[i - Len(got)]
      BY <1>1, <2>6, ConcatProperties
    <3> QED BY <2>1, <2>6, <3>1
  <2>9. k \in Nat
    BY <2>3
  <2> HIDE DEF k
  <2>10. \A n \in 1 .. Len(got) : got'[n] = got[n]
    BY <1>2, <2>8, <2>9
  <2>11. ASSUME NEW n \in Len(got) + 1 .. Len(got) + k
         PROVE  got'[n].by = pipe[1].by /\ got'[n].nth = pipe[1].nth /\ got'[n].char = n - Len(got)
    <3>1. n - Len(got) \in 1 .. k /\ ~(n <= Len(got)) /\ n \in 1 .. Len(got) + k
      BY <1>2, <2>9
    <3>2. got'[n] = new[n - Len(got)]
      BY <2>8, <3>1
    <3> QED BY <2>7, <3>1, <3>2 DEF k
  <2>12. DOMAIN got' = 1 .. Len(got) + k
    BY <2>8, LenProperties
  <2>13. Adds(k)
    BY <2>8, <2>10, <2>11, <2>12
  <2> HIDE DEF Adds
  <2> QED BY <2>9, <2>13 DEF Adds
<1> QED BY <1>4, <1>5, <1>6

\* What lands follows what has, and precedes what is still to come.
LEMMA LandsInOrder == Sound /\ InOrder /\ Lands => InOrder'
<1> SUFFICES ASSUME Sound, InOrder, Lands PROVE InOrder'
  OBVIOUS
<1>1. InTurn /\ Streams /\ OnceInOrder /\ InjectorTypeOK
  BY DEF InOrder, Sound
<1>2. PICK k \in Nat : /\ Len(got') = Len(got) + k
                       /\ DOMAIN got' = 1 .. Len(got) + k
                       /\ \A n \in 1 .. Len(got) : got'[n] = got[n]
                       /\ \A n \in Len(got) + 1 .. Len(got) + k :
                            got'[n].by = pipe[1].by /\ got'[n].nth = pipe[1].nth
                            /\ got'[n].char = n - Len(got)
  BY LandsAdds
<1>3. /\ \A n \in DOMAIN pipe : pipe[n] \in Carried /\ pipe[n].by \in Nat /\ pipe[n].nth \in Nat
      /\ \A n \in DOMAIN got : got[n] \in Heard /\ got[n].by \in Nat /\ got[n].nth \in Nat
      /\ DOMAIN got = 1 .. Len(got) /\ Len(got) \in Nat
      /\ DOMAIN pipe = 1 .. Len(pipe) /\ Len(pipe) \in Nat
  BY <1>1, AllNumbered
<1>4. /\ pipe' = Tail(pipe) /\ pipe # <<>> /\ queue' = queue /\ job' = job /\ stage' = stage
  BY DEF Lands, callVars, workVars
<1>5. /\ 1 \in DOMAIN pipe /\ DOMAIN pipe' = 1 .. Len(pipe) - 1
      /\ \A n \in 1 .. Len(pipe) - 1 : pipe'[n] = pipe[n + 1] /\ n + 1 \in DOMAIN pipe
  <2>1. pipe \in Seq(Carried)
    BY <1>1 DEF InjectorTypeOK
  <2>2. /\ Tail(pipe) \in Seq(Carried) /\ Len(Tail(pipe)) = Len(pipe) - 1
        /\ \A i \in 1 .. Len(Tail(pipe)) : Tail(pipe)[i] = pipe[i + 1]
    BY <1>4, <2>1, HeadTailProperties
  <2>3. DOMAIN Tail(pipe) = 1 .. Len(Tail(pipe))
    BY <2>2, LenProperties
  <2>4. Len(pipe) >= 1
    BY <1>4, <2>1
  <2> QED BY <1>3, <1>4, <2>2, <2>3, <2>4
<1>6. pipe[1] \in Range(pipe) /\ pipe[1].by \in Nat /\ pipe[1].nth \in Nat
  BY <1>3, <1>5 DEF Range
<1>7. ASSUME NEW x \in Range(got')
      PROVE  x \in Range(got) \/ (x.by = pipe[1].by /\ x.nth = pipe[1].nth)
  <2>1. PICK n \in DOMAIN got' : x = got'[n]
    BY DEF Range
  <2>2. CASE n <= Len(got)
    <3>1. n \in DOMAIN got /\ x = got[n]
      BY <1>2, <1>3, <2>1, <2>2
    <3> QED BY <3>1 DEF Range
  <2>3. CASE ~(n <= Len(got))
    <3>1. n \in Len(got) + 1 .. Len(got) + k
      BY <1>2, <1>3, <2>3
    <3> QED BY <1>2, <2>1, <3>1
  <2> QED BY <2>2, <2>3
<1>8. ASSUME NEW y \in Range(pipe')
      PROVE  y \in Range(pipe) /\ Earlier(pipe[1], y)
  <2>1. PICK n \in DOMAIN pipe' : y = pipe'[n]
    BY DEF Range
  <2>2. y = pipe[n + 1] /\ n + 1 \in DOMAIN pipe /\ 1 < n + 1
    BY <1>3, <1>5, <2>1
  <2>3. Earlier(pipe[1], pipe[n + 1])
    BY <1>1, <1>5, <2>2 DEF Streams
  <2> QED BY <2>2, <2>3 DEF Range
<1>9. \A x \in Underway' : \E y \in Underway : x.by = y.by
  BY <1>6, <1>7, <1>8 DEF Underway
<1>10. InTurn'
  BY <1>1, <1>4, <1>9, TurnAsBefore
<1>11. Streams'
  <2>1. ASSUME NEW m \in DOMAIN pipe', NEW n \in DOMAIN pipe', m < n
        PROVE  Earlier(pipe'[m], pipe'[n])
    <3>1. m + 1 \in DOMAIN pipe /\ n + 1 \in DOMAIN pipe /\ m + 1 < n + 1
          /\ pipe'[m] = pipe[m + 1] /\ pipe'[n] = pipe[n + 1]
      BY <1>3, <1>5, <2>1
    <3>2. Earlier(pipe[m + 1], pipe[n + 1])
      BY <1>1, <3>1 DEF Streams
    <3> QED BY <3>1, <3>2
  <2>2. ASSUME NEW x \in Range(got'), NEW y \in Range(pipe') PROVE Earlier(x, y)
    <3>1. y \in Range(pipe) /\ Earlier(pipe[1], y)
      BY <1>8
    <3>2. CASE x \in Range(got)
      BY <1>1, <3>1, <3>2 DEF Streams
    <3>3. CASE x.by = pipe[1].by /\ x.nth = pipe[1].nth
      BY <3>1, <3>3 DEF Earlier
    <3> QED BY <1>7, <3>2, <3>3
  <2> QED BY <2>1, <2>2 DEF Streams, Earlier
<1>12. OnceInOrder'
  <2>1. SUFFICES ASSUME NEW m \in DOMAIN got', NEW n \in DOMAIN got', m < n
                 PROVE  Before(got'[m], got'[n])
    BY DEF OnceInOrder, Before
  <2>2. CASE n <= Len(got)
    <3>1. m \in DOMAIN got /\ n \in DOMAIN got /\ got'[m] = got[m] /\ got'[n] = got[n]
      BY <1>2, <1>3, <2>1, <2>2
    <3> QED BY <1>1, <2>1, <3>1 DEF OnceInOrder
  <2>3. CASE ~(n <= Len(got)) /\ m <= Len(got)
    <3>1. m \in DOMAIN got /\ got'[m] = got[m] /\ n \in Len(got) + 1 .. Len(got) + k
      BY <1>2, <1>3, <2>1, <2>3
    <3>2. Earlier(got[m], pipe[1])
      BY <1>1, <1>6, <3>1 DEF Streams, Range
    <3>3. got'[n].by = pipe[1].by /\ got'[n].nth = pipe[1].nth
      BY <1>2, <3>1
    <3> QED BY <3>1, <3>2, <3>3 DEF Earlier, Before
  <2>4. CASE ~(n <= Len(got)) /\ ~(m <= Len(got))
    <3>1. n \in Len(got) + 1 .. Len(got) + k /\ m \in Len(got) + 1 .. Len(got) + k
      BY <1>2, <1>3, <2>1, <2>4
    <3>2. /\ got'[m].by = pipe[1].by /\ got'[m].nth = pipe[1].nth /\ got'[m].char = m - Len(got)
          /\ got'[n].by = pipe[1].by /\ got'[n].nth = pipe[1].nth /\ got'[n].char = n - Len(got)
      BY <1>2, <3>1
    <3>3. m - Len(got) < n - Len(got)
      BY <1>3, <2>1, <3>1
    <3> QED BY <3>2, <3>3 DEF Before
  <2> QED BY <2>2, <2>3, <2>4
<1> QED BY <1>10, <1>11, <1>12 DEF InOrder

\* A burst that goes out follows what went before: it is the first of its command.
LEMMA BurstInOrder ==
  ASSUME Sound, InOrder, GoesOut, job \in Id, stage # "reading", stage' = "reading", job' = job,
         queue' = queue, got' = got
  PROVE  InOrder'
<1>1. InTurn /\ Streams /\ OnceInOrder /\ InjectorTypeOK
  BY DEF InOrder, Sound
<1>2. PICK s \in Seq(Carried) : /\ DOMAIN s = 1 .. Len(s) /\ Len(s) \in Nat
                                /\ \A n \in DOMAIN s : s[n].by = job /\ s[n].nth = n
                                /\ pipe' = pipe \o s
  BY DEF GoesOut
<1>3. pipe \in Seq(Carried) /\ DOMAIN pipe = 1 .. Len(pipe) /\ Len(pipe) \in Nat
  BY <1>1, AllNumbered DEF InjectorTypeOK
<1>4. /\ pipe' \in Seq(Carried) /\ Len(pipe') = Len(pipe) + Len(s)
      /\ \A i \in 1 .. Len(pipe) + Len(s) :
           pipe'[i] = IF i <= Len(pipe) THEN pipe[i] ELSE s[i - Len(pipe)]
  BY <1>2, <1>3, ConcatProperties
<1>5. DOMAIN pipe' = 1 .. Len(pipe) + Len(s)
  BY <1>4, LenProperties
<1>6. ASSUME NEW n \in DOMAIN pipe'
      PROVE  \/ n <= Len(pipe) /\ n \in DOMAIN pipe /\ pipe'[n] = pipe[n]
             \/ ~(n <= Len(pipe)) /\ pipe'[n].by = job /\ pipe'[n].nth = n - Len(pipe)
  <2>1. CASE n <= Len(pipe)
    BY <1>3, <1>4, <1>5, <2>1
  <2>2. CASE ~(n <= Len(pipe))
    <3>1. n - Len(pipe) \in DOMAIN s
      BY <1>2, <1>3, <1>5, <2>2
    <3>2. pipe'[n] = s[n - Len(pipe)]
      BY <1>4, <1>5, <2>2
    <3> QED BY <1>2, <2>2, <3>1, <3>2
  <2> QED BY <2>1, <2>2
<1>7. job # 0
  BY <1>1, Numbers
<1>8. \A x \in Underway : x.by < job
  BY <1>1, <1>7 DEF InTurn
<1>9. ASSUME NEW x \in Underway' PROVE x \in Underway \/ x.by = job
  <2>1. CASE x \in Range(got)
    BY <2>1 DEF Underway
  <2>2. CASE x \in Range(pipe')
    <3>1. PICK n \in DOMAIN pipe' : x = pipe'[n]
      BY <2>2 DEF Range
    <3> QED BY <1>6, <3>1 DEF Underway, Range
  <2> QED BY <2>1, <2>2 DEF Underway
<1>10. InTurn'
  <2>1. \A m, n \in DOMAIN queue' : m < n => queue'[m] < queue'[n]
    BY <1>1 DEF InTurn
  <2>2. \A n \in DOMAIN queue' : job' < queue'[n]
    BY <1>1, <1>7 DEF InTurn
  <2>3. \A x \in Underway' : \A n \in DOMAIN queue' : x.by < queue'[n]
    BY <1>1, <1>9, <2>2 DEF InTurn
  <2>4. \A x \in Underway' : x.by < job' \/ (stage' = "reading" /\ x.by = job')
    BY <1>8, <1>9
  <2> QED BY <2>1, <2>2, <2>3, <2>4 DEF InTurn
<1>11. \A n \in DOMAIN pipe : pipe[n].by < job
  BY <1>8 DEF Underway, Range
<1>12. Streams'
  <2>1. ASSUME NEW m \in DOMAIN pipe', NEW n \in DOMAIN pipe', m < n
        PROVE  Earlier(pipe'[m], pipe'[n])
    <3>1. m \in Nat /\ n \in Nat
      BY <1>5
    <3>2. CASE n <= Len(pipe)
      <4>1. m <= Len(pipe)
        BY <1>3, <2>1, <3>1, <3>2
      <4>2. m \in DOMAIN pipe /\ n \in DOMAIN pipe /\ pipe'[m] = pipe[m] /\ pipe'[n] = pipe[n]
        BY <1>6, <3>2, <4>1
      <4> QED BY <1>1, <2>1, <4>2 DEF Streams
    <3>3. CASE ~(n <= Len(pipe)) /\ m <= Len(pipe)
      <4>1. m \in DOMAIN pipe /\ pipe'[m] = pipe[m] /\ pipe'[n].by = job
        BY <1>6, <3>3
      <4> QED BY <1>11, <4>1 DEF Earlier
    <3>4. CASE ~(n <= Len(pipe)) /\ ~(m <= Len(pipe))
      <4>1. /\ pipe'[m].by = job /\ pipe'[m].nth = m - Len(pipe)
            /\ pipe'[n].by = job /\ pipe'[n].nth = n - Len(pipe)
        BY <1>6, <3>4
      <4>2. m - Len(pipe) < n - Len(pipe)
        BY <1>3, <2>1, <3>1
      <4> QED BY <4>1, <4>2 DEF Earlier
    <3> QED BY <3>2, <3>3, <3>4
  <2>2. ASSUME NEW x \in Range(got'), NEW y \in Range(pipe') PROVE Earlier(x, y)
    <3>1. x \in Range(got) /\ x \in Underway
      BY DEF Underway
    <3>2. PICK n \in DOMAIN pipe' : y = pipe'[n]
      BY DEF Range
    <3>3. CASE n <= Len(pipe)
      <4>1. y \in Range(pipe)
        BY <1>6, <3>2, <3>3 DEF Range
      <4> QED BY <1>1, <3>1, <4>1 DEF Streams
    <3>4. CASE ~(n <= Len(pipe))
      <4>1. y.by = job
        BY <1>6, <3>2, <3>4
      <4> QED BY <1>8, <3>1, <4>1 DEF Earlier
    <3> QED BY <3>3, <3>4
  <2> QED BY <2>1, <2>2 DEF Streams, Earlier
<1>13. OnceInOrder'
  BY <1>1 DEF OnceInOrder, Before
<1> QED BY <1>10, <1>12, <1>13 DEF InOrder

\* Where nothing lands and nothing goes out.
LEMMA OrderAsBefore ==
  ASSUME InOrder, got' = got, pipe' = pipe \/ pipe' = <<>>, queue' = queue,
         job' = job \/ job' = 0, stage = "reading" /\ job' # 0 => stage' = "reading"
  PROVE  InOrder'
<1>1. InTurn /\ Streams /\ OnceInOrder
  BY DEF InOrder
<1>2. Streams' /\ OnceInOrder' /\ \A x \in Underway' : \E y \in Underway : x.by = y.by
  BY <1>1, StreamsAsBefore
<1>3. InTurn'
  BY <1>1, <1>2, TurnAsBefore
<1> QED BY <1>2, <1>3 DEF InOrder

\* A burst that goes out, or does not.
LEMMA BurstsInOrder ==
  ASSUME Sound, InOrder, Bursts, job \in Id, stage # "reading"
  PROVE  InOrder'
<1>1. InjectorTypeOK
  BY DEF Sound
<1>2. /\ got' = got
      /\ \/ /\ stage' = "reading" /\ (pipe' = pipe \/ GoesOut)
            /\ UNCHANGED <<callVars, attempt, purpose, job, answer>>
         \/ Answers(FALSE) /\ pipe' = pipe
  BY <1>1, BurstsSend
<1>3. CASE stage' = "reading" /\ GoesOut /\ UNCHANGED <<callVars, job>>
  <2>1. queue' = queue /\ job' = job
    BY <1>3 DEF callVars
  <2> QED BY <1>2, <1>3, <2>1, BurstInOrder
<1>4. CASE pipe' = pipe /\ UNCHANGED <<callVars, job>>
  <2>1. queue' = queue /\ job' = job
    BY <1>4 DEF callVars
  <2> QED BY <1>2, <1>4, <2>1, OrderAsBefore
<1>5. CASE Answers(FALSE) /\ pipe' = pipe
  <2>1. queue' = queue /\ job' = 0
    BY <1>5 DEF Answers
  <2> QED BY <1>2, <1>5, <2>1, OrderAsBefore
<1> QED BY <1>2, <1>3, <1>4, <1>5

\* A command is taken from the queue in its turn.
LEMMA ReceivesInOrder == Sound /\ InOrder /\ Receives => InOrder'
<1> SUFFICES ASSUME Sound, InOrder, Receives PROVE InOrder'
  OBVIOUS
<1>1. InTurn /\ Streams /\ OnceInOrder /\ InjectorTypeOK
  BY DEF InOrder, Sound
<1>2. /\ job' = Head(queue) /\ queue' = Tail(queue) /\ queue # <<>>
      /\ got' = got /\ pipe' = pipe
  BY DEF Receives, serverVars, history
<1>3. queue \in Seq(Id)
  BY <1>1 DEF InjectorTypeOK
<1>4. /\ DOMAIN queue = 1 .. Len(queue) /\ Len(queue) \in Nat /\ Len(queue) >= 1
      /\ job' = queue[1] /\ DOMAIN queue' = 1 .. Len(queue) - 1
      /\ \A n \in 1 .. Len(queue) - 1 : queue'[n] = queue[n + 1] /\ n + 1 \in DOMAIN queue
  <2>1. /\ Tail(queue) \in Seq(Id) /\ Len(Tail(queue)) = Len(queue) - 1
        /\ \A i \in 1 .. Len(Tail(queue)) : Tail(queue)[i] = queue[i + 1]
    BY <1>2, <1>3, HeadTailProperties
  <2>2. DOMAIN Tail(queue) = 1 .. Len(Tail(queue))
    BY <2>1, LenProperties
  <2>3. /\ DOMAIN queue = 1 .. Len(queue) /\ Len(queue) \in Nat /\ Len(queue) >= 1
        /\ Head(queue) = queue[1]
    BY <1>2, <1>3
  <2> QED BY <1>2, <2>1, <2>2, <2>3
<1>5. Underway' = Underway
  BY <1>2 DEF Underway
<1>6. ASSUME NEW m \in DOMAIN queue', NEW n \in DOMAIN queue', m < n PROVE queue'[m] < queue'[n]
  <2>1. m + 1 \in DOMAIN queue /\ n + 1 \in DOMAIN queue /\ m + 1 < n + 1
        /\ queue'[m] = queue[m + 1] /\ queue'[n] = queue[n + 1]
    BY <1>4, <1>6
  <2> QED BY <1>1, <2>1 DEF InTurn
<1>7. ASSUME NEW n \in DOMAIN queue' PROVE job' < queue'[n]
  <2>1. n + 1 \in DOMAIN queue /\ 1 \in DOMAIN queue /\ 1 < n + 1 /\ queue'[n] = queue[n + 1]
    BY <1>4
  <2> QED BY <1>1, <1>4, <2>1 DEF InTurn
<1>8. ASSUME NEW x \in Underway', NEW n \in DOMAIN queue' PROVE x.by < queue'[n]
  <2>1. n + 1 \in DOMAIN queue /\ queue'[n] = queue[n + 1]
    BY <1>4
  <2> QED BY <1>1, <1>5, <2>1 DEF InTurn
<1>9. ASSUME NEW x \in Underway' PROVE x.by < job'
  <2>1. 1 \in DOMAIN queue
    BY <1>4
  <2> QED BY <1>1, <1>4, <1>5, <2>1 DEF InTurn
<1>10. InTurn'
  BY <1>6, <1>7, <1>8, <1>9 DEF InTurn
<1>11. Streams' /\ OnceInOrder'
  BY <1>1, <1>2, StreamsAsBefore
<1> QED BY <1>10, <1>11 DEF InOrder

\* A command is given: its number is greater than any before.
LEMMA SendsInOrder ==
  ASSUME Sound, InOrder, NEW c \in Command, Sends(c), UNCHANGED <<job, stage, got, pipe>>
  PROVE  InOrder'
<1>1. InTurn /\ Streams /\ OnceInOrder /\ InjectorTypeOK
  BY DEF InOrder, Sound
<1> DEFINE N == Len(asked)
<1>2. queue' = Append(queue, N + 1) /\ N \in Nat /\ Id = 1 .. N
  BY <1>1, SendsTyped
<1> HIDE DEF N
<1>3. queue \in Seq(Nat) /\ N + 1 \in Nat
  <2>1. queue \in Seq(Id) /\ Id \subseteq Nat
    BY <1>1, <1>2 DEF InjectorTypeOK
  <2> QED BY <1>2, <2>1, SeqMonotonic
<1>4. /\ DOMAIN queue = 1 .. Len(queue) /\ Len(queue) \in Nat
      /\ \A n \in DOMAIN queue : queue[n] \in Id
      /\ \A x \in Underway : x.by \in Id
  BY <1>1, AllNumbered
<1>5. /\ DOMAIN queue' = 1 .. Len(queue) + 1 /\ queue'[Len(queue) + 1] = N + 1
      /\ \A n \in 1 .. Len(queue) : queue'[n] = queue[n]
  BY <1>2, <1>3, AppendProperties, LenProperties
<1>6. ASSUME NEW n \in DOMAIN queue'
      PROVE  \/ n \in DOMAIN queue /\ queue'[n] = queue[n] /\ queue[n] <= N
             \/ n = Len(queue) + 1 /\ queue'[n] = N + 1
  <2>1. CASE n \in 1 .. Len(queue)
    <3>1. queue[n] \in 1 .. N
      BY <1>2, <1>4, <2>1
    <3>2. queue[n] <= N
      BY <3>1
    <3> QED BY <1>4, <1>5, <2>1, <3>2
  <2>2. CASE n \notin 1 .. Len(queue)
    BY <1>4, <1>5, <2>2
  <2> QED BY <2>1, <2>2
<1>7. Underway' = Underway
  BY DEF Underway
<1>8. job \in Nat /\ (job # 0 => job <= N)
  <2>1. job \in Id \cup {0}
    BY <1>1 DEF InjectorTypeOK
  <2> QED BY <1>2, <2>1
<1>9. ASSUME NEW m \in DOMAIN queue', NEW n \in DOMAIN queue', m < n PROVE queue'[m] < queue'[n]
  <2>1. m \in Nat /\ n \in Nat /\ n <= Len(queue) + 1
    BY <1>4, <1>5
  <2>2. m \in DOMAIN queue /\ queue'[m] = queue[m] /\ queue[m] <= N
    BY <1>4, <1>6, <1>9, <2>1
  <2>3. queue[m] \in Nat
    BY <1>3, <2>2
  <2>4. CASE n \in DOMAIN queue /\ queue'[n] = queue[n]
    BY <1>1, <1>9, <2>2, <2>4 DEF InTurn
  <2>5. CASE queue'[n] = N + 1
    BY <1>2, <2>2, <2>3, <2>5
  <2> QED BY <1>6, <2>4, <2>5
<1>10. ASSUME job # 0, NEW n \in DOMAIN queue' PROVE job < queue'[n]
  <2>1. CASE n \in DOMAIN queue /\ queue'[n] = queue[n]
    BY <1>1, <1>10, <2>1 DEF InTurn
  <2>2. CASE queue'[n] = N + 1
    BY <1>2, <1>8, <1>10, <2>2
  <2> QED BY <1>6, <2>1, <2>2
<1>11. ASSUME NEW x \in Underway, NEW n \in DOMAIN queue' PROVE x.by < queue'[n]
  <2>1. CASE n \in DOMAIN queue /\ queue'[n] = queue[n]
    BY <1>1, <2>1 DEF InTurn
  <2>2. CASE queue'[n] = N + 1
    <3>1. x.by \in 1 .. N
      BY <1>2, <1>4
    <3> QED BY <1>2, <2>2, <3>1
  <2> QED BY <1>6, <2>1, <2>2
<1>12. job # 0 => \A x \in Underway : x.by < job \/ (stage = "reading" /\ x.by = job)
  BY <1>1 DEF InTurn
<1>13. InTurn'
  BY <1>7, <1>9, <1>10, <1>11, <1>12 DEF InTurn
<1>14. Streams' /\ OnceInOrder'
  BY <1>1, StreamsAsBefore
<1> QED BY <1>13, <1>14 DEF InOrder

\* Whatever happens, what has landed, is on its way, in hand or queued is in order.
LEMMA NextInOrder == Sound /\ InOrder /\ [InjectorNext]_injectorVars => InOrder'
<1> SUFFICES ASSUME Sound, InOrder, [InjectorNext]_injectorVars PROVE InOrder'
  OBVIOUS
<1>1. InjectorTypeOK /\ HasCommand
  BY DEF Sound
<1>2. UNCHANGED <<queue, job, stage, got, pipe>> => InOrder'
  BY OrderAsBefore
<1>3. CASE UNCHANGED injectorVars
  BY <1>2, <1>3 DEF injectorVars, callVars, workVars, serverVars, history
<1>4. CASE Lands
  BY <1>4, LandsInOrder
<1>5. CASE Serves
  <2>1. UNCHANGED <<callVars, workVars, got>> /\ (pipe' = pipe \/ pipe' = <<>>)
    BY <1>5, ServesFrame, ServesSocket
  <2>2. UNCHANGED <<queue, job, stage, got>>
    BY <2>1 DEF callVars, workVars
  <2> QED BY <2>1, <2>2, OrderAsBefore
<1>6. CASE AttemptFails /\ stage # "reading"
  <2>1. got' = got /\ pipe' = <<>>
    BY <1>6 DEF AttemptFails
  <2>2. queue' = queue /\ (job' = job \/ job' = 0)
    BY <1>6 DEF AttemptFails, Answers, callVars
  <2> QED BY <1>6, <2>1, <2>2, OrderAsBefore
<1>7. CASE Connects /\ ~AttemptFails
  <2>1. stage = "dialling" /\ pipe' = <<>> /\ UNCHANGED <<callVars, job, got>>
    BY <1>7 DEF Connects
  <2>2. queue' = queue
    BY <2>1 DEF callVars
  <2> QED BY <2>1, <2>2, OrderAsBefore
<1>8. CASE Reads /\ ~(Refused(session, Head(wire)) /\ stage = "connecting")
  <2>1. UNCHANGED <<pipe, got>> /\ (Answers(FALSE) \/ UNCHANGED <<callVars, workVars>>)
    BY <1>8 DEF Reads
  <2>2. queue' = queue /\ (job' = 0 \/ (job' = job /\ stage' = stage))
    BY <2>1 DEF Answers, callVars, workVars
  <2> QED BY <2>1, <2>2, OrderAsBefore
<1>9. CASE Bursts /\ (stage = "draining" \/ (stage = "connecting" /\ purpose = "send"))
  <2>1. job \in Id /\ stage # "reading"
    BY <1>1, <1>9 DEF HasCommand
  <2> QED BY <1>9, <2>1, BurstsInOrder
<1>10. CASE Connected /\ purpose # "send"
  <2>1. stage = "connecting" /\ UNCHANGED <<callVars, job, serverVars, history>>
    BY <1>10 DEF Connected
  <2>2. UNCHANGED <<queue, job, got, pipe>>
    BY <2>1 DEF callVars, serverVars, history
  <2> QED BY <2>1, <2>2, OrderAsBefore
<1>11. CASE Receives
  BY <1>11, ReceivesInOrder
<1>12. CASE EnsuresReady /\ ~Bursts
  <2>1. stage = "draining" /\ UNCHANGED <<serverVars, got>>
        /\ (UNCHANGED <<callVars, job>> \/ Answers(FALSE))
    BY <1>12 DEF EnsuresReady, history
  <2>2. UNCHANGED <<queue, got, pipe>> /\ (job' = job \/ job' = 0)
    BY <2>1 DEF callVars, serverVars, Answers
  <2> QED BY <2>1, <2>2, OrderAsBefore
<1>13. CASE ReadsBack
  <2>1. Answers(~session.dead /\ result) /\ UNCHANGED <<serverVars, got>>
    BY <1>13 DEF ReadsBack
  <2>2. UNCHANGED <<queue, got, pipe>> /\ job' = 0
    BY <2>1 DEF serverVars, Answers
  <2> QED BY <2>2, OrderAsBefore
<1>14. CASE ShutsDown
  <2>1. stage = "idle" /\ pipe' = <<>> /\ UNCHANGED <<callVars, job, got>>
    BY <1>14 DEF ShutsDown
  <2>2. queue' = queue
    BY <2>1 DEF callVars
  <2> QED BY <2>1, <2>2, OrderAsBefore
<1>15. CASE StartsWorker
  <2>1. stage = "unstarted" /\ UNCHANGED <<queue, job, serverVars, history>>
    BY <1>15 DEF StartsWorker
  <2>2. UNCHANGED <<got, pipe>>
    BY <2>1 DEF serverVars, history
  <2> QED BY <2>1, <2>2, OrderAsBefore
<1>16. CASE WorkerReports
  <2> DEFINE probe == [is |-> "probe", text |-> <<>>, keys |-> <<>>]
  <2>1. probe \in Command
    BY DEF Command
  <2>2. UNCHANGED <<job, stage, got, pipe>> /\ (Sends(probe) \/ queue' = queue)
    BY <1>16 DEF WorkerReports, workVars, serverVars
  <2> HIDE DEF probe
  <2>3. CASE Sends(probe)
    BY <2>1, <2>2, <2>3, SendsInOrder
  <2>4. CASE queue' = queue
    BY <1>2, <2>2, <2>4
  <2> QED BY <2>2, <2>3, <2>4
<1>17. CASE CallerGivesUp \/ ProbeReturns \/ TriesYdotool \/ Drops
  <2>1. UNCHANGED <<queue, workVars, serverVars, got>>
    BY <1>17 DEF CallerGivesUp, ProbeReturns, TriesYdotool, Drops, history
  <2> QED BY <1>2, <2>1 DEF workVars, serverVars
<1>18. ASSUME NEW c \in Asked, Asks(c) PROVE InOrder'
  <2>1. c \in Command
    BY InjectionAssumption
  <2>2. Sends(c) /\ UNCHANGED <<job, stage, got, pipe>>
    BY <1>18 DEF Asks, workVars, serverVars
  <2> QED BY <2>1, <2>2, SendsInOrder
<1>19. CASE Connects
  BY <1>6, <1>7, <1>19 DEF Connects
<1>20. CASE Reads
  <2>1. CASE Refused(session, Head(wire)) /\ stage = "connecting"
    <3>1. AttemptFails /\ stage # "reading"
      BY <1>20, <2>1 DEF Reads
    <3> QED BY <1>6, <3>1
  <2> QED BY <1>8, <1>20, <2>1
<1>21. CASE Connected
  BY <1>9, <1>10, <1>21 DEF Connected
<1>22. CASE SetupEnds
  BY <1>6, <1>22 DEF SetupEnds
<1>23. CASE EnsuresReady
  BY <1>9, <1>12, <1>23 DEF EnsuresReady
<1>24. CASE Caller
  BY <1>15, <1>16, <1>17, <1>18, <1>24 DEF Caller
<1> QED BY <1>3, <1>4, <1>5, <1>11, <1>13, <1>14, <1>19, <1>20, <1>21, <1>22, <1>23, <1>24
        DEF InjectorNext, Server, Worker, Serves

\* At first nothing has been asked or sent.
LEMMA InitInOrder == InjectorInit => InOrder
<1> SUFFICES ASSUME InjectorInit PROVE InOrder
  OBVIOUS
<1>1. queue = <<>> /\ job = 0 /\ pipe = <<>> /\ got = <<>>
  BY DEF InjectorInit
<1>2. DOMAIN queue = {} /\ DOMAIN pipe = {} /\ DOMAIN got = {}
  BY <1>1
<1>3. Underway = {} /\ Range(got) = {}
  BY <1>2 DEF Underway, Range
<1> QED BY <1>1, <1>2, <1>3 DEF InOrder, InTurn, Streams, OnceInOrder

\* However often the session dies and whoever has given up waiting, no key or character
\* lands twice, and none overtakes an earlier one, for any keymaps, texts and chords and
\* any number of commands and reconnects (eis.rs, burst and ensure_ready).
THEOREM LandsOnceInOrder == InjectorSpec => []OnceInOrder
<1>1. InjectorInit => Sound /\ InOrder
  BY InitSound, InitInOrder
<1>2. Sound /\ InOrder /\ [InjectorNext]_injectorVars => (Sound /\ InOrder)'
  BY NextSound, NextInOrder
<1>3. InOrder => OnceInOrder
  BY DEF InOrder
<1> QED BY <1>1, <1>2, <1>3, PTL DEF InjectorSpec
=============================================================================
