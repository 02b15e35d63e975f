---------------------------- MODULE MCDictation ----------------------------
(***************************************************************************)
(* Dictation for TLC: windows are interchangeable.                          *)
(***************************************************************************)
EXTENDS Dictation, TLC

Symmetry == Permutations(Window)
=============================================================================
