----------------------------- MODULE MCLearning -----------------------------
(***************************************************************************)
(* Learning for TLC: the daemon's tasks are interchangeable, and so are the *)
(* spellings a word is corrected to.                                        *)
(***************************************************************************)
EXTENDS Learning, TLC

Symmetry == Permutations(Daemon) \cup Permutations(Written)
=============================================================================
