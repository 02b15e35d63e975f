---------------------------- MODULE MCLocalModel ----------------------------
(***************************************************************************)
(* LocalModel for TLC: prompts of up to four of two tokens, a question that  *)
(* is answered in one round and one that takes two and more than one batch. *)
(***************************************************************************)
EXTENDS LocalModel

CONSTANTS a, b

MCToken  == {a, b}
MCPrompt == {<<a>>, <<a, b>>, <<b, a>>, <<a, b, a>>, <<a, a, b, b>>, <<b, b, a, a>>}
MCMenu   == {<<<<a>>, <<b>>>>, <<<<a, b, a>>, <<b, a>>, <<a>>>>}
=============================================================================
