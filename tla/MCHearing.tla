----------------------------- MODULE MCHearing ------------------------------
(***************************************************************************)
(* Hearing with three frames of the device for two samples, as with 44.1   *)
(* kHz, so that windows are of one and of two frames.                      *)
(***************************************************************************)
EXTENDS Hearing

\* Transcripts with and without a phrase of the blocklist at their end.
MCTranscripts ==
  {<<"...">>, <<"thank", "you">>, <<"hello", "thank", "you", ".">>, <<"open", "firefox", ".">>}

MCBlocklist == <<<<"thank", "you">>, <<"the", "end">>>>
=============================================================================
