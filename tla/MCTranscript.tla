----------------------------- MODULE MCTranscript -----------------------------
(* Instances of TranscriptSession. *)
EXTENDS TranscriptSession, TLC
===============================================================================
