---------------------------- MODULE MCTranscript ----------------------------
(* Small instances of Transcript. *)
EXTENDS Transcript, TLC
=============================================================================
