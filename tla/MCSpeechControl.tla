-------------------------- MODULE MCSpeechControl --------------------------
(* A small instance of SpeechControl for TLC. *)
EXTENDS SpeechControl

CONSTANTS r1
=============================================================================
