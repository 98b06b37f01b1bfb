---------------------------- MODULE MCSpeechStream ----------------------------
(* Small instances of SpeechStream for TLC.                                  *)
EXTENDS SpeechStream
=============================================================================
