---------------------------- MODULE MCConversation ----------------------------
(* Small instances of Conversation for TLC.                                  *)
EXTENDS Conversation, TLC
CONSTANTS c1, w
=============================================================================
