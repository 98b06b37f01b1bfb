------------------------- MODULE MCLiveTranslation -------------------------
(***************************************************************************)
(* Both legs, with event queues that one event fills.                      *)
(***************************************************************************)
EXTENDS LiveTranslation

=============================================================================
