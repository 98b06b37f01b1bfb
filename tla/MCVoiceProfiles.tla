--------------------------- MODULE MCVoiceProfiles ---------------------------
(***************************************************************************)
(* One name and the staging directory, and two requests, which are alike.   *)
(***************************************************************************)
EXTENDS VoiceProfiles, TLC

CONSTANTS p, q

MCReq == {p, q}
Alike == Permutations(MCReq)
=============================================================================
