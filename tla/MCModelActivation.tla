------------------------- MODULE MCModelActivation -------------------------
(***************************************************************************)
(* The default model, another local one and a remote one; any two requests *)
(* for them, overlapped or not, and a restart at any point.                *)
(***************************************************************************)
EXTENDS ModelActivation, TLC

CONSTANTS d, l, e, r1, r2

TwoRequests == Permutations({r1, r2})
=============================================================================
