----------------------------- MODULE MCTtsHost -----------------------------
(***************************************************************************)
(* Three concurrent requests on a worker whose profile serves two models;  *)
(* model a has a managed backend.  An utterance may be longer than the     *)
(* queue, so that a producer can block in it.                              *)
(***************************************************************************)
EXTENDS TtsHost

CONSTANTS a, b, r1, r2, r3

MCModel == {a, b}
MCProxied == {a}
MCTwo == {r1, r2}
MCThree == {r1, r2, r3}

=============================================================================
