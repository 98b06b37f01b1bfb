-------------------------- MODULE MCTtsSupervisor --------------------------
(***************************************************************************)
(* A small instance: models a and b share the profile xtts, c runs in the  *)
(* profile omni; a and c are served by managed backends.                   *)
(***************************************************************************)
EXTENDS TtsSupervisor, TLC

CONSTANTS a, b, c, xtts, omni

MCModel == {a, b, c}
MCProfile == {xtts, omni}
MCProfileOf == (a :> xtts) @@ (b :> xtts) @@ (c :> omni)
MCManaged == {a, c}

=============================================================================
