--------------------------- MODULE LiveLifecycle ---------------------------
(***************************************************************************)
(* What LiveTranslationController promises about the resources of a live   *)
(* translation: they are acquired only while a session opens, all of them  *)
(* are held while it is live, and none is left when it is over.            *)
(***************************************************************************)
CONSTANT Leg

VARIABLES phase,    \* idle, opening, live or closing
          wanted,   \* the legs of the session
          held      \* the legs that hold a capture, a session or a render

lifecycleVars == <<phase, wanted, held>>

Init == phase = "idle" /\ wanted = {} /\ held = {}

Begin ==
    /\ phase = "idle"
    /\ phase' = "opening"
    /\ wanted' \in (SUBSET Leg) \ {{}}
    /\ UNCHANGED held

Acquire ==
    /\ phase = "opening"
    /\ \E l \in wanted : held' = held \cup {l}
    /\ UNCHANGED <<phase, wanted>>

GoLive ==
    /\ phase = "opening"
    /\ phase' = "live"
    /\ held' = wanted
    /\ UNCHANGED wanted

(* A session that does not come up, or is no longer wanted, gives back what *)
(* it holds; the leg that failed may already hold nothing.                  *)
Close ==
    /\ phase \in {"opening", "live"}
    /\ phase' = "closing"
    /\ held' \in SUBSET held
    /\ UNCHANGED wanted

Release ==
    /\ phase = "closing"
    /\ held' \in SUBSET held
    /\ UNCHANGED <<phase, wanted>>

Finish ==
    /\ phase \in {"opening", "closing"}
    /\ phase' = "idle"
    /\ wanted' = {}
    /\ held' = {}

Next == Begin \/ Acquire \/ GoLive \/ Close \/ Release \/ Finish

Spec == Init /\ [][Next]_lifecycleVars

=============================================================================
