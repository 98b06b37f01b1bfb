--------------------------- MODULE ModelActivation ---------------------------
(***************************************************************************)
(* The selection of the active models of one capability: ModelRegistry's    *)
(* slots and is_active flags (registry.py), the daemon's                    *)
(* _activate_runtime_model and start (main.py), the adapters the            *)
(* orchestrator serves with (duplex_orchestrator.py) and HotSwapController. *)
(*                                                                         *)
(* Capabilities share no slot and no adapter; a behaviour is about one of   *)
(* them.  A capability has two slots, for which TRANSLATION and VAD have    *)
(* one adapter (VAD has one slot too, which stands here as two that are     *)
(* always set together).  Activations take no lock: they interleave at the  *)
(* awaits of load, unload, stop and start.  Every change of the registry is *)
(* saved before the next await, so registry.json is the registry.           *)
(*                                                                         *)
(* What an adapter loads is abstracted to the model it serves; starting and *)
(* stopping the pipelines is Conversation, installing is ModelInstall.      *)
(***************************************************************************)
EXTENDS Naturals, FiniteSets

CONSTANTS
    Model,        \* registered models of the capability
    Default,      \* the one the daemon constructs its adapters for
    Remote,       \* those of configured remote endpoints
    Unsupported,  \* local ones without an adapter
    Capability,   \* subset of {"ASR", "TRANSLATION", "TTS", "VAD"}
    Req,          \* requests that can be in flight together
    None,         \* no model
    MaxRequests,  \* bound: activations and swaps requested
    MaxCrashes    \* bound: restarts of the daemon

ASSUME ActivationAssumption ==
    /\ Default \in Model \ (Remote \cup Unsupported)
    /\ Remote \cup Unsupported \subseteq Model
    /\ None \notin Model
    /\ Capability \subseteq {"ASR", "TRANSLATION", "TTS", "VAD"}
    /\ MaxRequests \in Nat /\ MaxCrashes \in Nat

Side == {"en", "ro"}

VARIABLES
    cap,        \* the capability the behaviour is about
    slot,       \* per side: the registry's active model
    flag,       \* models whose entry has is_active
    installed,  \* models whose status is INSTALLED
    known,      \* the last known-good set, or NoSet
    served,     \* per side: the model of the orchestrator's adapter
    active,     \* orchestrator._is_active
    req,        \* per request: where it is suspended, and what it holds
    count,      \* requests started
    crashes,
    split       \* history: the slots have last been set one without the other

vars == <<cap, slot, flag, installed, known, served, active, req, count, crashes, split>>

NoSet == [s \in Side |-> None]
Both(m) == [s \in Side |-> m]
Idle == [pc |-> "idle", kind |-> "none", model |-> None, prev |-> None, side |-> "en",
         restart |-> FALSE, alone |-> TRUE, out |-> "none", slot |-> NoSet, served |-> NoSet]

Busy(r) == req[r].pc # "idle"
Quiet == \A r \in Req : ~Busy(r)

\* get_active_slots: one model for the capability; no slot is empty once the
\* daemon has started.
Preferred == IF cap = "TTS" THEN "ro" ELSE "en"
Selected == slot[Preferred]

-----------------------------------------------------------------------------
(* The registry                                                             *)

\* Mutant: the new model is flagged before the old one is unflagged.
SetActive_Mutant(S, m) ==
    /\ slot' = [s \in Side |-> IF s \in S THEN m ELSE slot[s]]
    /\ flag' = (flag \cup {m}) \ {slot[s] : s \in S}
    /\ split' = (S # Side)

(* set_active_model for the sides S, one after the other, each saved. *)
SetActive(S, m) ==
    /\ slot' = [s \in Side |-> IF s \in S THEN m ELSE slot[s]]
    /\ flag' = (flag \ {slot[s] : s \in S}) \cup {m}
    /\ split' = (S # Side)

KeepRegistry == UNCHANGED <<slot, flag, split>>

(* The daemon's start: TTS and remote adapters are those of the slots, the
   others the ones __init__ made; _mark_default_runtime_models fills empty
   slots and calls the default installed. *)
Restored ==
    IF cap = "TTS" \/ (cap # "VAD" /\ Selected \in Remote)
    THEN Both(Selected)
    ELSE Both(Default)

Init ==
    /\ cap \in Capability
    /\ slot = Both(Default) /\ flag = {Default}
    /\ installed \in {i \in SUBSET Model : {Default} \cup Remote \subseteq i}
    /\ known = NoSet
    /\ served = Both(Default)
    /\ active = FALSE
    /\ req = [r \in Req |-> Idle]
    /\ count = 0 /\ crashes = 0
    /\ split = FALSE

-----------------------------------------------------------------------------
(* Requests                                                                 *)

(* A request that another operation overlaps is not alone. *)
Disturbed(q) ==
    [r \in Req |-> IF q[r].pc = "idle" THEN Idle
                   ELSE [q[r] EXCEPT !.alone = FALSE, !.slot = NoSet, !.served = NoSet]]

Begin(r, kind, m, side, pc) ==
    /\ ~Busy(r) /\ count < MaxRequests
    /\ count' = count + 1
    /\ req' = [Disturbed(req) EXCEPT ![r] =
                 [Idle EXCEPT !.pc = pc, !.kind = kind, !.model = m, !.side = side,
                              !.prev = IF kind = "activate" THEN Selected ELSE slot[side],
                              !.alone = Quiet, !.slot = IF Quiet THEN slot ELSE NoSet,
                              !.served = IF Quiet THEN served ELSE NoSet]]

Goto(r, pc) == req' = [req EXCEPT ![r].pc = pc]
End(r, out) == req' = [req EXCEPT ![r] = [Idle EXCEPT !.out = out]]

\* What no step of a request changes.
Rest == UNCHANGED <<cap, known, count, crashes>>

\* Mutant: the registry stays as the failed activation left it.
Restore_Mutant(r) == End(r, "failed") /\ KeepRegistry

(* The except clause of _activate_runtime_model: the registry goes back to
   the model selected when the request began, if it is still installed. *)
Restore(r) ==
    /\ End(r, "failed")
    /\ IF req[r].prev \in installed THEN SetActive(Side, req[r].prev) ELSE KeepRegistry

(* Activate: a model without an adapter, and a remote VAD, fail at once. *)
Activate(r, m) ==
    /\ m \notin Unsupported /\ ~(m \in Remote /\ cap = "VAD")
    /\ Begin(r, "activate", m, "en", "load")
    /\ KeepRegistry
    /\ UNCHANGED <<cap, installed, known, served, active, crashes>>

LoadFails(r) ==
    /\ req[r].kind = "activate" /\ req[r].pc = "load"
    /\ Restore(r)
    /\ UNCHANGED <<installed, served, active>> /\ Rest

(* What follows the binding: a remote model is committed now, which raises
   when its entry is not installed any more. *)
Finish(r) ==
    IF req[r].model \notin Remote THEN End(r, "ok") /\ KeepRegistry
    ELSE IF req[r].model \in installed
    THEN SetActive(Side, req[r].model) /\ End(r, "ok")
    ELSE Restore(r)

(* A local model is called installed and committed before it is bound. *)
CommitLocal(r) ==
    IF req[r].model \in Remote THEN KeepRegistry /\ UNCHANGED installed
    ELSE installed' = installed \cup {req[r].model} /\ SetActive(Side, req[r].model)

(* Where an adapter is bound: TTS and translation await its load a second
   time; ASR and VAD bind at once, unless the runtime has to be stopped. *)
Loaded(r) ==
    /\ req[r].kind = "activate" /\ req[r].pc = "load"
    /\ \/ /\ cap \in {"TTS", "TRANSLATION"}
          /\ Goto(r, "reload")
          /\ CommitLocal(r)
          /\ UNCHANGED <<served, active>>
       \/ /\ cap \in {"ASR", "VAD"} /\ active
          /\ active' = FALSE
          /\ req' = [req EXCEPT ![r].pc = "stopping", ![r].restart = TRUE]
          /\ CommitLocal(r)
          /\ UNCHANGED served
       \/ /\ cap \in {"ASR", "VAD"} /\ ~active
          /\ served' = Both(req[r].model)
          /\ IF req[r].model \in Remote THEN Finish(r) /\ UNCHANGED installed
             ELSE CommitLocal(r) /\ End(r, "ok")
          /\ UNCHANGED active
    /\ Rest

(* set_tts_adapter, set_translation_adapter *)
Rebound(r) ==
    /\ req[r].kind = "activate" /\ req[r].pc = "reload"
    /\ served' = Both(req[r].model)
    /\ Goto(r, "unload")
    /\ KeepRegistry /\ UNCHANGED <<installed, active>> /\ Rest

RebindFails(r) ==
    /\ req[r].kind = "activate" /\ req[r].pc = "reload"
    /\ Restore(r)
    /\ UNCHANGED <<installed, served, active>> /\ Rest

(* The previous adapter is unloaded; what it raises is logged. *)
PreviousUnloaded(r) ==
    /\ req[r].kind = "activate" /\ req[r].pc = "unload"
    /\ Finish(r)
    /\ UNCHANGED <<installed, served, active>> /\ Rest

(* set_asr_adapters, set_vad_adapter: stopped, bound, started again; start
   returns at once when another caller has started the runtime. *)
Stopped(r) ==
    /\ req[r].pc = "stopping"
    /\ served' = Both(req[r].model)
    /\ active' = TRUE
    /\ IF active THEN Finish(r) ELSE Goto(r, "starting") /\ KeepRegistry
    /\ UNCHANGED installed /\ Rest

Started(r) ==
    /\ req[r].pc = "starting"
    /\ Finish(r)
    /\ UNCHANGED <<installed, served, active>> /\ Rest

StartFails(r) ==
    /\ req[r].pc = "starting"
    /\ Restore(r)
    /\ UNCHANGED <<installed, served, active>> /\ Rest

-----------------------------------------------------------------------------
(* HotSwapController.swap                                                   *)

(* _set_slot_adapter: TRANSLATION and VAD have one adapter for both sides. *)
Bound(side, m) ==
    IF cap \in {"TRANSLATION", "VAD"} THEN Both(m) ELSE [served EXCEPT ![side] = m]

Slots(side) == IF cap = "VAD" THEN Side ELSE {side}

Swap(r, m, side) ==
    /\ Begin(r, "swap", m, side, "preload")
    /\ KeepRegistry
    /\ UNCHANGED <<cap, installed, known, served, active, crashes>>

(* FAILED; with a prior model the controller loads it again. *)
Fail(r) == IF req[r].prev # None THEN Goto(r, "rollback") ELSE End(r, "failed")

(* preload, health check and drain; then bind and persist without an await. *)
Preloaded(r) ==
    /\ req[r].pc = "preload"
    /\ req[r].model \notin Unsupported
    /\ served' = Bound(req[r].side, req[r].model)
    /\ IF req[r].model \in installed
       THEN SetActive(Slots(req[r].side), req[r].model) /\ Goto(r, "swapped")
       ELSE KeepRegistry /\ Fail(r)
    /\ UNCHANGED <<installed, active>> /\ Rest

PreloadFails(r) ==
    /\ req[r].pc = "preload"
    /\ Fail(r)
    /\ KeepRegistry /\ UNCHANGED <<installed, served, active>> /\ Rest

(* The old adapter is unloaded, or its unload raises. *)
Swapped(r) ==
    /\ req[r].pc = "swapped"
    /\ End(r, "ok") \/ Fail(r)
    /\ KeepRegistry /\ UNCHANGED <<installed, served, active>> /\ Rest

RolledBack(r) ==
    /\ req[r].pc = "rollback"
    /\ served' = Bound(req[r].side, req[r].prev)
    /\ IF req[r].prev \in installed
       THEN SetActive(Slots(req[r].side), req[r].prev) /\ End(r, "rolled_back")
       ELSE KeepRegistry /\ End(r, "stuck")
    /\ UNCHANGED <<installed, active>> /\ Rest

RollbackFails(r) ==
    /\ req[r].pc = "rollback"
    /\ End(r, "stuck")
    /\ KeepRegistry /\ UNCHANGED <<installed, served, active>> /\ Rest

-----------------------------------------------------------------------------
(* Operations without an await                                              *)

Alongside == req' = Disturbed(req) /\ UNCHANGED <<cap, count, crashes>>

(* uninstall_model, and execute_cleanup, which also leaves the models of the
   slots alone. *)
Uninstall(m) ==
    /\ m \in installed \ flag
    /\ installed' = installed \ {m}
    /\ KeepRegistry /\ UNCHANGED <<known, served, active>> /\ Alongside

Installed(m) ==
    /\ m \notin installed
    /\ installed' = installed \cup {m}
    /\ KeepRegistry /\ UNCHANGED <<known, served, active>> /\ Alongside

SaveKnownGood ==
    /\ known' = slot
    /\ KeepRegistry /\ UNCHANGED <<installed, served, active>> /\ Alongside

(* rollback_to_known_good writes the slots and nothing else. *)
RollbackKnownGood ==
    /\ known # NoSet
    /\ slot' = [s \in Side |-> IF known[s] # None THEN known[s] ELSE slot[s]]
    /\ split' = TRUE
    /\ UNCHANGED <<flag, known, installed, served, active>> /\ Alongside

(* Another caller starts or stops the runtime. *)
Toggle ==
    /\ active' = ~active
    /\ KeepRegistry /\ UNCHANGED <<known, installed, served>> /\ Alongside

Boot ==
    /\ crashes < MaxCrashes
    /\ crashes' = crashes + 1
    /\ req' = [r \in Req |-> Idle]
    /\ active' = FALSE
    /\ installed' = installed \cup {Default}
    /\ UNCHANGED <<cap, known, count>>

Crash ==
    /\ Boot
    /\ served' = Restored
    /\ KeepRegistry

(* The process dies between the two saves of a commit: the second slot still
   names the old model, which is no longer flagged. *)
CrashInCommit(r) ==
    /\ Boot
    /\ cap # "VAD"
    /\ req[r].kind = "activate"
    /\ req[r].pc = (IF req[r].model \in Remote THEN "unload" ELSE "load")
    /\ req[r].model \in installed
    /\ slot' = [slot EXCEPT !["en"] = req[r].model]
    /\ flag' = (flag \ {slot["en"]}) \cup {req[r].model}
    /\ split' = TRUE
    /\ served' = Restored'

ActivateStep(r) ==
    \/ LoadFails(r) \/ Loaded(r) \/ Rebound(r) \/ RebindFails(r) \/ PreviousUnloaded(r)
    \/ Stopped(r) \/ Started(r) \/ StartFails(r)

SwapStep(r) ==
    Preloaded(r) \/ PreloadFails(r) \/ Swapped(r) \/ RolledBack(r) \/ RollbackFails(r)

Next ==
    \/ \E r \in Req :
         \/ \E m \in Model : Activate(r, m) \/ \E side \in Side : Swap(r, m, side)
         \/ ActivateStep(r) \/ SwapStep(r)
         \/ CrashInCommit(r)
    \/ \E m \in Model : Uninstall(m) \/ Installed(m)
    \/ SaveKnownGood \/ RollbackKnownGood \/ Toggle \/ Crash

Spec == Init /\ [][Next]_vars

-----------------------------------------------------------------------------
(* Properties *)

(* What the caller of an activation or a swap is told is what happened, when
   no other operation overlaps it.  Success: registry and adapters have the
   model.  Failure of an activation, unless it had stopped the runtime or was
   for a remote entry that is not installed: the adapters were not touched,
   and the slots are as before if they agreed on an installed model.  A swap
   rolled back: slot and adapter are those of the prior model. *)
Outcome(r) ==
    LET q == req[r]
        out == req'[r].out
    IN /\ out = "ok" /\ q.kind = "activate" =>
             slot' = Both(q.model) /\ served' = Both(q.model)
       /\ out = "ok" /\ q.kind = "swap" =>
             slot'[q.side] = q.model /\ served'[q.side] = q.model
       /\ out = "failed" /\ q.kind = "activate" /\ ~q.restart
          /\ q.model \notin Remote \ installed =>
             /\ served' = q.served
             /\ q.slot = Both(q.prev) /\ q.prev \in installed => slot' = q.slot
       /\ out = "rolled_back" =>
             slot'[q.side] = q.prev /\ served'[q.side] = q.prev

LoneRequestsTellTheTruth ==
    [][\A r \in Req : Busy(r) /\ ~Busy(r)' /\ req[r].alone => Outcome(r)]_vars

(* Uninstalling and cleaning up, at any point of the activations in flight,
   never takes away a model that a slot names, as long as the two slots have
   been set together. *)
SlotModelIsKept == split \/ \A s \in Side : slot[s] \in installed
=============================================================================
