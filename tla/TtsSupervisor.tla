--------------------------- MODULE TtsSupervisor ---------------------------
(***************************************************************************)
(* TtsRuntimeSupervisor: the owner of every local text-to-speech process.  *)
(* It keeps one worker process per runtime profile, one managed backend    *)
(* process per model that needs one, and at most one active model.  Every  *)
(* public coroutine runs under one asyncio.Lock, so one operation is in    *)
(* progress at a time; op.pc is the await it is suspended in.  Between two *)
(* awaits processes die, late requests reach a worker, and (for callers    *)
(* that put a timeout around a synthesis) the operation is cancelled.      *)
(***************************************************************************)
EXTENDS Naturals, FiniteSets

CONSTANTS Profile,     \* runtime profiles (one interpreter, one worker each)
          Model,       \* models with a manifest
          NoModel,     \* Python's None
          ProfileOf,   \* manifest.runtime_profile
          Managed,     \* models whose manifest names a managed backend runtime
          MaxCancels   \* bound: cancelled operations per behaviour

ASSUME ConstantsAssumption ==
    /\ NoModel \notin Model
    /\ ProfileOf \in [Model -> Profile]
    /\ Managed \subseteq Model
    /\ MaxCancels \in Nat

VARIABLES handle,      \* profiles with an entry in _workers
          loaded,      \* _WorkerHandle.loaded_model_id
          idle,        \* profiles whose handle has a pending idle_task
          alive,       \* profiles whose worker process runs
          resident,    \* the model really loaded in the worker process
          inflight,    \* models with a request still on its way to the worker
          backends,    \* models with an entry in _backends
          balive,      \* models whose backend process runs
          active,      \* _active_model_id, with its manifest and profile
          op,          \* the operation that holds _lock
          cancels      \* operations cancelled so far

workerVars  == <<handle, loaded, idle, alive, resident, inflight>>
backendVars == <<backends, balive>>
vars == <<handle, loaded, idle, alive, resident, inflight,
          backends, balive, active, op, cancels>>

Kind == {"activate", "ensure", "recover", "release", "shutdown"}

PC == {"free", "probe",
       "unload", "dropBackend", "dropWorker", "clear",
       "backend", "backendWait", "worker", "workerWait", "load", "verify",
       "failUnload", "failBackend", "failWorker",
       "relUnload", "relBackend", "relFinish",
       "recWorker", "recBackend", "recClear",
       "stopUnload", "stopBackends", "stopWorkers"}

(* kind and req name the call; target and prev are _activate_locked's       *)
(* manifest and previous_manifest; before records the active model at the   *)
(* time the lock was taken.                                                 *)
Op == [pc : PC, kind : Kind \cup {"none"},
       req : Model \cup {NoModel}, target : Model \cup {NoModel},
       prev : Model \cup {NoModel}, before : Model \cup {NoModel}]

Free == [pc |-> "free", kind |-> "none", req |-> NoModel,
         target |-> NoModel, prev |-> NoModel, before |-> NoModel]

ModelsOf(p) == {m \in Model : ProfileOf[m] = p}

(* True of the profile _active_profile_id names, when there is one.         *)
ActiveOn(p) == active # NoModel /\ ProfileOf[active] = p

At(label)   == op.pc = label
Goto(label) == op' = [op EXCEPT !.pc = label]
Return      == op' = Free

Target == ProfileOf[op.target]
Prev   == ProfileOf[op.prev]

Init ==
    /\ handle = {}
    /\ loaded = [p \in Profile |-> NoModel]
    /\ idle = {}
    /\ alive = {}
    /\ resident = [p \in Profile |-> NoModel]
    /\ inflight = {}
    /\ backends = {}
    /\ balive = {}
    /\ active = NoModel
    /\ op = Free
    /\ cancels = 0

-----------------------------------------------------------------------------
(* The private helpers of the supervisor.  A definition named X_Y is X with *)
(* one plausible mistake; it shows that the properties notice that mistake. *)

\* _terminate_worker_locked: the entry, its idle task and the process go
\* together, whether or not there was an entry.
TerminateWorker(p) ==
    /\ handle' = handle \ {p}
    /\ loaded' = [loaded EXCEPT ![p] = NoModel]
    /\ idle' = idle \ {p}
    /\ alive' = alive \ {p}
    /\ resident' = [resident EXCEPT ![p] = NoModel]
    /\ inflight' = inflight \ ModelsOf(p)

\* _terminate_backend_locked.
TerminateBackend(m) ==
    /\ backends' = backends \ {m}
    /\ balive' = balive \ {m}

\* What POST /unload may do to the worker's model: the host ignores a request
\* that names another model, and the request itself may fail.
UnloadedResident(p, m) ==
    {resident, IF resident[p] = m THEN [resident EXCEPT ![p] = NoModel]
                                  ELSE resident}

\* _unload_handle_locked: the handle forgets its model even when the request
\* fails.
UnloadHandle(p, m) ==
    /\ loaded' = [loaded EXCEPT ![p] = NoModel]
    /\ resident' \in UnloadedResident(p, m)

\* Without the new timer.
ScheduleIdle_Forgotten(p) == idle' = idle \ {p}

\* _schedule_idle_shutdown_locked replaces any earlier timer of the handle.
ScheduleIdle(p) == idle' = idle \cup {p}

\* The head of _activate_locked, for the active model a.
EnterActivation(o, a) ==
    LET displaced == IF a = o.target THEN NoModel ELSE a
    IN  [o EXCEPT !.prev = displaced,
                  !.pc = IF displaced = NoModel THEN "backend" ELSE "unload"]

-----------------------------------------------------------------------------
(* The public operations take the lock.                                     *)

Begin(k, m, label) ==
    [pc |-> label, kind |-> k, req |-> m, target |-> m, prev |-> NoModel,
     before |-> active]

Activate(m) ==
    /\ At("free")
    /\ op' = EnterActivation(Begin("activate", m, "free"), active)
    /\ UNCHANGED <<workerVars, backendVars, active, cancels>>

EnsureActive(m) ==
    /\ At("free")
    /\ op' = Begin("ensure", m, "probe")
    /\ UNCHANGED <<workerVars, backendVars, active, cancels>>

\* release() of a model that is not the active one returns at once.
Release(m) ==
    /\ At("free")
    /\ active = m
    /\ op' = Begin("release", m, "relUnload")
    /\ UNCHANGED <<workerVars, backendVars, active, cancels>>

Recover(m) ==
    /\ At("free")
    /\ op' = Begin("recover", m, "recWorker")
    /\ UNCHANGED <<workerVars, backendVars, active, cancels>>

Shutdown ==
    /\ At("free")
    /\ op' = Begin("shutdown", NoModel, "stopUnload")
    /\ UNCHANGED <<workerVars, backendVars, active, cancels>>

-----------------------------------------------------------------------------
(* ensure_active: the health fast path, or an activation without rollback.  *)

\* The backend and the worker both answered their health probes, and the
\* worker reported the requested model: its endpoint is handed out.
ProbeHealthy ==
    /\ At("probe")
    /\ active = op.req
    /\ Target \in alive
    /\ op.req \in Managed => op.req \in balive
    /\ resident[Target] = op.req
    /\ inflight' = inflight \cup {op.req}
    /\ Return
    /\ UNCHANGED <<handle, loaded, idle, alive, resident, backendVars, active,
                   cancels>>

\* Some probe failed or timed out, or another model is active.
ProbeUnhealthy ==
    /\ At("probe")
    /\ op' = EnterActivation(op, active)
    /\ UNCHANGED <<workerVars, backendVars, active, cancels>>

-----------------------------------------------------------------------------
(* _activate_locked, first part: the previous model gives way.              *)

UnloadPrevious ==
    /\ At("unload")
    /\ IF Prev \in handle
         THEN UnloadHandle(Prev, op.prev)
         ELSE UNCHANGED <<loaded, resident>>
    /\ Goto("dropBackend")
    /\ UNCHANGED <<handle, idle, alive, inflight, backendVars, active, cancels>>

\* Without the terminate.
DropPreviousBackend_Skipped ==
    /\ At("dropBackend")
    /\ Goto("dropWorker")
    /\ UNCHANGED <<workerVars, backendVars, active, cancels>>

DropPreviousBackend ==
    /\ At("dropBackend")
    /\ TerminateBackend(op.prev)
    /\ Goto("dropWorker")
    /\ UNCHANGED <<workerVars, active, cancels>>

\* A worker of another profile is terminated (an await: the active fields are
\* cleared only after it).
DropPreviousWorker ==
    /\ At("dropWorker")
    /\ Prev \in handle
    /\ Prev # Target
    /\ TerminateWorker(Prev)
    /\ Goto("clear")
    /\ UNCHANGED <<backendVars, active, cancels>>

\* A worker of the same profile is kept, with an idle timer for the case that
\* the activation fails.
KeepPreviousWorker ==
    /\ At("dropWorker")
    /\ Prev \notin handle \/ Prev = Target
    /\ IF Prev \in handle THEN ScheduleIdle(Prev) ELSE UNCHANGED idle
    /\ active' = NoModel
    /\ Goto("backend")
    /\ UNCHANGED <<handle, loaded, alive, resident, inflight, backendVars,
                   cancels>>

\* Without the reset of the active fields.
ClearPrevious_Skipped ==
    /\ At("clear")
    /\ Goto("backend")
    /\ UNCHANGED <<workerVars, backendVars, active, cancels>>

ClearPrevious ==
    /\ At("clear")
    /\ active' = NoModel
    /\ Goto("backend")
    /\ UNCHANGED <<workerVars, backendVars, cancels>>

-----------------------------------------------------------------------------
(* _ensure_backend_locked.                                                  *)

BackendReady ==
    /\ At("backend")
    /\ op.target \in Managed => op.target \in balive
    /\ Goto("worker")
    /\ UNCHANGED <<workerVars, backendVars, active, cancels>>

\* Dead, of another runtime, or its health probe failed.
RecycleBackend ==
    /\ At("backend")
    /\ op.target \in Managed \cap backends
    /\ TerminateBackend(op.target)
    /\ UNCHANGED <<workerVars, active, op, cancels>>

LaunchBackend ==
    /\ At("backend")
    /\ op.target \in Managed \ backends
    /\ \/ /\ backends' = backends \cup {op.target}
          /\ balive' = balive \cup {op.target}
          /\ Goto("backendWait")
       \/ /\ Goto("failUnload")              \* no interpreter, Popen raised
          /\ UNCHANGED backendVars
    /\ UNCHANGED <<workerVars, active, cancels>>

BackendHealthy ==
    /\ At("backendWait")
    /\ op.target \in balive
    /\ Goto("worker")
    /\ UNCHANGED <<workerVars, backendVars, active, cancels>>

BackendStartFails ==
    /\ At("backendWait")
    /\ TerminateBackend(op.target)
    /\ Goto("failUnload")
    /\ UNCHANGED <<workerVars, active, cancels>>

-----------------------------------------------------------------------------
(* _ensure_worker_locked; the caller cancels the idle timer without a       *)
(* further await.                                                           *)

\* Without the cancel of the idle timer.
WorkerReady_KeepsTimer ==
    /\ At("worker")
    /\ Target \in alive
    /\ Goto("load")
    /\ UNCHANGED <<workerVars, backendVars, active, cancels>>

WorkerReady ==
    /\ At("worker")
    /\ Target \in alive
    /\ idle' = idle \ {Target}
    /\ Goto("load")
    /\ UNCHANGED <<handle, loaded, alive, resident, inflight, backendVars,
                   active, cancels>>

RecycleWorker ==
    /\ At("worker")
    /\ Target \in handle
    /\ TerminateWorker(Target)
    /\ UNCHANGED <<backendVars, active, op, cancels>>

LaunchWorker ==
    /\ At("worker")
    /\ Target \notin handle
    /\ \/ /\ handle' = handle \cup {Target}
          /\ alive' = alive \cup {Target}
          /\ Goto("workerWait")
       \/ /\ Goto("failUnload")              \* no interpreter, Popen raised
          /\ UNCHANGED <<handle, alive>>
    /\ UNCHANGED <<loaded, idle, resident, inflight, backendVars, active,
                   cancels>>

WorkerHealthy ==
    /\ At("workerWait")
    /\ Target \in alive
    /\ Goto("load")
    /\ UNCHANGED <<workerVars, backendVars, active, cancels>>

WorkerStartFails ==
    /\ At("workerWait")
    /\ TerminateWorker(Target)
    /\ Goto("failUnload")
    /\ UNCHANGED <<backendVars, active, cancels>>

-----------------------------------------------------------------------------
(* POST /load, the health check after it, and the commit.                   *)

LoadSucceeds ==
    /\ At("load")
    /\ Target \in alive
    /\ resident' = [resident EXCEPT ![Target] = op.target]
    /\ Goto("verify")
    /\ UNCHANGED <<handle, loaded, idle, alive, inflight, backendVars, active,
                   cancels>>

\* The driver failed after the host unloaded the old one, the worker died, or
\* the request timed out while the host goes on loading.
LoadFails ==
    /\ At("load")
    /\ \/ /\ resident' \in {resident, [resident EXCEPT ![Target] = NoModel]}
          /\ UNCHANGED inflight
       \/ /\ Target \in alive
          /\ inflight' = inflight \cup {op.target}
          /\ UNCHANGED resident
    /\ Goto("failUnload")
    /\ UNCHANGED <<handle, loaded, idle, alive, backendVars, active, cancels>>

\* The worker reports the requested model: it becomes the active one.  Only
\* ensure_active's caller goes on to send a speech request to the endpoint.
Commit ==
    /\ At("verify")
    /\ Target \in alive
    /\ resident[Target] = op.target
    /\ loaded' = [loaded EXCEPT ![Target] = op.target]
    /\ active' = op.target
    /\ inflight' = IF op.kind = "ensure" THEN inflight \cup {op.target}
                                         ELSE inflight
    /\ Return
    /\ UNCHANGED <<handle, idle, alive, resident, backendVars, cancels>>

VerifyFails ==
    /\ At("verify")
    /\ Goto("failUnload")
    /\ UNCHANGED <<workerVars, backendVars, active, cancels>>

-----------------------------------------------------------------------------
(* The except branch of _activate_locked.                                   *)

FailUnload ==
    /\ At("failUnload")
    /\ IF Target \in handle
         THEN UnloadHandle(Target, op.target)
         ELSE UNCHANGED <<loaded, resident>>
    /\ Goto("failBackend")
    /\ UNCHANGED <<handle, idle, alive, inflight, backendVars, active, cancels>>

FailBackend ==
    /\ At("failBackend")
    /\ TerminateBackend(op.target)
    /\ Goto("failWorker")
    /\ UNCHANGED <<workerVars, active, cancels>>

\* allow_rollback is not passed on to the rollback's own activation ...
RollBackOrReturn_Nested ==
    IF op.kind = "activate" /\ op.prev # NoModel
      THEN op' = [op EXCEPT !.target = op.prev, !.prev = op.target,
                            !.pc = "backend"]
      ELSE Return

\* ... so activate() rolls back once to the model it displaced, and the other
\* operations raise.
RollBackOrReturn ==
    IF op.kind = "activate" /\ op.prev # NoModel
      THEN op' = [op EXCEPT !.target = op.prev, !.prev = NoModel,
                            !.pc = "backend"]
      ELSE Return

\* A failed profile that displaced another one is terminated, any other worker
\* is left to its idle timer.
FailWorker ==
    /\ At("failWorker")
    /\ IF Target \in handle
         THEN IF op.prev # NoModel /\ Prev # Target
                THEN TerminateWorker(Target)
                ELSE /\ ScheduleIdle(Target)
                     /\ UNCHANGED <<handle, loaded, alive, resident, inflight>>
         ELSE UNCHANGED workerVars
    /\ active' = IF active = op.target THEN NoModel ELSE active
    /\ RollBackOrReturn
    /\ UNCHANGED <<backendVars, cancels>>

-----------------------------------------------------------------------------
(* release().                                                               *)

ReleaseUnload ==
    /\ At("relUnload")
    /\ IF Target \in handle
         THEN UnloadHandle(Target, op.req)
         ELSE UNCHANGED <<loaded, resident>>
    /\ Goto("relBackend")
    /\ UNCHANGED <<handle, idle, alive, inflight, backendVars, active, cancels>>

ReleaseBackend ==
    /\ At("relBackend")
    /\ TerminateBackend(op.req)
    /\ Goto("relFinish")
    /\ UNCHANGED <<workerVars, active, cancels>>

ReleaseFinish ==
    /\ At("relFinish")
    /\ IF Target \in handle THEN ScheduleIdle(Target) ELSE UNCHANGED idle
    /\ active' = NoModel
    /\ Return
    /\ UNCHANGED <<handle, loaded, alive, resident, inflight, backendVars,
                   cancels>>

-----------------------------------------------------------------------------
(* recover().                                                               *)

RecoverWorker ==
    /\ At("recWorker")
    /\ TerminateWorker(Target)
    /\ Goto("recBackend")
    /\ UNCHANGED <<backendVars, active, cancels>>

RecoverBackend ==
    /\ At("recBackend")
    /\ TerminateBackend(op.req)
    /\ Goto("recClear")
    /\ UNCHANGED <<workerVars, active, cancels>>

\* The active fields are cleared when the terminated worker was theirs, then
\* the requested model is activated without rollback.
RecoverClear ==
    /\ At("recClear")
    /\ active' = IF ActiveOn(Target) THEN NoModel ELSE active
    /\ op' = EnterActivation(op, active')
    /\ UNCHANGED <<workerVars, backendVars, cancels>>

-----------------------------------------------------------------------------
(* shutdown(): unload every worker, stop every backend, stop every worker.  *)

ShutdownUnload ==
    /\ At("stopUnload")
    /\ loaded' = [p \in Profile |-> NoModel]
    /\ \E done \in SUBSET handle :
         resident' = [p \in Profile |->
                        IF p \in done /\ loaded[p] \in {NoModel, resident[p]}
                          THEN NoModel ELSE resident[p]]
    /\ Goto("stopBackends")
    /\ UNCHANGED <<handle, idle, alive, inflight, backendVars, active, cancels>>

ShutdownBackends ==
    /\ At("stopBackends")
    /\ backends' = {}
    /\ balive' = {}
    /\ Goto("stopWorkers")
    /\ UNCHANGED <<workerVars, active, cancels>>

ShutdownWorkers ==
    /\ At("stopWorkers")
    /\ handle' = {}
    /\ loaded' = [p \in Profile |-> NoModel]
    /\ idle' = {}
    /\ alive' = {}
    /\ resident' = [p \in Profile |-> NoModel]
    /\ inflight' = {}
    /\ active' = NoModel
    /\ Return
    /\ UNCHANGED <<backendVars, cancels>>

-----------------------------------------------------------------------------
(* _shutdown_if_idle: one task per handle, which takes the lock when its    *)
(* delay has passed.  A worker that was given a model in the meantime stays.*)

\* The task gives up on a process that has already died.
IdleTimer_LiveOnly(p) ==
    /\ At("free")
    /\ p \in idle \cap alive
    /\ loaded[p] = NoModel
    /\ TerminateWorker(p)
    /\ UNCHANGED <<backendVars, active, op, cancels>>

IdleTimer(p) ==
    /\ At("free")
    /\ p \in idle
    /\ IF loaded[p] = NoModel
         THEN TerminateWorker(p)
         ELSE /\ idle' = idle \ {p}
              /\ UNCHANGED <<handle, loaded, alive, resident, inflight>>
    /\ UNCHANGED <<backendVars, active, op, cancels>>

-----------------------------------------------------------------------------
(* The environment: processes die at any time; a speech request that holds  *)
(* an endpoint, or a load that timed out, reaches the worker late and makes *)
(* the host load its model; a caller's timeout cancels its operation.       *)

WorkerDies(p) ==
    /\ p \in alive
    /\ alive' = alive \ {p}
    /\ resident' = [resident EXCEPT ![p] = NoModel]
    /\ inflight' = inflight \ ModelsOf(p)
    /\ UNCHANGED <<handle, loaded, idle, backendVars, active, op, cancels>>

BackendDies(m) ==
    /\ m \in balive
    /\ balive' = balive \ {m}
    /\ UNCHANGED <<workerVars, backends, active, op, cancels>>

LateRequest(m) ==
    /\ m \in inflight
    /\ inflight' = inflight \ {m}
    /\ resident' = [resident EXCEPT ![ProfileOf[m]] = m]
    /\ UNCHANGED <<handle, loaded, idle, alive, backendVars, active, op,
                   cancels>>

\* CancelledError is no Exception: no except branch runs, only the lock is
\* given back.  The host does not notice and finishes what it was asked to do.
CancelOperation ==
    /\ op.kind \in {"ensure", "recover"}
    /\ cancels < MaxCancels
    /\ cancels' = cancels + 1
    /\ inflight' = IF At("load") /\ Target \in alive
                     THEN inflight \cup {op.target} ELSE inflight
    /\ resident' \in IF At("unload") THEN UnloadedResident(Prev, op.prev)
                     ELSE IF At("failUnload")
                            THEN UnloadedResident(Target, op.target)
                     ELSE {resident}
    /\ Return
    /\ UNCHANGED <<handle, loaded, idle, alive, backendVars, active>>

-----------------------------------------------------------------------------

Call ==
    \/ \E m \in Model :
         Activate(m) \/ EnsureActive(m) \/ Release(m) \/ Recover(m)
    \/ Shutdown

ActivationStep ==
    \/ UnloadPrevious \/ DropPreviousBackend \/ DropPreviousWorker
    \/ KeepPreviousWorker \/ ClearPrevious
    \/ BackendReady \/ RecycleBackend \/ LaunchBackend \/ BackendHealthy
    \/ BackendStartFails
    \/ WorkerReady \/ RecycleWorker \/ LaunchWorker \/ WorkerHealthy
    \/ WorkerStartFails
    \/ LoadSucceeds \/ LoadFails \/ Commit \/ VerifyFails
    \/ FailUnload \/ FailBackend \/ FailWorker

\* A step of the operation that holds the lock.
OperationStep ==
    \/ ProbeHealthy \/ ProbeUnhealthy
    \/ ActivationStep
    \/ ReleaseUnload \/ ReleaseBackend \/ ReleaseFinish
    \/ RecoverWorker \/ RecoverBackend \/ RecoverClear
    \/ ShutdownUnload \/ ShutdownBackends \/ ShutdownWorkers

Environment ==
    \/ \E p \in Profile : WorkerDies(p)
    \/ \E m \in Model : BackendDies(m) \/ LateRequest(m)
    \/ CancelOperation

Next ==
    \/ Call
    \/ OperationStep
    \/ \E p \in Profile : IdleTimer(p)
    \/ Environment

Spec == Init /\ [][Next]_vars

(* Every await of an operation has a timeout, so a started operation goes   *)
(* on; asyncio.Lock serves its waiters in order, so an idle task that waits *)
(* for a lock that is free again and again gets it.                         *)
Fairness ==
    /\ WF_vars(OperationStep)
    /\ \A p \in Profile : SF_vars(IdleTimer(p))

FairSpec == Spec /\ Fairness

-----------------------------------------------------------------------------
(* What is checked.                                                         *)

(* Every variable of the supervisor keeps its type, and a process or a      *)
(* pending timer belongs to an entry of _workers or _backends.              *)
TypeOK ==
    /\ handle \in SUBSET Profile
    /\ loaded \in [Profile -> Model \cup {NoModel}]
    /\ idle \in SUBSET handle
    /\ alive \in SUBSET handle
    /\ resident \in [Profile -> Model \cup {NoModel}]
    /\ inflight \in SUBSET Model
    /\ backends \in SUBSET Managed
    /\ balive \in SUBSET backends
    /\ active \in Model \cup {NoModel}
    /\ op \in Op
    /\ cancels \in 0..MaxCancels

(* The lock is free and no caller's timeout has ever cancelled an operation.*)
Quiet == At("free") /\ cancels = 0

(* Between operations the active model is served: its profile has a worker  *)
(* entry that records exactly this model, no timer is about to stop that    *)
(* worker, and its managed backend has an entry.  Concerns every exit path  *)
(* of _activate_locked, recover and release.                                *)
ActiveIsServed ==
    Quiet /\ active # NoModel =>
        LET p == ProfileOf[active]
        IN  /\ p \in handle \ idle
            /\ loaded[p] = active
            /\ active \in Managed => active \in backends

(* Between operations no worker process is left behind: one that does not   *)
(* serve the active model has an idle timer that will stop it, whatever     *)
(* failed on the way (launch, load, unload, health check, rollback).        *)
NoStrandedWorker ==
    Quiet => \A p \in alive : p \in idle \/ ActiveOn(p)

(* The step is the last one of a call that was not cancelled.               *)
Completes == ~At("free") /\ op'.pc = "free" /\ cancels' = cancels

(* A call that ends without its own model in place has stopped that model's *)
(* backend, and an activate, ensure_active or release that takes the slot   *)
(* from a model has stopped the backend of the model it displaced, also     *)
(* when its own activation failed.  Not so recover(m): it clears the active *)
(* model of m's profile and leaves that model's backend, which the document *)
(* does not want ("terminate the previous managed backend before            *)
(* replacement activation", docs/tts-plugin-architecture.md).               *)
DisplacedBackendsStop ==
    [][ Completes =>
          /\ op.req # active' => op.req \notin backends'
          /\ op.kind # "recover" /\ op.before # active' =>
                op.before \notin backends' ]_vars

(* A worker process that is not serving the active model is left to a timer *)
(* or to the next operation, never forgotten: it is eventually stopped,     *)
(* dies, or serves the active model again.                                  *)
IdleWorkersStop ==
    \A p \in Profile :
        (p \in idle /\ loaded[p] = NoModel) ~> (p \notin idle)

(* Every operation gives the lock back: no sequence of failures keeps the   *)
(* supervisor in its activation and rollback path.                          *)
OperationsReturn == ~At("free") ~> At("free")

(* The supervisor implements the abstract slot: seen from outside, an       *)
(* operation changes the active model in one step, when it returns.         *)
Slot == INSTANCE TtsActiveSlot WITH
    slot <- IF At("free") THEN active ELSE op.before,
    call <- [kind |-> op.kind, req |-> op.req],
    interrupted <- cancels

ImplementsSlot == Slot!Spec

=============================================================================
