------------------------ MODULE TtsSupervisorProofs ------------------------
(***************************************************************************)
(* Proofs about TtsSupervisor, for every set of profiles and models, every *)
(* assignment of backends and every number of cancelled operations.        *)
(***************************************************************************)
EXTENDS TtsSupervisor, TLAPS

Displacing == {"unload", "dropBackend", "dropWorker", "clear"}
Activating == {"backend", "backendWait", "worker", "workerWait", "load",
               "verify", "failUnload", "failBackend", "failWorker"}
Releasing  == {"relUnload", "relBackend", "relFinish"}
Recovering == {"recWorker", "recBackend", "recClear"}
Stopping   == {"stopUnload", "stopBackends", "stopWorkers"}

(* The operation record carries the models its program counter relies on.   *)
OpShape ==
    /\ op.pc \notin {"free"} \cup Stopping =>
          op.req \in Model /\ op.target \in Model
    /\ op.pc \in Displacing => op.prev \in Model
    /\ op.pc \in Releasing \cup Recovering \cup {"probe"} => op.target = op.req
    /\ op.kind = "none" <=> op.pc = "free"

TypeInv == TypeOK /\ OpShape

(* While the lock is held and nothing was cancelled: what the steps of the  *)
(* operation have already established.                                      *)
Progress ==
    /\ op.pc \in Displacing => active = op.prev
    /\ op.pc \in Activating => active \in {NoModel, op.target}
    /\ op.pc \in Releasing => active = op.req
    /\ op.pc \in {"dropBackend", "dropWorker", "clear"} =>
          loaded[Prev] = NoModel
    /\ op.pc = "clear" => Prev \notin handle
    /\ op.pc \in {"relBackend", "relFinish", "failBackend", "failWorker"} =>
          loaded[Target] = NoModel
    /\ op.pc \in {"recBackend", "recClear"} => Target \notin handle
    /\ op.pc \in {"worker", "workerWait", "load", "verify"} =>
          (op.target \in Managed => op.target \in backends)
    /\ op.pc \in {"workerWait", "load", "verify"} => Target \notin idle

(* A handle records a model only for the active model.                      *)
RecordedIsActive ==
    \A p \in Profile : loaded[p] # NoModel => p \in handle /\ ActiveOn(p)

(* Every worker entry has a timer, serves the active model, or is the one   *)
(* the running activation works on and will commit, time or terminate.      *)
WorkersAccounted ==
    \A p \in handle :
        p \in idle \/ ActiveOn(p) \/ (op.pc \in Activating /\ p = Target)

Served ==
    op.pc \in {"free", "probe"} /\ active # NoModel =>
        LET p == ProfileOf[active]
        IN  /\ p \in handle \ idle
            /\ loaded[p] = active
            /\ active \in Managed => active \in backends

Ownership == Progress /\ RecordedIsActive /\ WorkersAccounted /\ Served

IInv == TypeInv /\ (cancels = 0 => Ownership)

-----------------------------------------------------------------------------
(* Type correctness.                                                        *)

LEMMA TypeInvInit == Init => TypeInv
  BY ConstantsAssumption
  DEF Init, TypeInv, TypeOK, OpShape, Free, Op, PC, Kind, Displacing,
      Releasing, Recovering, Stopping

(* Every step of the supervisor and of its environment keeps the types.     *)
LEMMA TypeInvStep == TypeInv /\ [Next]_vars => TypeInv'
<1> SUFFICES ASSUME TypeInv, [Next]_vars PROVE TypeInv'
  OBVIOUS
<1> USE ConstantsAssumption
    DEF TypeInv, TypeOK, OpShape, Op, PC, Kind, Free, Displacing, Releasing,
        Recovering, Stopping, workerVars, backendVars, At, Goto, Return,
        Target, Prev
<1>1. ASSUME NEW m \in Model, Activate(m) PROVE TypeInv'
  <2>1. /\ op' = EnterActivation(Begin("activate", m, "free"), active)
        /\ UNCHANGED <<workerVars, backendVars, active, cancels>>
    BY <1>1 DEF Activate
  <2>2. op' \in Op /\ OpShape'
    <3>1. CASE active = NoModel \/ active = m
      <4>1. op' = [pc |-> "backend", kind |-> "activate", req |-> m,
                   target |-> m, prev |-> NoModel, before |-> active]
        BY <2>1, <3>1 DEF EnterActivation, Begin
      <4>2. QED
        BY <3>1, <4>1
    <3>2. CASE active # NoModel /\ active # m
      <4>1. op' = [pc |-> "unload", kind |-> "activate", req |-> m,
                   target |-> m, prev |-> active, before |-> active]
        BY <2>1, <3>2 DEF EnterActivation, Begin
      <4>2. QED
        BY <3>2, <4>1
    <3>3. QED
      BY <3>1, <3>2
  <2>3. QED
    BY <2>1, <2>2
<1>2. ASSUME NEW m \in Model, EnsureActive(m) PROVE TypeInv'
  BY <1>2 DEF EnsureActive, Begin
<1>3. ASSUME NEW m \in Model, Release(m) PROVE TypeInv'
  BY <1>3 DEF Release, Begin
<1>4. ASSUME NEW m \in Model, Recover(m) PROVE TypeInv'
  BY <1>4 DEF Recover, Begin
<1>5. CASE Shutdown
  BY <1>5 DEF Shutdown, Begin
<1>6. CASE ProbeHealthy
  BY <1>6 DEF ProbeHealthy
<1>7. CASE ProbeUnhealthy
  BY <1>7 DEF ProbeUnhealthy, EnterActivation
<1>8. CASE UnloadPrevious
  BY <1>8 DEF UnloadPrevious, UnloadHandle, UnloadedResident
<1>9. CASE DropPreviousBackend
  BY <1>9 DEF DropPreviousBackend, TerminateBackend
<1>10. CASE DropPreviousWorker
  BY <1>10 DEF DropPreviousWorker, TerminateWorker
<1>11. CASE KeepPreviousWorker
  BY <1>11 DEF KeepPreviousWorker, ScheduleIdle
<1>12. CASE ClearPrevious
  BY <1>12 DEF ClearPrevious
<1>13. CASE BackendReady
  BY <1>13 DEF BackendReady
<1>14. CASE RecycleBackend
  BY <1>14 DEF RecycleBackend, TerminateBackend
<1>15. CASE LaunchBackend
  BY <1>15 DEF LaunchBackend
<1>16. CASE BackendHealthy
  BY <1>16 DEF BackendHealthy
<1>17. CASE BackendStartFails
  BY <1>17 DEF BackendStartFails, TerminateBackend
<1>18. CASE WorkerReady
  BY <1>18 DEF WorkerReady
<1>19. CASE RecycleWorker
  BY <1>19 DEF RecycleWorker, TerminateWorker
<1>20. CASE LaunchWorker
  BY <1>20 DEF LaunchWorker
<1>21. CASE WorkerHealthy
  BY <1>21 DEF WorkerHealthy
<1>22. CASE WorkerStartFails
  BY <1>22 DEF WorkerStartFails, TerminateWorker
<1>23. CASE LoadSucceeds
  BY <1>23 DEF LoadSucceeds
<1>24. CASE LoadFails
  BY <1>24 DEF LoadFails
<1>25. CASE Commit
  BY <1>25 DEF Commit
<1>26. CASE VerifyFails
  BY <1>26 DEF VerifyFails
<1>27. CASE FailUnload
  BY <1>27 DEF FailUnload, UnloadHandle, UnloadedResident
<1>28. CASE FailBackend
  BY <1>28 DEF FailBackend, TerminateBackend
<1>29. CASE FailWorker
  <2>1. At("failWorker") /\ op.target \in Model /\ Target \in Profile
    BY <1>29 DEF FailWorker, RollBackOrReturn
  <2>2. op' \in Op /\ OpShape'
    <3>1. CASE op.kind = "activate" /\ op.prev # NoModel
      <4>1. op' = [op EXCEPT !.target = op.prev, !.prev = NoModel,
                             !.pc = "backend"]
        BY <1>29, <3>1 DEF FailWorker, RollBackOrReturn
      <4>2. op.prev \in Model
        BY <3>1
      <4>3. QED
        BY <2>1, <3>1, <4>1, <4>2
    <3>2. CASE ~(op.kind = "activate" /\ op.prev # NoModel)
      <4>1. op' = Free
        BY <1>29, <3>2 DEF FailWorker, RollBackOrReturn
      <4>2. QED
        BY <4>1
    <3>3. QED
      BY <3>1, <3>2
  <2>3. active' \in Model \cup {NoModel}
    BY <1>29 DEF FailWorker, RollBackOrReturn
  <2>4. UNCHANGED <<backends, balive, cancels>>
    BY <1>29 DEF FailWorker, RollBackOrReturn
  <2>5. CASE UNCHANGED workerVars
    BY <2>2, <2>3, <2>4, <2>5
  <2>6. CASE TerminateWorker(Target)
    BY <2>1, <2>2, <2>3, <2>4, <2>6 DEF TerminateWorker
  <2>7. CASE /\ Target \in handle
             /\ ScheduleIdle(Target)
             /\ UNCHANGED <<handle, loaded, alive, resident, inflight>>
    BY <2>2, <2>3, <2>4, <2>7 DEF ScheduleIdle
  <2>8. QED
    BY <1>29, <2>5, <2>6, <2>7 DEF FailWorker, RollBackOrReturn
<1>30. CASE ReleaseUnload
  BY <1>30 DEF ReleaseUnload, UnloadHandle, UnloadedResident
<1>31. CASE ReleaseBackend
  BY <1>31 DEF ReleaseBackend, TerminateBackend
<1>32. CASE ReleaseFinish
  BY <1>32 DEF ReleaseFinish, ScheduleIdle
<1>33. CASE RecoverWorker
  BY <1>33 DEF RecoverWorker, TerminateWorker
<1>34. CASE RecoverBackend
  BY <1>34 DEF RecoverBackend, TerminateBackend
<1>35. CASE RecoverClear
  BY <1>35 DEF RecoverClear, EnterActivation
<1>36. CASE ShutdownUnload
  BY <1>36 DEF ShutdownUnload
<1>37. CASE ShutdownBackends
  BY <1>37 DEF ShutdownBackends
<1>38. CASE ShutdownWorkers
  BY <1>38 DEF ShutdownWorkers
<1>39. ASSUME NEW p \in Profile, IdleTimer(p) PROVE TypeInv'
  BY <1>39 DEF IdleTimer, TerminateWorker
<1>40. ASSUME NEW p \in Profile, WorkerDies(p) PROVE TypeInv'
  BY <1>40 DEF WorkerDies
<1>41. ASSUME NEW m \in Model, BackendDies(m) PROVE TypeInv'
  BY <1>41 DEF BackendDies
<1>42. ASSUME NEW m \in Model, LateRequest(m) PROVE TypeInv'
  BY <1>42 DEF LateRequest
<1>43. CASE CancelOperation
  BY <1>43 DEF CancelOperation, UnloadedResident
<1>44. CASE UNCHANGED vars
  BY <1>44 DEF vars
<1>q. QED
  BY <1>1, <1>2, <1>3, <1>4, <1>5, <1>6, <1>7, <1>8, <1>9, <1>10, <1>11,
     <1>12, <1>13, <1>14, <1>15, <1>16, <1>17, <1>18, <1>19, <1>20, <1>21,
     <1>22, <1>23, <1>24, <1>25, <1>26, <1>27, <1>28, <1>29, <1>30, <1>31,
     <1>32, <1>33, <1>34, <1>35, <1>36, <1>37, <1>38, <1>39, <1>40, <1>41,
     <1>42, <1>43, <1>44
  DEF Next, Call, OperationStep, ActivationStep, Environment

(* The supervisor's variables, and the processes and timers they stand for, *)
(* keep their types in every behaviour.                                     *)
THEOREM TypeCorrect == Spec => []TypeOK
<1>1. TypeInv => TypeOK
  BY DEF TypeInv
<1>2. QED
  BY <1>1, TypeInvInit, TypeInvStep, PTL DEF Spec

-----------------------------------------------------------------------------
(* Ownership of processes between operations.                               *)

LEMMA OwnershipInit == Init => Ownership
  BY DEF Init, Ownership, Progress, RecordedIsActive, WorkersAccounted, Served,
         Free, Displacing, Activating, Releasing

(* As long as no operation is cancelled, every step keeps the processes     *)
(* accounted for.                                                           *)
LEMMA OwnershipStep ==
    TypeInv /\ (cancels = 0 => Ownership) /\ [Next]_vars
      => (cancels' = 0 => Ownership')
<1> SUFFICES ASSUME TypeInv, cancels = 0 => Ownership, [Next]_vars, cancels' = 0
             PROVE  Ownership'
  OBVIOUS
<1>0. cancels = 0 /\ Ownership /\ ~CancelOperation
  <2>1. CASE CancelOperation
    BY <2>1 DEF CancelOperation, TypeInv, TypeOK
  <2>2. CASE ~CancelOperation
    <3>1. cancels' = cancels
      BY <2>2 DEF Next, vars, Call, OperationStep, ActivationStep, Environment,
           Activate, EnsureActive, Release, Recover, Shutdown, IdleTimer,
           WorkerDies, BackendDies, LateRequest,
           ProbeHealthy, ProbeUnhealthy, UnloadPrevious,
           DropPreviousBackend, DropPreviousWorker, KeepPreviousWorker,
           ClearPrevious, BackendReady, RecycleBackend, LaunchBackend,
           BackendHealthy, BackendStartFails, WorkerReady, RecycleWorker,
           LaunchWorker, WorkerHealthy, WorkerStartFails, LoadSucceeds,
           LoadFails, Commit, VerifyFails, FailUnload, FailBackend,
           FailWorker, ReleaseUnload, ReleaseBackend, ReleaseFinish,
           RecoverWorker, RecoverBackend, RecoverClear, ShutdownUnload,
           ShutdownBackends, ShutdownWorkers
    <3>2. QED
      BY <2>2, <3>1
  <2>3. QED
    BY <2>1, <2>2
<1> USE ConstantsAssumption
    DEF TypeInv, TypeOK, OpShape, Op, PC, Kind, Free, Displacing, Activating,
        Releasing, Recovering, Stopping, workerVars, backendVars, At, Goto,
        Return, Target, Prev, ActiveOn, Ownership, Progress, RecordedIsActive,
        WorkersAccounted, Served
<1>1. ASSUME NEW m \in Model, Activate(m) PROVE Ownership'
  BY <1>1 DEF Activate, EnterActivation, Begin
<1>2. ASSUME NEW m \in Model, EnsureActive(m) PROVE Ownership'
  BY <1>2 DEF EnsureActive, Begin
<1>3. ASSUME NEW m \in Model, Release(m) PROVE Ownership'
  BY <1>3 DEF Release, Begin
<1>4. ASSUME NEW m \in Model, Recover(m) PROVE Ownership'
  BY <1>4 DEF Recover, Begin
<1>5. CASE Shutdown
  BY <1>5 DEF Shutdown, Begin
<1>6. CASE ProbeHealthy
  BY <1>6 DEF ProbeHealthy
<1>7. CASE ProbeUnhealthy
  BY <1>7 DEF ProbeUnhealthy, EnterActivation
<1>8. CASE UnloadPrevious
  BY <1>8 DEF UnloadPrevious, UnloadHandle
<1>9. CASE DropPreviousBackend
  BY <1>9 DEF DropPreviousBackend, TerminateBackend
<1>10. CASE DropPreviousWorker
  BY <1>10 DEF DropPreviousWorker, TerminateWorker
<1>11. CASE KeepPreviousWorker
  BY <1>11 DEF KeepPreviousWorker, ScheduleIdle
<1>12. CASE ClearPrevious
  BY <1>12 DEF ClearPrevious
<1>13. CASE BackendReady
  BY <1>13 DEF BackendReady
<1>14. CASE RecycleBackend
  BY <1>14 DEF RecycleBackend, TerminateBackend
<1>15. CASE LaunchBackend
  BY <1>15 DEF LaunchBackend
<1>16. CASE BackendHealthy
  BY <1>16 DEF BackendHealthy
<1>17. CASE BackendStartFails
  BY <1>17 DEF BackendStartFails, TerminateBackend
<1>18. CASE WorkerReady
  BY <1>18 DEF WorkerReady
<1>19. CASE RecycleWorker
  BY <1>19 DEF RecycleWorker, TerminateWorker
<1>20. CASE LaunchWorker
  BY <1>20 DEF LaunchWorker
<1>21. CASE WorkerHealthy
  BY <1>21 DEF WorkerHealthy
<1>22. CASE WorkerStartFails
  BY <1>22 DEF WorkerStartFails, TerminateWorker
<1>23. CASE LoadSucceeds
  BY <1>23 DEF LoadSucceeds
<1>24. CASE LoadFails
  BY <1>24 DEF LoadFails
<1>25. CASE Commit
  BY <1>25 DEF Commit
<1>26. CASE VerifyFails
  BY <1>26 DEF VerifyFails
<1>27. CASE FailUnload
  BY <1>27 DEF FailUnload, UnloadHandle
<1>28. CASE FailBackend
  BY <1>28 DEF FailBackend, TerminateBackend
<1>29. CASE FailWorker
  <2>1. /\ active' = NoModel
        /\ op.target \in Model /\ Target \in Profile
        /\ \A p \in Profile : loaded[p] = NoModel
        /\ \A p \in handle : p \in idle \/ p = Target
    BY <1>0, <1>29 DEF FailWorker, RollBackOrReturn
  <2>2. op'.pc \in {"free", "backend"}
    <3>1. CASE op.kind = "activate" /\ op.prev # NoModel
      BY <1>29, <3>1 DEF FailWorker, RollBackOrReturn
    <3>2. CASE ~(op.kind = "activate" /\ op.prev # NoModel)
      <4>1. op' = Free
        BY <1>29, <3>2 DEF FailWorker, RollBackOrReturn
      <4>2. QED
        BY <4>1
    <3>3. QED
      BY <3>1, <3>2
  <2>3. /\ \A p \in Profile : loaded'[p] = NoModel
        /\ handle' \subseteq idle'
    <3>1. CASE UNCHANGED workerVars /\ Target \notin handle
      BY <2>1, <3>1
    <3>2. CASE TerminateWorker(Target)
      BY <2>1, <3>2 DEF TerminateWorker
    <3>3. CASE /\ ScheduleIdle(Target)
               /\ UNCHANGED <<handle, loaded, alive, resident, inflight>>
      BY <2>1, <3>3 DEF ScheduleIdle
    <3>4. QED
      BY <1>29, <3>1, <3>2, <3>3 DEF FailWorker, RollBackOrReturn
  <2>4. QED
    BY <2>1, <2>2, <2>3
<1>30. CASE ReleaseUnload
  BY <1>30 DEF ReleaseUnload, UnloadHandle
<1>31. CASE ReleaseBackend
  BY <1>31 DEF ReleaseBackend, TerminateBackend
<1>32. CASE ReleaseFinish
  BY <1>32 DEF ReleaseFinish, ScheduleIdle
<1>33. CASE RecoverWorker
  BY <1>33 DEF RecoverWorker, TerminateWorker
<1>34. CASE RecoverBackend
  BY <1>34 DEF RecoverBackend, TerminateBackend
<1>35. CASE RecoverClear
  BY <1>35 DEF RecoverClear, EnterActivation
<1>36. CASE ShutdownUnload
  BY <1>36 DEF ShutdownUnload
<1>37. CASE ShutdownBackends
  BY <1>37 DEF ShutdownBackends
<1>38. CASE ShutdownWorkers
  BY <1>38 DEF ShutdownWorkers
<1>39. ASSUME NEW p \in Profile, IdleTimer(p) PROVE Ownership'
  BY <1>39 DEF IdleTimer, TerminateWorker
<1>40. ASSUME NEW p \in Profile, WorkerDies(p) PROVE Ownership'
  BY <1>40 DEF WorkerDies
<1>41. ASSUME NEW m \in Model, BackendDies(m) PROVE Ownership'
  BY <1>41 DEF BackendDies
<1>42. ASSUME NEW m \in Model, LateRequest(m) PROVE Ownership'
  BY <1>42 DEF LateRequest
<1>43. CASE UNCHANGED vars
  BY <1>43 DEF vars
<1>q. QED
  BY <1>0, <1>1, <1>2, <1>3, <1>4, <1>5, <1>6, <1>7, <1>8, <1>9, <1>10, <1>11,
     <1>12, <1>13, <1>14, <1>15, <1>16, <1>17, <1>18, <1>19, <1>20, <1>21,
     <1>22, <1>23, <1>24, <1>25, <1>26, <1>27, <1>28, <1>29, <1>30, <1>31,
     <1>32, <1>33, <1>34, <1>35, <1>36, <1>37, <1>38, <1>39, <1>40, <1>41,
     <1>42, <1>43
  DEF Next, Call, OperationStep, ActivationStep, Environment

LEMMA Invariance == Spec => []IInv
<1>1. Init => IInv
  BY TypeInvInit, OwnershipInit DEF IInv
<1>2. IInv /\ [Next]_vars => IInv'
  BY TypeInvStep, OwnershipStep DEF IInv
<1>3. QED
  BY <1>1, <1>2, PTL DEF Spec

(* Between operations the active model has its worker entry, with no timer  *)
(* pending, and its managed backend entry, as long as no caller's timeout   *)
(* cancelled an operation.                                                  *)
THEOREM ActiveServed == Spec => []ActiveIsServed
<1>1. IInv => ActiveIsServed
  BY DEF IInv, Ownership, Served, ActiveIsServed, Quiet, At
<1>2. QED
  BY <1>1, Invariance, PTL

(* No failure of a launch, load, unload or health check, and no death of a  *)
(* process, leaves a worker process without an owner or a timer, as long as *)
(* no caller's timeout cancelled an operation.                              *)
THEOREM WorkersOwned == Spec => []NoStrandedWorker
<1>1. IInv => NoStrandedWorker
  BY DEF IInv, TypeInv, TypeOK, Ownership, WorkersAccounted, NoStrandedWorker,
         Quiet, At, Activating
<1>2. QED
  BY <1>1, Invariance, PTL

-----------------------------------------------------------------------------
(* Refinement: the supervisor implements TtsActiveSlot.                     *)

(* While an operation runs, the active model is the one it found or none;   *)
(* an activation works on the requested model or, rolling back, on the one  *)
(* it displaced.                                                            *)
CallInv ==
    /\ op.pc = "free" => op = Free
    /\ op.pc # "free" => active \in {op.before, NoModel}
    /\ op.pc \in Displacing => active = op.prev
    /\ op.pc \in Activating => active \in {NoModel, op.target}
    /\ op.pc \in Displacing \cup Activating \cup Recovering \cup {"probe"} =>
          /\ op.kind \in {"activate", "ensure", "recover"}
          /\ op.prev \in {NoModel, op.before}
          /\ op.target \in {op.req, op.before}
          /\ op.kind # "activate" => op.target = op.req
    /\ op.pc \in Recovering => op.kind = "recover"
    /\ op.pc = "probe" => op.kind = "ensure"
    /\ op.pc \in Releasing => op.kind = "release"
    /\ op.pc \in Stopping => op.kind = "shutdown"

LEMMA CallInvInit == Init => CallInv
  BY DEF Init, CallInv, Free, Displacing, Activating, Recovering, Releasing,
         Stopping

(* Each step keeps CallInv and is a step or a stutter of the abstract slot. *)
LEMMA SlotStep ==
    TypeInv /\ CallInv /\ [Next]_vars
      => CallInv' /\ [Slot!Next]_(Slot!slotVars)
<1> SUFFICES ASSUME TypeInv, CallInv, [Next]_vars
             PROVE  CallInv' /\ [Slot!Next]_(Slot!slotVars)
  OBVIOUS
<1> USE ConstantsAssumption
    DEF TypeInv, TypeOK, OpShape, Op, PC, Kind, Free, Displacing, Activating,
        Releasing, Recovering, Stopping, workerVars, backendVars, At, Goto,
        Return, Target, Prev, ActiveOn, CallInv, Slot!Next, Slot!slotVars,
        Slot!Begin, Slot!End, Slot!Interrupted, Slot!Outcome, Slot!NoCall,
        Slot!Calls
<1>1. ASSUME NEW m \in Model, Activate(m)
      PROVE  CallInv' /\ [Slot!Next]_(Slot!slotVars)
  BY <1>1 DEF Activate, EnterActivation, Begin
<1>2. ASSUME NEW m \in Model, EnsureActive(m)
      PROVE  CallInv' /\ [Slot!Next]_(Slot!slotVars)
  BY <1>2 DEF EnsureActive, Begin
<1>3. ASSUME NEW m \in Model, Release(m)
      PROVE  CallInv' /\ [Slot!Next]_(Slot!slotVars)
  BY <1>3 DEF Release, Begin
<1>4. ASSUME NEW m \in Model, Recover(m)
      PROVE  CallInv' /\ [Slot!Next]_(Slot!slotVars)
  BY <1>4 DEF Recover, Begin
<1>5. CASE Shutdown
  BY <1>5 DEF Shutdown, Begin
<1>6. CASE ProbeHealthy
  BY <1>6 DEF ProbeHealthy
<1>7. CASE ProbeUnhealthy
  BY <1>7 DEF ProbeUnhealthy, EnterActivation
<1>8. CASE UnloadPrevious
  BY <1>8 DEF UnloadPrevious, UnloadHandle
<1>9. CASE DropPreviousBackend
  BY <1>9 DEF DropPreviousBackend, TerminateBackend
<1>10. CASE DropPreviousWorker
  BY <1>10 DEF DropPreviousWorker, TerminateWorker
<1>11. CASE KeepPreviousWorker
  BY <1>11 DEF KeepPreviousWorker, ScheduleIdle
<1>12. CASE ClearPrevious
  BY <1>12 DEF ClearPrevious
<1>13. CASE BackendReady
  BY <1>13 DEF BackendReady
<1>14. CASE RecycleBackend
  BY <1>14 DEF RecycleBackend, TerminateBackend
<1>15. CASE LaunchBackend
  BY <1>15 DEF LaunchBackend
<1>16. CASE BackendHealthy
  BY <1>16 DEF BackendHealthy
<1>17. CASE BackendStartFails
  BY <1>17 DEF BackendStartFails, TerminateBackend
<1>18. CASE WorkerReady
  BY <1>18 DEF WorkerReady
<1>19. CASE RecycleWorker
  BY <1>19 DEF RecycleWorker, TerminateWorker
<1>20. CASE LaunchWorker
  BY <1>20 DEF LaunchWorker
<1>21. CASE WorkerHealthy
  BY <1>21 DEF WorkerHealthy
<1>22. CASE WorkerStartFails
  BY <1>22 DEF WorkerStartFails, TerminateWorker
<1>23. CASE LoadSucceeds
  BY <1>23 DEF LoadSucceeds
<1>24. CASE LoadFails
  BY <1>24 DEF LoadFails
<1>25. CASE Commit
  BY <1>25 DEF Commit
<1>26. CASE VerifyFails
  BY <1>26 DEF VerifyFails
<1>27. CASE FailUnload
  BY <1>27 DEF FailUnload, UnloadHandle
<1>28. CASE FailBackend
  BY <1>28 DEF FailBackend, TerminateBackend
<1>29. CASE FailWorker
  <2>1. op.pc = "failWorker" /\ active' = NoModel /\ cancels' = cancels
    BY <1>29 DEF FailWorker, RollBackOrReturn
  <2>2. CASE op.kind = "activate" /\ op.prev # NoModel
    <3>1. op' = [op EXCEPT !.target = op.prev, !.prev = NoModel,
                           !.pc = "backend"]
      BY <1>29, <2>2 DEF FailWorker, RollBackOrReturn
    <3>2. CallInv'
      BY <2>1, <2>2, <3>1
    <3>3. UNCHANGED Slot!slotVars
      BY <2>1, <3>1
    <3>4. QED
      BY <3>2, <3>3
  <2>3. CASE ~(op.kind = "activate" /\ op.prev # NoModel)
    <3>1. op' = Free
      BY <1>29, <2>3 DEF FailWorker, RollBackOrReturn
    <3>2. CallInv'
      BY <3>1
    <3>3. Slot!End
      BY <2>1, <3>1
    <3>4. QED
      BY <3>2, <3>3
  <2>4. QED
    BY <2>2, <2>3
<1>30. CASE ReleaseUnload
  BY <1>30 DEF ReleaseUnload, UnloadHandle
<1>31. CASE ReleaseBackend
  BY <1>31 DEF ReleaseBackend, TerminateBackend
<1>32. CASE ReleaseFinish
  BY <1>32 DEF ReleaseFinish, ScheduleIdle
<1>33. CASE RecoverWorker
  BY <1>33 DEF RecoverWorker, TerminateWorker
<1>34. CASE RecoverBackend
  BY <1>34 DEF RecoverBackend, TerminateBackend
<1>35. CASE RecoverClear
  BY <1>35 DEF RecoverClear, EnterActivation
<1>36. CASE ShutdownUnload
  BY <1>36 DEF ShutdownUnload
<1>37. CASE ShutdownBackends
  BY <1>37 DEF ShutdownBackends
<1>38. CASE ShutdownWorkers
  BY <1>38 DEF ShutdownWorkers
<1>39. ASSUME NEW p \in Profile, IdleTimer(p)
      PROVE  CallInv' /\ [Slot!Next]_(Slot!slotVars)
  BY <1>39 DEF IdleTimer, TerminateWorker
<1>40. ASSUME NEW p \in Profile, WorkerDies(p)
      PROVE  CallInv' /\ [Slot!Next]_(Slot!slotVars)
  BY <1>40 DEF WorkerDies
<1>41. ASSUME NEW m \in Model, BackendDies(m)
      PROVE  CallInv' /\ [Slot!Next]_(Slot!slotVars)
  BY <1>41 DEF BackendDies
<1>42. ASSUME NEW m \in Model, LateRequest(m)
      PROVE  CallInv' /\ [Slot!Next]_(Slot!slotVars)
  BY <1>42 DEF LateRequest
<1>43. CASE CancelOperation
  BY <1>43 DEF CancelOperation
<1>44. CASE UNCHANGED vars
  BY <1>44 DEF vars
<1>q. QED
  BY <1>1, <1>2, <1>3, <1>4, <1>5, <1>6, <1>7, <1>8, <1>9, <1>10, <1>11,
     <1>12, <1>13, <1>14, <1>15, <1>16, <1>17, <1>18, <1>19, <1>20, <1>21,
     <1>22, <1>23, <1>24, <1>25, <1>26, <1>27, <1>28, <1>29, <1>30, <1>31,
     <1>32, <1>33, <1>34, <1>35, <1>36, <1>37, <1>38, <1>39, <1>40, <1>41,
     <1>42, <1>43, <1>44
  DEF Next, Call, OperationStep, ActivationStep, Environment

(* Seen from outside, every operation changes the active model in one step, *)
(* and only to what its kind of call may leave behind: the requested model, *)
(* the model it found, or none.                                             *)
THEOREM Refinement == Spec => ImplementsSlot
<1>1. Init => Slot!Init
  BY DEF Init, Slot!Init, Slot!NoCall, Free, At
<1>2. QED
  BY <1>1, TypeInvInit, TypeInvStep, CallInvInit, SlotStep, PTL
  DEF Spec, ImplementsSlot, Slot!Spec

-----------------------------------------------------------------------------
(* Backends of displaced models.                                            *)

(* What has been stopped at each await: an activation has dropped the       *)
(* backend of the model it displaced before it works on another one, and    *)
(* that of the requested model before it rolls back.  recover() may keep    *)
(* the backend of a model it did not ask for.                               *)
BackendsDropped ==
    /\ op.pc \in Displacing \cup {"probe"} => op.target = op.req
    /\ op.pc = "probe" => active = op.before
    /\ op.pc \in {"dropWorker", "clear"} /\ op.kind # "recover" =>
          op.before \notin backends
    /\ op.pc \in Activating =>
          /\ op.kind # "recover" /\ op.before # op.target =>
                op.before \notin backends
          /\ op.target # op.req => op.req \notin backends
    /\ op.pc = "failWorker" => op.target \notin backends
    /\ op.pc \in Releasing => op.before = op.req
    /\ op.pc = "relFinish" => op.req \notin backends
    /\ op.pc \in Stopping => op.req = NoModel
    /\ op.pc = "stopWorkers" => backends = {}

(* What DisplacedBackendsStop says of a step.                               *)
BackendsStopped ==
    Completes =>
        /\ op.req # active' => op.req \notin backends'
        /\ op.kind # "recover" /\ op.before # active' =>
              op.before \notin backends'

LEMMA BackendsDroppedInit == Init => BackendsDropped
  BY DEF Init, BackendsDropped, Free, Displacing, Activating, Releasing, Stopping

(* Each step keeps BackendsDropped and, when it ends a call, leaves no      *)
(* backend of a model that lost the slot.                                   *)
LEMMA BackendsStep ==
    TypeInv /\ CallInv /\ BackendsDropped /\ [Next]_vars
      => BackendsDropped' /\ BackendsStopped
<1> SUFFICES ASSUME TypeInv, CallInv, BackendsDropped, [Next]_vars
             PROVE  BackendsDropped' /\ BackendsStopped
  OBVIOUS
<1> USE ConstantsAssumption
    DEF TypeInv, TypeOK, OpShape, Op, PC, Kind, Free, Displacing, Activating,
        Releasing, Recovering, Stopping, workerVars, backendVars, At, Goto,
        Return, Target, Prev, ActiveOn, CallInv, BackendsDropped,
        BackendsStopped, Completes
<1>1. ASSUME NEW m \in Model, Activate(m)
      PROVE  BackendsDropped' /\ BackendsStopped
  BY <1>1 DEF Activate, EnterActivation, Begin
<1>2. ASSUME NEW m \in Model, EnsureActive(m)
      PROVE  BackendsDropped' /\ BackendsStopped
  BY <1>2 DEF EnsureActive, Begin
<1>3. ASSUME NEW m \in Model, Release(m)
      PROVE  BackendsDropped' /\ BackendsStopped
  BY <1>3 DEF Release, Begin
<1>4. ASSUME NEW m \in Model, Recover(m)
      PROVE  BackendsDropped' /\ BackendsStopped
  BY <1>4 DEF Recover, Begin
<1>5. CASE Shutdown
  BY <1>5 DEF Shutdown, Begin
<1>6. CASE ProbeHealthy
  BY <1>6 DEF ProbeHealthy
<1>7. CASE ProbeUnhealthy
  BY <1>7 DEF ProbeUnhealthy, EnterActivation
<1>8. CASE UnloadPrevious
  BY <1>8 DEF UnloadPrevious, UnloadHandle
<1>9. CASE DropPreviousBackend
  BY <1>9 DEF DropPreviousBackend, TerminateBackend
<1>10. CASE DropPreviousWorker
  BY <1>10 DEF DropPreviousWorker, TerminateWorker
<1>11. CASE KeepPreviousWorker
  BY <1>11 DEF KeepPreviousWorker, ScheduleIdle
<1>12. CASE ClearPrevious
  BY <1>12 DEF ClearPrevious
<1>13. CASE BackendReady
  BY <1>13 DEF BackendReady
<1>14. CASE RecycleBackend
  BY <1>14 DEF RecycleBackend, TerminateBackend
<1>15. CASE LaunchBackend
  BY <1>15 DEF LaunchBackend
<1>16. CASE BackendHealthy
  BY <1>16 DEF BackendHealthy
<1>17. CASE BackendStartFails
  BY <1>17 DEF BackendStartFails, TerminateBackend
<1>18. CASE WorkerReady
  BY <1>18 DEF WorkerReady
<1>19. CASE RecycleWorker
  BY <1>19 DEF RecycleWorker, TerminateWorker
<1>20. CASE LaunchWorker
  BY <1>20 DEF LaunchWorker
<1>21. CASE WorkerHealthy
  BY <1>21 DEF WorkerHealthy
<1>22. CASE WorkerStartFails
  BY <1>22 DEF WorkerStartFails, TerminateWorker
<1>23. CASE LoadSucceeds
  BY <1>23 DEF LoadSucceeds
<1>24. CASE LoadFails
  BY <1>24 DEF LoadFails
<1>25. CASE Commit
  BY <1>25 DEF Commit
<1>26. CASE VerifyFails
  BY <1>26 DEF VerifyFails
<1>27. CASE FailUnload
  BY <1>27 DEF FailUnload, UnloadHandle
<1>28. CASE FailBackend
  BY <1>28 DEF FailBackend, TerminateBackend
<1>29. CASE FailWorker
  <2>1. /\ op.pc = "failWorker" /\ active' = NoModel
        /\ cancels' = cancels /\ backends' = backends
        /\ op.target \notin backends /\ op.req \notin backends /\ NoModel \notin backends
        /\ op.kind # "recover" => op.before \notin backends
    BY <1>29 DEF FailWorker, RollBackOrReturn
  <2>2. CASE op.kind = "activate" /\ op.prev # NoModel
    <3>1. op' = [op EXCEPT !.target = op.prev, !.prev = NoModel,
                           !.pc = "backend"]
      BY <1>29, <2>2 DEF FailWorker, RollBackOrReturn
    <3>2. QED
      BY <2>1, <2>2, <3>1
  <2>3. CASE ~(op.kind = "activate" /\ op.prev # NoModel)
    <3>1. op' = Free
      BY <1>29, <2>3 DEF FailWorker, RollBackOrReturn
    <3>2. QED
      BY <2>1, <3>1
  <2>4. QED
    BY <2>2, <2>3
<1>30. CASE ReleaseUnload
  BY <1>30 DEF ReleaseUnload, UnloadHandle
<1>31. CASE ReleaseBackend
  BY <1>31 DEF ReleaseBackend, TerminateBackend
<1>32. CASE ReleaseFinish
  BY <1>32 DEF ReleaseFinish, ScheduleIdle
<1>33. CASE RecoverWorker
  BY <1>33 DEF RecoverWorker, TerminateWorker
<1>34. CASE RecoverBackend
  BY <1>34 DEF RecoverBackend, TerminateBackend
<1>35. CASE RecoverClear
  BY <1>35 DEF RecoverClear, EnterActivation
<1>36. CASE ShutdownUnload
  BY <1>36 DEF ShutdownUnload
<1>37. CASE ShutdownBackends
  BY <1>37 DEF ShutdownBackends
<1>38. CASE ShutdownWorkers
  BY <1>38 DEF ShutdownWorkers
<1>39. ASSUME NEW p \in Profile, IdleTimer(p)
      PROVE  BackendsDropped' /\ BackendsStopped
  BY <1>39 DEF IdleTimer, TerminateWorker
<1>40. ASSUME NEW p \in Profile, WorkerDies(p)
      PROVE  BackendsDropped' /\ BackendsStopped
  BY <1>40 DEF WorkerDies
<1>41. ASSUME NEW m \in Model, BackendDies(m)
      PROVE  BackendsDropped' /\ BackendsStopped
  BY <1>41 DEF BackendDies
<1>42. ASSUME NEW m \in Model, LateRequest(m)
      PROVE  BackendsDropped' /\ BackendsStopped
  BY <1>42 DEF LateRequest
<1>43. CASE CancelOperation
  BY <1>43 DEF CancelOperation
<1>44. CASE UNCHANGED vars
  BY <1>44 DEF vars
<1>q. QED
  BY <1>1, <1>2, <1>3, <1>4, <1>5, <1>6, <1>7, <1>8, <1>9, <1>10, <1>11,
     <1>12, <1>13, <1>14, <1>15, <1>16, <1>17, <1>18, <1>19, <1>20, <1>21,
     <1>22, <1>23, <1>24, <1>25, <1>26, <1>27, <1>28, <1>29, <1>30, <1>31,
     <1>32, <1>33, <1>34, <1>35, <1>36, <1>37, <1>38, <1>39, <1>40, <1>41,
     <1>42, <1>43, <1>44
  DEF Next, Call, OperationStep, ActivationStep, Environment

(* A call that ends without its model in place has stopped its backend, and *)
(* _activate_locked, release and shutdown have stopped that of the model    *)
(* which lost the slot, however many launches, loads and rollbacks failed.  *)
THEOREM DisplacedBackends == Spec => DisplacedBackendsStop
<1> DEFINE J == TypeInv /\ CallInv /\ BackendsDropped
<1>1. Init => J
  BY TypeInvInit, CallInvInit, BackendsDroppedInit
<1>2. J /\ [Next]_vars => J' /\ [BackendsStopped]_vars
  BY TypeInvStep, SlotStep, BackendsStep
<1>3. Spec => [][BackendsStopped]_vars
  BY <1>1, <1>2, PTL DEF Spec
<1>4. QED
  BY <1>3 DEF DisplacedBackendsStop, BackendsStopped

=============================================================================
