------------------------ MODULE TranslationStrategy ------------------------
(***************************************************************************)
(* Which translation engine owns the daemon: the local cascade (VAD, ASR,  *)
(* MT, TTS under the DuplexOrchestrator) or one direct speech provider.    *)
(* TranslationStrategyManager changes the selection in a transaction under *)
(* _transition_lock and persists it; IntegratedLiveTranslatorApp starts    *)
(* and stops the cascade for it, and also on its own account: when an HTTP *)
(* handler needs the models, when the residency setting changes, and when  *)
(* the on-demand models have been idle.  LiveTranslationController opens   *)
(* sessions of the selected provider.  The daemon may crash at any time.   *)
(***************************************************************************)
EXTENDS Naturals, FiniteSets

CONSTANTS Strategy,   \* direct strategies of the provider catalog
          Cascade,    \* CASCADE_STRATEGY_ID
          NoStrategy, \* no adapter
          Caller      \* slots for handlers that call _ensure_runtime_ready

ASSUME StrategyAssumption ==
    /\ Cascade \notin Strategy
    /\ NoStrategy \notin Strategy \cup {Cascade}

VARIABLES power,      \* the daemon: down, up, or in app.stop()
          file,       \* translation_strategy.json
          residency,  \* _runtime_residency and its settings file
          state,      \* _state.strategy_id
          adapter,    \* the strategy of _direct_adapter
          loaded,     \* direct adapters that have loaded and not unloaded
          op,         \* the transition that holds _transition_lock
          isActive,   \* orchestrator._is_active
          models,     \* the cascade's models or pipelines are resident
          ready,      \* handlers inside _ensure_runtime_ready
          setting,    \* the handler inside _set_runtime_residency
          idleTask,   \* _runtime_idle_task
          live        \* LiveTranslationController

managerVars == <<file, state, adapter, loaded>>
cascadeVars == <<isActive, models>>
callerVars  == <<ready, setting, idleTask>>
vars == <<power, file, residency, state, adapter, loaded, op, isActive, models,
          ready, setting, idleTask, live>>

Selection == Strategy \cup {Cascade}

TransitionPC ==
    {"free", "validate", "candidate", "stopping", "restarting", "starting",
     "raise", "fallback", "bootStart", "bootStarting", "unload"}

(* prev and prevAdapter are the locals previous_state and previous_adapter; *)
(* stopped is cascade_stopped; start is start_cascade_when_selected.        *)
Transition ==
    [pc : TransitionPC, kind : {"none", "activate", "restore", "shutdown"},
     req : Selection, prev : Selection, prevAdapter : Strategy \cup {NoStrategy},
     wasActive : BOOLEAN, stopped : BOOLEAN, start : BOOLEAN]

Free == [pc |-> "free", kind |-> "none", req |-> Cascade, prev |-> Cascade,
         prevAdapter |-> NoStrategy, wasActive |-> FALSE, stopped |-> FALSE,
         start |-> FALSE]

NoSession == [pc |-> "stopped", sessions |-> {}]

At(label)   == op.pc = label
Goto(label) == op' = [op EXCEPT !.pc = label]

(* LiveTranslationController.active.                                        *)
LiveActive == live.pc = "active"

(* The HTTP server answers only after restore() has returned.               *)
Serving == power \in {"up", "stopping"} /\ op.kind # "restore"

Init ==
    /\ power = "down"
    /\ file = Cascade
    /\ residency = "on_demand"
    /\ state = Cascade
    /\ adapter = NoStrategy
    /\ loaded = {}
    /\ op = Free
    /\ isActive = FALSE
    /\ models = FALSE
    /\ ready = [c \in Caller |-> "idle"]
    /\ setting = "idle"
    /\ idleTask = "none"
    /\ live = NoSession

-----------------------------------------------------------------------------
(* orchestrator.start() and stop(), which no lock guards: the flag changes  *)
(* at once, the models are loaded or unloaded over many awaits.             *)

StartEnters == ~isActive /\ isActive' = TRUE /\ UNCHANGED models

StartEnds == models' = TRUE /\ UNCHANGED isActive

\* A load raised: the flag stays up, whatever was loaded stays loaded.
StartRaises == models' \in {models, TRUE} /\ UNCHANGED isActive

StopEnters == isActive /\ isActive' = FALSE /\ UNCHANGED models

StopEnds == models' = FALSE /\ UNCHANGED isActive

-----------------------------------------------------------------------------
(* _persist_state writes a temporary file and renames it: the old selection *)
(* or the new one, never a torn file.                                       *)

PersistSucceeds(s) == file' = s

PersistRaises == UNCHANGED file

-----------------------------------------------------------------------------
(* activate().                                                              *)

\* The handler turns the request away while a live session is active.
Activate(s) ==
    /\ Serving
    /\ At("free")
    /\ ~LiveActive
    /\ op' = [Free EXCEPT !.pc = "validate", !.kind = "activate", !.req = s,
                          !.prev = state, !.prevAdapter = adapter,
                          !.start = residency = "ready"]
    /\ UNCHANGED <<power, residency, managerVars, cascadeVars, callerVars, live>>

-----------------------------------------------------------------------------
(* _activate_direct.  Between the last await and the end of the call nobody *)
(* else runs: persist, unload of the previous adapter (no adapter suspends  *)
(* in unload()) and the except branch up to its start_cascade are one step. *)

DirectCommits ==
    /\ PersistSucceeds(op.req)
    /\ state' = op.req
    /\ adapter' = op.req
    /\ loaded' = (loaded \cup {op.req}) \ {op.prevAdapter}
    /\ op' = Free

\* The previous adapter is not put back.
DirectFails_AdapterNotRestored(stopped) ==
    /\ PersistRaises
    /\ loaded' = loaded \ {op.req}
    /\ adapter' = op.req
    /\ UNCHANGED state
    /\ IF stopped /\ ~isActive
         THEN /\ isActive' = TRUE
              /\ op' = [op EXCEPT !.pc = "restarting", !.stopped = TRUE]
         ELSE /\ op' = [op EXCEPT !.pc = "raise", !.stopped = stopped]
              /\ UNCHANGED isActive

\* The cascade that was stopped is not started again.
DirectFails_NoRestart(stopped) ==
    /\ PersistRaises
    /\ loaded' = loaded \ {op.req}
    /\ op' = [op EXCEPT !.pc = "raise", !.stopped = stopped]
    /\ UNCHANGED <<state, adapter, isActive>>

\* The file cannot be written: the candidate is unloaded, the old selection
\* put back, and the cascade started again if this transition stopped it.
DirectFails(stopped) ==
    /\ PersistRaises
    /\ loaded' = loaded \ {op.req}
    /\ UNCHANGED <<state, adapter>>
    /\ IF stopped /\ ~isActive
         THEN /\ isActive' = TRUE
              /\ op' = [op EXCEPT !.pc = "restarting", !.stopped = TRUE]
         ELSE /\ op' = [op EXCEPT !.pc = "raise", !.stopped = stopped]
              /\ UNCHANGED isActive

\* The candidate is healthy and supports the languages.  Whether the cascade
\* has to stop was decided before the candidate was loaded.
CandidateHealthy ==
    /\ At("candidate")
    /\ op.wasActive => ~isActive
    /\ \/ DirectCommits /\ UNCHANGED isActive
       \/ DirectFails(op.wasActive)
    /\ UNCHANGED <<power, residency, models, callerVars, live>>

CandidateReplacesCascade ==
    /\ At("candidate")
    /\ op.wasActive
    /\ StopEnters
    /\ loaded' = loaded \cup {op.req}
    /\ Goto("stopping")
    /\ UNCHANGED <<power, residency, file, state, adapter, callerVars, live>>

\* The import, load() or health_check() failed; the candidate is unloaded.
CandidateFails ==
    /\ At("candidate")
    /\ Goto("raise")
    /\ UNCHANGED <<power, residency, managerVars, cascadeVars, callerVars, live>>

CascadeStopped ==
    /\ At("stopping")
    /\ models' = FALSE
    /\ \/ DirectCommits /\ UNCHANGED isActive
       \/ DirectFails(TRUE)
    /\ UNCHANGED <<power, residency, callerVars, live>>

\* Whether or not the rollback worked, the transition is reported as failed.
CascadeRestarted ==
    /\ At("restarting")
    /\ StartEnds \/ StartRaises
    /\ Goto("raise")
    /\ UNCHANGED <<power, residency, managerVars, callerVars, live>>

-----------------------------------------------------------------------------
(* _activate_cascade.                                                       *)

\* The adapter is forgotten before it is known that the file was written.
CommitCascade_ForgetsAdapter ==
    /\ adapter' = NoStrategy
    /\ \/ /\ PersistSucceeds(Cascade)
          /\ state' = Cascade
          /\ loaded' = loaded \ {op.prevAdapter}
          /\ op' = Free
       \/ /\ PersistRaises
          /\ Goto("raise")
          /\ UNCHANGED <<state, loaded>>

\* When the file cannot be written the old selection is put back; a cascade
\* that was started for the new one keeps running.
CommitCascade ==
    \/ /\ PersistSucceeds(Cascade)
       /\ state' = Cascade
       /\ adapter' = NoStrategy
       /\ loaded' = loaded \ {op.prevAdapter}
       /\ op' = Free
    \/ /\ PersistRaises
       /\ Goto("raise")
       /\ UNCHANGED <<state, adapter, loaded>>

\* The cascade was started for a new selection, or for the present one.
CascadeStarted ==
    /\ At("starting")
    /\ \/ /\ StartEnds
          /\ \/ op.req # state /\ CommitCascade
             \/ op.req = state /\ op' = Free /\ UNCHANGED managerVars
       \/ /\ StartRaises
          /\ Goto("raise")
          /\ UNCHANGED managerVars
    /\ UNCHANGED <<power, residency, callerVars, live>>

-----------------------------------------------------------------------------
(* What activate() does once it holds the lock.                             *)

\* The language pair or the credential is not in order.
ValidateFails ==
    /\ At("validate")
    /\ Goto("raise")
    /\ UNCHANGED <<power, residency, managerVars, cascadeVars, callerVars, live>>

\* A selected strategy is not activated again, but a selected cascade that
\* does not run is started.
ValidateSelected ==
    /\ At("validate")
    /\ op.req = state
    /\ \/ state = Cascade /\ op.start /\ StartEnters /\ Goto("starting")
       \/ /\ state = Cascade /\ op.start => isActive
          /\ op' = Free
          /\ UNCHANGED cascadeVars
    /\ UNCHANGED <<power, residency, managerVars, callerVars, live>>

ValidateCascade ==
    /\ At("validate")
    /\ op.req # state
    /\ op.req = Cascade
    /\ \/ /\ op.start
          /\ StartEnters
          /\ Goto("starting")
          /\ UNCHANGED managerVars
       \/ /\ op.start => isActive
          /\ CommitCascade
          /\ UNCHANGED cascadeVars
    /\ UNCHANGED <<power, residency, callerVars, live>>

ValidateDirect ==
    /\ At("validate")
    /\ op.req # state
    /\ op.req # Cascade
    /\ op' = [op EXCEPT !.pc = "candidate", !.wasActive = isActive]
    /\ UNCHANGED <<power, residency, managerVars, cascadeVars, callerVars, live>>

-----------------------------------------------------------------------------
(* The end of a failed transition: the caller of activate() sees the        *)
(* exception, restore() falls back to the cascade.                          *)

RaiseToCaller ==
    /\ At("raise")
    /\ op.kind = "activate"
    /\ op' = Free
    /\ UNCHANGED <<power, residency, managerVars, cascadeVars, callerVars, live>>

\* restore() tries again.
RaiseToRestore_Retries ==
    /\ At("raise")
    /\ op.kind = "restore"
    /\ Goto("validate")
    /\ UNCHANGED <<power, residency, managerVars, cascadeVars, callerVars, live>>

RaiseToRestore ==
    /\ At("raise")
    /\ op.kind = "restore"
    /\ Goto("fallback")
    /\ UNCHANGED <<power, residency, managerVars, cascadeVars, callerVars, live>>

-----------------------------------------------------------------------------
(* start() of the daemon: restore().                                        *)

\* The persisted strategy is activated from a cascade selection.
Boot ==
    /\ power = "down"
    /\ power' = "up"
    /\ state' = Cascade
    /\ op' = [Free EXCEPT !.kind = "restore", !.req = file,
                          !.pc = IF file = Cascade THEN "bootStart"
                                                   ELSE "validate",
                          !.start = residency = "ready"]
    /\ UNCHANGED <<residency, file, adapter, loaded, cascadeVars, callerVars,
                   live>>

\* Without the write of the fallback.
FallBack_NotPersisted ==
    /\ At("fallback")
    /\ state' = Cascade
    /\ adapter' = NoStrategy
    /\ Goto("bootStart")
    /\ UNCHANGED <<power, residency, file, loaded, cascadeVars, callerVars, live>>

\* If the fallback cannot be persisted either, the daemon does not come up.
FallBack ==
    /\ At("fallback")
    /\ state' = Cascade
    /\ adapter' = NoStrategy
    /\ \/ /\ PersistSucceeds(Cascade)
          /\ Goto("bootStart")
          /\ UNCHANGED power
       \/ /\ PersistRaises
          /\ power' = "down"
          /\ op' = Free
    /\ UNCHANGED <<residency, loaded, cascadeVars, callerVars, live>>

BootStart ==
    /\ At("bootStart")
    /\ IF op.start
         THEN StartEnters /\ Goto("bootStarting")
         ELSE op' = Free /\ UNCHANGED cascadeVars
    /\ UNCHANGED <<power, residency, managerVars, callerVars, live>>

\* A cascade that does not start keeps the daemon from coming up.
BootStarted ==
    /\ At("bootStarting")
    /\ op' = Free
    /\ \/ StartEnds /\ UNCHANGED power
       \/ /\ power' = "down"
          /\ isActive' = FALSE
          /\ models' = FALSE
    /\ UNCHANGED <<residency, managerVars, callerVars, live>>

-----------------------------------------------------------------------------
(* stop() of the daemon, and its death.                                     *)

Shutdown ==
    /\ power = "up"
    /\ Serving
    /\ At("free")
    /\ live.pc \in {"stopped", "active"}
    /\ power' = "stopping"
    /\ live' = NoSession
    /\ op' = [Free EXCEPT !.pc = "unload", !.kind = "shutdown"]
    /\ UNCHANGED <<residency, managerVars, cascadeVars, callerVars>>

\* unload(): the adapter goes, the selection stays.
Unload ==
    /\ At("unload")
    /\ adapter' = NoStrategy
    /\ loaded' = loaded \ {adapter}
    /\ op' = Free
    /\ UNCHANGED <<power, residency, file, state, cascadeVars, callerVars, live>>

\* The process ends: after stop(), or at any other point.  A settings file
\* that was being written reads as the default.
Exit ==
    /\ power # "down"
    /\ power' = "down"
    /\ state' = Cascade
    /\ adapter' = NoStrategy
    /\ loaded' = {}
    /\ op' = Free
    /\ isActive' = FALSE
    /\ models' = FALSE
    /\ ready' = [c \in Caller |-> "idle"]
    /\ setting' = "idle"
    /\ idleTask' = "none"
    /\ live' = NoSession
    /\ residency' \in {residency, "on_demand"}
    /\ UNCHANGED file

-----------------------------------------------------------------------------
(* _ensure_runtime_ready: the selection is looked at before the wait for    *)
(* _runtime_activity_lock and not again.                                    *)

ActivityLocked == \E c \in Caller : ready[c] = "starting"

\* A new timer replaces the old one; a release that is under way is cut off
\* with its unloads undone.
ScheduleIdle ==
    idleTask' = IF residency = "on_demand" THEN "sleeping" ELSE idleTask

EnsureReady(c) ==
    /\ Serving
    /\ ready[c] = "idle"
    /\ state = Cascade
    /\ ready' = [ready EXCEPT ![c] = "queued"]
    /\ UNCHANGED <<power, residency, managerVars, op, cascadeVars, setting,
                   idleTask, live>>

EnsureStart(c) ==
    /\ ready[c] = "queued"
    /\ ~ActivityLocked
    /\ \/ /\ StartEnters
          /\ ready' = [ready EXCEPT ![c] = "starting"]
          /\ UNCHANGED idleTask
       \/ /\ isActive
          /\ ready' = [ready EXCEPT ![c] = "idle"]
          /\ ScheduleIdle
          /\ UNCHANGED cascadeVars
    /\ UNCHANGED <<power, residency, managerVars, op, setting, live>>

EnsureStarted(c) ==
    /\ ready[c] = "starting"
    /\ ready' = [ready EXCEPT ![c] = "idle"]
    /\ \/ StartEnds /\ ScheduleIdle
       \/ StartRaises /\ UNCHANGED idleTask
    /\ UNCHANGED <<power, residency, managerVars, op, setting, live>>

-----------------------------------------------------------------------------
(* _release_runtime_when_idle, thirty seconds later: it releases the models *)
(* or gives up, it is not rescheduled.                                      *)

IdleFires ==
    /\ idleTask = "sleeping"
    /\ \/ /\ residency = "on_demand"
          /\ state = Cascade
          /\ ~LiveActive
          /\ StopEnters
          /\ idleTask' = "stopping"
       \/ /\ idleTask' = "none"
          /\ UNCHANGED cascadeVars
    /\ UNCHANGED <<power, residency, managerVars, op, ready, setting, live>>

IdleReleased ==
    /\ idleTask = "stopping"
    /\ StopEnds
    /\ idleTask' = "none"
    /\ UNCHANGED <<power, residency, managerVars, op, ready, setting, live>>

-----------------------------------------------------------------------------
(* _set_runtime_residency.                                                  *)

SetResidency(v) ==
    /\ Serving
    /\ setting = "idle"
    /\ residency' = v
    /\ LET starts == state = Cascade /\ v = "ready"
       IN  /\ \/ starts /\ StartEnters /\ setting' = "starting"
              \/ ~starts /\ StopEnters /\ setting' = "stopping"
              \/ /\ starts = isActive
                 /\ UNCHANGED <<cascadeVars, setting>>
           /\ idleTask' = IF state = Cascade /\ v = "on_demand" THEN "none"
                                                              ELSE idleTask
    /\ UNCHANGED <<power, managerVars, op, ready, live>>

ResidencyStarted ==
    /\ setting = "starting"
    /\ StartEnds \/ StartRaises
    /\ setting' = "idle"
    /\ UNCHANGED <<power, residency, managerVars, op, ready, idleTask, live>>

ResidencyStopped ==
    /\ setting = "stopping"
    /\ StopEnds
    /\ setting' = "idle"
    /\ UNCHANGED <<power, residency, managerVars, op, ready, idleTask, live>>

-----------------------------------------------------------------------------
(* LiveTranslationController.start() looks at the selection, awaits the     *)
(* routing and the captures, and opens the sessions of both directions one  *)
(* after the other, each from the adapter it finds at that moment.  Only    *)
(* when both are open is it "active" for the handler of an activation.      *)

LiveStart ==
    /\ Serving
    /\ live = NoSession
    /\ state # Cascade
    /\ live' = [live EXCEPT !.pc = "outbound"]
    /\ UNCHANGED <<power, residency, managerVars, op, cascadeVars, callerVars>>

\* open_direct_session for one leg; a failure closes what was opened before.
LiveOpen(leg, next) ==
    /\ live.pc = leg
    /\ \/ /\ state # Cascade
          /\ adapter # NoStrategy
          /\ live' = [pc |-> next, sessions |-> live.sessions \cup {adapter}]
       \/ live' = NoSession
    /\ UNCHANGED <<power, residency, managerVars, op, cascadeVars, callerVars>>

\* The provider has answered for the last leg, or has not.
LiveStarted ==
    /\ live.pc = "opening"
    /\ live' \in {[live EXCEPT !.pc = "active"], NoSession}
    /\ UNCHANGED <<power, residency, managerVars, op, cascadeVars, callerVars>>

LiveStop ==
    /\ LiveActive
    /\ live' = NoSession
    /\ UNCHANGED <<power, residency, managerVars, op, cascadeVars, callerVars>>

-----------------------------------------------------------------------------

TransitionStep ==
    \/ ValidateFails \/ ValidateSelected \/ ValidateCascade \/ ValidateDirect
    \/ CandidateHealthy \/ CandidateReplacesCascade \/ CandidateFails
    \/ CascadeStopped \/ CascadeRestarted \/ CascadeStarted
    \/ RaiseToCaller \/ RaiseToRestore
    \/ FallBack \/ BootStart \/ BootStarted \/ Unload

Daemon == Boot \/ Shutdown \/ Exit

Handlers ==
    \/ \E s \in Selection : Activate(s)
    \/ \E c \in Caller : EnsureReady(c) \/ EnsureStart(c) \/ EnsureStarted(c)
    \/ \E v \in {"ready", "on_demand"} : SetResidency(v)
    \/ ResidencyStarted \/ ResidencyStopped
    \/ LiveStart \/ LiveOpen("outbound", "inbound") \/ LiveOpen("inbound", "opening")
    \/ LiveStarted \/ LiveStop

Next == TransitionStep \/ Daemon \/ Handlers \/ IdleFires \/ IdleReleased

Spec == Init /\ [][Next]_vars

(* Every await of a transition returns or raises; an orchestrator that is   *)
(* starting or stopping gets on with it.                                    *)
FairSpec == Spec /\ WF_vars(TransitionStep)

-----------------------------------------------------------------------------
(* What is checked.                                                         *)

(* The variables keep their types, and no direct adapter stays loaded that  *)
(* neither the selection nor the transition under way refers to.            *)
TypeOK ==
    /\ power \in {"down", "up", "stopping"}
    /\ file \in Selection
    /\ residency \in {"ready", "on_demand"}
    /\ state \in Selection
    /\ adapter \in Strategy \cup {NoStrategy}
    /\ op \in Transition
    /\ loaded \in SUBSET (Strategy \cap {adapter, op.req, op.prevAdapter})
    /\ isActive \in BOOLEAN
    /\ models \in BOOLEAN
    /\ ready \in [Caller -> {"idle", "queued", "starting"}]
    /\ setting \in {"idle", "starting", "stopping"}
    /\ idleTask \in {"none", "sleeping", "stopping"}
    /\ live \in [pc : {"stopped", "outbound", "inbound", "opening", "active"},
                 sessions : SUBSET Strategy]

LoadedFor(s) == IF s = NoStrategy THEN {} ELSE {s}

AdapterFor(s) == IF s = Cascade THEN NoStrategy ELSE s

(* No transition is under way in a daemon that has come up.                 *)
Settled == power = "up" /\ At("free")

(* What the daemon would restore after a crash is what it runs now,         *)
(* whatever transitions, failed writes, fallbacks and crashes came before.  *)
SelectionIsDurable == Settled => file = state

(* A selected provider has its adapter loaded, and nothing else is loaded:  *)
(* no candidate of a failed transition, no previous adapter.                *)
SelectionIsLoaded ==
    Settled => adapter = AdapterFor(state) /\ loaded = LoadedFor(adapter)

(* "The previous strategy is retained/restored if activation fails"         *)
(* (docs/architecture.md): when the exception reaches the caller, memory,   *)
(* the adapters and the file are as they were.                              *)
FailedActivationRestores ==
    At("raise") /\ op.kind = "activate" =>
        /\ state = op.prev
        /\ adapter = op.prevAdapter
        /\ power = "up" => file = op.prev
        /\ loaded = LoadedFor(op.prevAdapter)

(* A failed activation that had stopped the selected cascade leaves it      *)
(* active again, unless the residency setting asks for its release.         *)
CascadeComesBack ==
    /\ At("raise")
    /\ op.stopped
    /\ op.prev = Cascade
    /\ residency = "ready"
    /\ setting = "idle"
    => isActive

(* "A candidate is validated before becoming active" (docs/architecture.md):*)
(* the file comes to name a provider only when its adapter has loaded and   *)
(* been found healthy, so a crash never makes the daemon restore one that   *)
(* was not.                                                                 *)
FileNamesHealthyStrategy ==
    [][ file' # file /\ file' # Cascade =>
          state' = file' /\ adapter' = file' /\ file' \in loaded' ]_vars

(* Every transition ends, also restore() and its fallback: the transition   *)
(* lock is given back, and the daemon comes up or exits.                    *)
TransitionsReturn == ~At("free") ~> At("free")

(* Nobody is starting or stopping the cascade.                              *)
Quiescent ==
    /\ Settled
    /\ \A c \in Caller : ready[c] = "idle"
    /\ setting = "idle"
    /\ idleTask # "stopping"

(* "Owns mutually-exclusive cascade/direct strategy residency" (docstring   *)
(* of TranslationStrategyManager): when nothing is in progress, the models  *)
(* of the cascade and a direct adapter are not resident together.           *)
ResidencyIsExclusive == Quiescent => ~(models /\ loaded # {})

=============================================================================
