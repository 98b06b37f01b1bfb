--------------------- MODULE TranslationStrategyProofs ---------------------
(***************************************************************************)
(* Proofs about TranslationStrategy.  Every step of a transition keeps     *)
(* Consistent, which says for each await of the transition what the        *)
(* selection, its file and the adapters are there; the theorems are what   *)
(* Consistent says of the awaits a caller can observe.                     *)
(***************************************************************************)
EXTENDS TranslationStrategy, TLAPS

(* The awaits of activate(), before the outcome is known.                   *)
Activating ==
    {"validate", "candidate", "stopping", "restarting", "starting", "raise"}

(* The awaits at which the candidate is another direct strategy.            *)
Candidate == {"candidate", "stopping", "restarting"}

(* The awaits of restore() after its own activation.                        *)
Falling == {"fallback", "bootStart", "bootStarting"}

(* The transition that holds the lock fits the code it has reached.         *)
ShapeInv ==
    /\ op.pc = "free" => op = Free
    /\ op.pc \in Activating =>
          /\ op.kind \in {"activate", "restore"}
          /\ op.prev = state
          /\ op.prevAdapter = adapter
    /\ op.pc \in Candidate => op.req # Cascade /\ op.req # state
    /\ op.pc = "starting" => op.kind = "activate" /\ op.req = Cascade
    /\ op.pc = "validate" /\ op.kind = "restore" => op.req # Cascade
    /\ op.pc \in Falling => op.kind = "restore"
    /\ op.pc \in {"bootStart", "bootStarting"} => file = Cascade
    /\ op.pc = "unload" => op.kind = "shutdown" /\ power = "stopping"

(* The file follows the selection except while restore() is trying out the  *)
(* persisted strategy, and the adapter follows it except after unload().    *)
SelectionInv ==
    /\ op.kind # "restore" /\ power # "down" => file = state
    /\ op.kind = "restore" => state = Cascade /\ power = "up"
    /\ adapter \in {NoStrategy, AdapterFor(state)}
    /\ power = "up" => adapter = AdapterFor(state)
    /\ power = "down" => op = Free /\ state = Cascade
    /\ loaded = LoadedFor(adapter)
                  \cup (IF op.pc = "stopping" THEN {op.req} ELSE {})

(* The types of the variables, without what SelectionInv says better.       *)
PlainTypes ==
    /\ power \in {"down", "up", "stopping"}
    /\ file \in Selection
    /\ residency \in {"ready", "on_demand"}
    /\ state \in Selection
    /\ adapter \in Strategy \cup {NoStrategy}
    /\ op \in Transition

(* The types of the variables of the cascade and of the handlers.           *)
HandlerTypes ==
    /\ isActive \in BOOLEAN
    /\ models \in BOOLEAN
    /\ ready \in [Caller -> {"idle", "queued", "starting"}]
    /\ setting \in {"idle", "starting", "stopping"}
    /\ idleTask \in {"none", "sleeping", "stopping"}
    /\ live \in [pc : {"stopped", "outbound", "inbound", "opening", "active"},
                 sessions : SUBSET Strategy]

Consistent == PlainTypes /\ ShapeInv /\ SelectionInv

(* A transition has stopped nothing before its candidate takes over, and    *)
(* once it has failed a cascade it stopped is up, whoever else starts or    *)
(* stops it, as long as the residency setting wants it up.                  *)
CascadeKept ==
    /\ op.pc \in {"validate", "candidate", "stopping", "starting"} => ~op.stopped
    /\ /\ op.pc \in {"restarting", "raise"}
       /\ op.stopped
       /\ state = Cascade
       /\ residency = "ready"
       => isActive

-----------------------------------------------------------------------------

(* The record of a free lock is one of the transition records.              *)
LEMMA FreeIsTransition ==
    /\ Free \in Transition
    /\ Free.pc = "free"
    /\ Free.kind = "none"
    /\ Free.req = Cascade
    /\ Free.prevAdapter = NoStrategy
<1>1. Free.pc \in TransitionPC
  BY DEF Free, TransitionPC
<1>2. Free.req \in Selection /\ Free.prev \in Selection
  BY DEF Free, Selection
<1>3. Free.wasActive = FALSE /\ Free.stopped = FALSE /\ Free.start = FALSE
  BY DEF Free
<1>4. QED
  BY <1>1, <1>2, <1>3, Zenon DEF Free, Transition

LEMMA ConsistentInit == Init => Consistent
<1> SUFFICES ASSUME Init PROVE Consistent
  OBVIOUS
<1>1. PlainTypes
  BY FreeIsTransition DEF Init, PlainTypes, Selection
<1>2. ShapeInv
  BY FreeIsTransition DEF Init, ShapeInv, Activating, Candidate, Falling
<1>3. SelectionInv
  BY FreeIsTransition DEF Init, SelectionInv, AdapterFor, LoadedFor
<1>4. QED
  BY <1>1, <1>2, <1>3 DEF Consistent

(* The helpers of activate() at the end of a transition.                    *)
LEMMA CommitsConsistent ==
    ASSUME Consistent, op.pc \in {"candidate", "stopping"}, DirectCommits,
           UNCHANGED <<power, residency>>
    PROVE  Consistent'
  BY StrategyAssumption
  DEF Consistent, PlainTypes, ShapeInv, SelectionInv, Free, Transition,
      TransitionPC, Selection, Activating, Candidate, Falling, AdapterFor,
      LoadedFor, DirectCommits, PersistSucceeds

LEMMA FailsConsistent ==
    ASSUME Consistent, op.pc \in {"candidate", "stopping"},
           NEW stopped \in BOOLEAN, DirectFails(stopped),
           UNCHANGED <<power, residency>>
    PROVE  Consistent'
<1> USE StrategyAssumption
    DEF Consistent, PlainTypes, ShapeInv, SelectionInv, Free, Transition,
        TransitionPC, Selection, Activating, Candidate, Falling, AdapterFor,
        LoadedFor, DirectFails, PersistRaises
<1>1. CASE stopped /\ ~isActive
  <2>1. op' = [op EXCEPT !.pc = "restarting", !.stopped = TRUE]
    BY <1>1
  <2>2. op' \in Transition
    BY <2>1
  <2>3. QED
    BY <1>1, <2>1, <2>2
<1>2. CASE ~(stopped /\ ~isActive)
  <2>1. op' = [op EXCEPT !.pc = "raise", !.stopped = stopped]
    BY <1>2
  <2>2. op' \in Transition
    BY <2>1
  <2>3. QED
    BY <1>2, <2>1, <2>2
<1>3. QED
  BY <1>1, <1>2

LEMMA CommitCascadeConsistent ==
    ASSUME Consistent, op.pc \in {"validate", "starting"}, op.kind = "activate",
           op.req = Cascade, CommitCascade, UNCHANGED <<power, residency>>
    PROVE  Consistent'
<1> USE StrategyAssumption
    DEF Consistent, SelectionInv, Selection, Activating, Candidate, Falling,
        AdapterFor, LoadedFor
<1>1. CASE op' = Free
  <2>1. file' = Cascade /\ state' = Cascade /\ adapter' = NoStrategy
    BY <1>1, FreeIsTransition
    DEF CommitCascade, PersistSucceeds, Goto, PlainTypes, Transition
  <2>2. loaded' = {}
    <3>1. loaded' = loaded \ {op.prevAdapter}
      BY <1>1, FreeIsTransition
      DEF CommitCascade, Goto, PlainTypes, Transition
    <3>2. QED
      BY <3>1 DEF ShapeInv
  <2>3. PlainTypes'
    BY <1>1, <2>1, FreeIsTransition DEF PlainTypes
  <2>4. ShapeInv'
    BY <1>1, FreeIsTransition DEF ShapeInv
  <2>5. SelectionInv'
    BY <1>1, <2>1, <2>2, FreeIsTransition
  <2>6. QED
    BY <2>3, <2>4, <2>5
<1>2. CASE op' = [op EXCEPT !.pc = "raise"]
  <2>1. UNCHANGED <<file, state, adapter, loaded>>
    BY <1>2, FreeIsTransition
    DEF CommitCascade, PersistRaises, PlainTypes, Transition
  <2>2. /\ op'.pc = "raise" /\ op'.kind = op.kind /\ op'.prev = op.prev
        /\ op'.prevAdapter = op.prevAdapter
    BY <1>2 DEF PlainTypes, Transition
  <2>3. PlainTypes'
    BY <1>2, <2>1 DEF PlainTypes, Transition, TransitionPC
  <2>4. ShapeInv'
    BY <2>1, <2>2 DEF ShapeInv
  <2>5. SelectionInv'
    BY <2>1, <2>2, FreeIsTransition
  <2>6. QED
    BY <2>3, <2>4, <2>5
<1>3. QED
  BY <1>1, <1>2 DEF CommitCascade, Goto

-----------------------------------------------------------------------------

(* Every step of a transition, of the daemon and of its handlers keeps      *)
(* Consistent.                                                              *)
LEMMA ConsistentStep ==
    Consistent /\ isActive \in BOOLEAN /\ [Next]_vars => Consistent'
<1> SUFFICES ASSUME Consistent, isActive \in BOOLEAN, [Next]_vars
             PROVE  Consistent'
  OBVIOUS
<1> USE StrategyAssumption, FreeIsTransition
    DEF Consistent, PlainTypes, ShapeInv, SelectionInv, Transition,
        TransitionPC, Selection, Activating, Candidate, Falling, AdapterFor,
        LoadedFor, At, Goto, managerVars, cascadeVars, callerVars
<1>1. CASE ValidateFails
  BY <1>1 DEF ValidateFails
<1>2. CASE ValidateSelected
  BY <1>2 DEF ValidateSelected, StartEnters
<1>3. CASE ValidateCascade
  <2>1. CASE /\ StartEnters
             /\ Goto("starting")
             /\ UNCHANGED managerVars
    BY <1>3, <2>1 DEF ValidateCascade, StartEnters
  <2>2. CASE CommitCascade /\ UNCHANGED cascadeVars
    BY <1>3, <2>2, CommitCascadeConsistent DEF ValidateCascade
  <2>3. QED
    BY <1>3, <2>1, <2>2 DEF ValidateCascade
<1>4. CASE ValidateDirect
  BY <1>4 DEF ValidateDirect
<1>5. CASE CandidateHealthy
  <2>1. CASE DirectCommits /\ UNCHANGED isActive
    BY <1>5, <2>1, CommitsConsistent DEF CandidateHealthy
  <2>2. CASE DirectFails(op.wasActive)
    BY <1>5, <2>2, FailsConsistent DEF CandidateHealthy
  <2>3. QED
    BY <1>5, <2>1, <2>2 DEF CandidateHealthy
<1>6. CASE CandidateReplacesCascade
  BY <1>6 DEF CandidateReplacesCascade, StopEnters
<1>7. CASE CandidateFails
  BY <1>7 DEF CandidateFails
<1>8. CASE CascadeStopped
  <2>1. CASE DirectCommits /\ UNCHANGED isActive
    BY <1>8, <2>1, CommitsConsistent DEF CascadeStopped
  <2>2. CASE DirectFails(TRUE)
    BY <1>8, <2>2, FailsConsistent DEF CascadeStopped
  <2>3. QED
    BY <1>8, <2>1, <2>2 DEF CascadeStopped
<1>9. CASE CascadeRestarted
  BY <1>9 DEF CascadeRestarted, StartEnds, StartRaises
<1>10. CASE CascadeStarted
  <2>1. CASE StartEnds /\ CommitCascade
    BY <1>10, <2>1, CommitCascadeConsistent DEF CascadeStarted, StartEnds
  <2>2. CASE StartEnds /\ op' = Free /\ UNCHANGED managerVars
    BY <1>10, <2>2 DEF CascadeStarted, StartEnds
  <2>3. CASE StartRaises /\ Goto("raise") /\ UNCHANGED managerVars
    BY <1>10, <2>3 DEF CascadeStarted, StartRaises
  <2>4. QED
    BY <1>10, <2>1, <2>2, <2>3 DEF CascadeStarted
<1>11. CASE RaiseToCaller
  BY <1>11 DEF RaiseToCaller
<1>12. CASE RaiseToRestore
  BY <1>12 DEF RaiseToRestore
<1>13. CASE FallBack
  BY <1>13 DEF FallBack, PersistSucceeds, PersistRaises
<1>14. CASE BootStart
  BY <1>14 DEF BootStart, StartEnters
<1>15. CASE BootStarted
  BY <1>15 DEF BootStarted, StartEnds
<1>16. CASE Unload
  BY <1>16 DEF Unload
<1>17. CASE Boot
  <2> DEFINE begun == residency = "ready"
             place == IF file = Cascade THEN "bootStart" ELSE "validate"
  <2> HIDE DEF begun, place
  <2>1. begun \in BOOLEAN
    BY DEF begun
  <2>2. place \in TransitionPC
    BY DEF place
  <2>3. op' = [pc |-> place, kind |-> "restore", req |-> file,
               prev |-> Cascade, prevAdapter |-> NoStrategy,
               wasActive |-> FALSE, stopped |-> FALSE, start |-> begun]
    BY <1>17 DEF Boot, Free, begun, place
  <2>4. /\ op = Free /\ power' = "up" /\ state' = Cascade
        /\ adapter = NoStrategy /\ loaded = {}
        /\ UNCHANGED <<residency, file, adapter, loaded>>
    BY <1>17 DEF Boot
  <2>5. op' \in Transition
    BY <2>1, <2>2, <2>3
  <2>6. QED
    BY <2>3, <2>4, <2>5 DEF place
<1>18. CASE Shutdown
  BY <1>18 DEF Shutdown, Serving
<1>19. CASE Exit
  BY <1>19 DEF Exit
<1>20. ASSUME NEW s \in Selection, Activate(s) PROVE Consistent'
  <2> DEFINE begun == residency = "ready"
  <2> HIDE DEF begun
  <2>1. begun \in BOOLEAN
    BY DEF begun
  <2>2. op' = [pc |-> "validate", kind |-> "activate", req |-> s,
               prev |-> state, prevAdapter |-> adapter, wasActive |-> FALSE,
               stopped |-> FALSE, start |-> begun]
    BY <1>20 DEF Activate, Free, begun
  <2>3. /\ op = Free /\ power # "down"
        /\ UNCHANGED <<power, residency, file, state, adapter, loaded>>
    BY <1>20 DEF Activate, Serving
  <2>4. op' \in Transition
    BY <2>1, <2>2
  <2>5. QED
    BY <2>2, <2>3, <2>4
<1>21. ASSUME NEW c \in Caller, EnsureReady(c) PROVE Consistent'
  BY <1>21 DEF EnsureReady
<1>22. ASSUME NEW c \in Caller, EnsureStart(c) PROVE Consistent'
  BY <1>22 DEF EnsureStart, StartEnters
<1>23. ASSUME NEW c \in Caller, EnsureStarted(c) PROVE Consistent'
  BY <1>23 DEF EnsureStarted, StartEnds, StartRaises
<1>24. ASSUME NEW v \in {"ready", "on_demand"}, SetResidency(v) PROVE Consistent'
  BY <1>24 DEF SetResidency, StartEnters, StopEnters
<1>25. CASE ResidencyStarted
  BY <1>25 DEF ResidencyStarted, StartEnds, StartRaises
<1>26. CASE ResidencyStopped
  BY <1>26 DEF ResidencyStopped, StopEnds
<1>27. CASE LiveStart
  BY <1>27 DEF LiveStart
<1>28. CASE LiveOpen("outbound", "inbound")
  BY <1>28 DEF LiveOpen
<1>29. CASE LiveOpen("inbound", "opening")
  BY <1>29 DEF LiveOpen
<1>30. CASE LiveStarted
  BY <1>30 DEF LiveStarted
<1>31. CASE LiveStop
  BY <1>31 DEF LiveStop
<1>32. CASE IdleFires
  BY <1>32 DEF IdleFires, StopEnters
<1>33. CASE IdleReleased
  BY <1>33 DEF IdleReleased, StopEnds
<1>34. CASE UNCHANGED vars
  BY <1>34 DEF vars
<1>q. QED
    BY <1>1, <1>2, <1>3, <1>4, <1>5, <1>6, <1>7, <1>8, <1>9, <1>10, <1>11,
     <1>12, <1>13, <1>14, <1>15, <1>16, <1>17, <1>18, <1>19, <1>20, <1>21,
     <1>22, <1>23, <1>24, <1>25, <1>26, <1>27, <1>28, <1>29, <1>30, <1>31,
     <1>32, <1>33, <1>34
  DEF Next, TransitionStep, Daemon, Handlers

(* The flags of the cascade and the variables of the handlers keep their    *)
(* types.                                                                   *)
LEMMA HandlerStep == Consistent /\ HandlerTypes /\ [Next]_vars => HandlerTypes'
<1> SUFFICES ASSUME Consistent, HandlerTypes, [Next]_vars PROVE HandlerTypes'
  OBVIOUS
<1> USE DEF Consistent, PlainTypes, HandlerTypes, managerVars, cascadeVars,
            callerVars
<1>1. CASE ValidateFails
    BY <1>1 DEF ValidateFails
<1>2. CASE ValidateSelected
    BY <1>2 DEF ValidateSelected, StartEnters
<1>3. CASE ValidateCascade
    BY <1>3 DEF ValidateCascade, StartEnters
<1>4. CASE ValidateDirect
    BY <1>4 DEF ValidateDirect
<1>5. CASE CandidateHealthy
    BY <1>5 DEF CandidateHealthy, DirectFails
<1>6. CASE CandidateReplacesCascade
    BY <1>6 DEF CandidateReplacesCascade, StopEnters
<1>7. CASE CandidateFails
    BY <1>7 DEF CandidateFails
<1>8. CASE CascadeStopped
    BY <1>8 DEF CascadeStopped, DirectFails
<1>9. CASE CascadeRestarted
    BY <1>9 DEF CascadeRestarted, StartEnds, StartRaises
<1>10. CASE CascadeStarted
    BY <1>10 DEF CascadeStarted, StartEnds, StartRaises
<1>11. CASE RaiseToCaller
    BY <1>11 DEF RaiseToCaller
<1>12. CASE RaiseToRestore
    BY <1>12 DEF RaiseToRestore
<1>13. CASE FallBack
    BY <1>13 DEF FallBack
<1>14. CASE BootStart
    BY <1>14 DEF BootStart, StartEnters
<1>15. CASE BootStarted
    BY <1>15 DEF BootStarted, StartEnds
<1>16. CASE Unload
    BY <1>16 DEF Unload
<1>17. CASE Boot
    BY <1>17 DEF Boot
<1>18. CASE Shutdown
    BY <1>18 DEF Shutdown, NoSession
<1>19. CASE Exit
    BY <1>19 DEF Exit, NoSession
<1>20. ASSUME NEW s \in Selection, Activate(s) PROVE HandlerTypes'
    BY <1>20 DEF Activate
<1>21. ASSUME NEW c \in Caller, EnsureReady(c) PROVE HandlerTypes'
    BY <1>21 DEF EnsureReady
<1>22. ASSUME NEW c \in Caller, EnsureStart(c) PROVE HandlerTypes'
    BY <1>22 DEF EnsureStart, StartEnters, ScheduleIdle
<1>23. ASSUME NEW c \in Caller, EnsureStarted(c) PROVE HandlerTypes'
    BY <1>23 DEF EnsureStarted, StartEnds, StartRaises, ScheduleIdle
<1>24. ASSUME NEW v \in {"ready", "on_demand"}, SetResidency(v) PROVE HandlerTypes'
    BY <1>24 DEF SetResidency, StartEnters, StopEnters
<1>25. CASE ResidencyStarted
    BY <1>25 DEF ResidencyStarted, StartEnds, StartRaises
<1>26. CASE ResidencyStopped
    BY <1>26 DEF ResidencyStopped, StopEnds
<1>27. CASE LiveStart
    BY <1>27 DEF LiveStart, NoSession
<1>28. CASE LiveOpen("outbound", "inbound")
    BY <1>28 DEF LiveOpen, NoSession
<1>29. CASE LiveOpen("inbound", "opening")
    BY <1>29 DEF LiveOpen, NoSession
<1>30. CASE LiveStarted
    BY <1>30 DEF LiveStarted, NoSession
<1>31. CASE LiveStop
    BY <1>31 DEF LiveStop, NoSession
<1>32. CASE IdleFires
    BY <1>32 DEF IdleFires, StopEnters
<1>33. CASE IdleReleased
    BY <1>33 DEF IdleReleased, StopEnds
<1>34. CASE UNCHANGED vars
    BY <1>34 DEF vars
<1>q. QED
  BY <1>1, <1>2, <1>3, <1>4, <1>5, <1>6, <1>7, <1>8, <1>9, <1>10, <1>11,
     <1>12, <1>13, <1>14, <1>15, <1>16, <1>17, <1>18, <1>19, <1>20, <1>21,
     <1>22, <1>23, <1>24, <1>25, <1>26, <1>27, <1>28, <1>29, <1>30, <1>31,
     <1>32, <1>33, <1>34
  DEF Next, TransitionStep, Daemon, Handlers

(* No step brings a stopped cascade down again, or leaves the residency      *)
(* setting wanting one that is not active.                                  *)
LEMMA KeptStep ==
    Consistent /\ HandlerTypes /\ CascadeKept /\ [Next]_vars => CascadeKept'
<1> SUFFICES ASSUME Consistent, HandlerTypes, CascadeKept, [Next]_vars
             PROVE  CascadeKept'
  OBVIOUS
<1> USE FreeIsTransition
    DEF Consistent, PlainTypes, ShapeInv, Activating, HandlerTypes, CascadeKept,
        Transition, At, Goto, managerVars, cascadeVars, callerVars
<1>1. CASE ValidateFails
    BY <1>1 DEF ValidateFails
<1>2. CASE ValidateSelected
    BY <1>2 DEF ValidateSelected, StartEnters
<1>3. CASE ValidateCascade
    BY <1>3 DEF ValidateCascade, StartEnters, CommitCascade
<1>4. CASE ValidateDirect
    BY <1>4 DEF ValidateDirect
<1>5. CASE CandidateHealthy
    BY <1>5 DEF CandidateHealthy, DirectFails, DirectCommits
<1>6. CASE CandidateReplacesCascade
    BY <1>6 DEF CandidateReplacesCascade, StopEnters
<1>7. CASE CandidateFails
    BY <1>7 DEF CandidateFails
<1>8. CASE CascadeStopped
    BY <1>8 DEF CascadeStopped, DirectFails, DirectCommits
<1>9. CASE CascadeRestarted
    BY <1>9 DEF CascadeRestarted, StartEnds, StartRaises
<1>10. CASE CascadeStarted
    BY <1>10 DEF CascadeStarted, StartEnds, StartRaises, CommitCascade
<1>11. CASE RaiseToCaller
    BY <1>11 DEF RaiseToCaller
<1>12. CASE RaiseToRestore
    BY <1>12 DEF RaiseToRestore
<1>13. CASE FallBack
    BY <1>13 DEF FallBack
<1>14. CASE BootStart
    BY <1>14 DEF BootStart, StartEnters
<1>15. CASE BootStarted
    BY <1>15 DEF BootStarted, StartEnds
<1>16. CASE Unload
    BY <1>16 DEF Unload
<1>17. CASE Boot
    BY <1>17 DEF Boot, Free
<1>18. CASE Shutdown
    BY <1>18 DEF Shutdown, Free
<1>19. CASE Exit
    BY <1>19 DEF Exit
<1>20. ASSUME NEW s \in Selection, Activate(s) PROVE CascadeKept'
    BY <1>20 DEF Activate, Free
<1>21. ASSUME NEW c \in Caller, EnsureReady(c) PROVE CascadeKept'
    BY <1>21 DEF EnsureReady
<1>22. ASSUME NEW c \in Caller, EnsureStart(c) PROVE CascadeKept'
    BY <1>22 DEF EnsureStart, StartEnters, ScheduleIdle
<1>23. ASSUME NEW c \in Caller, EnsureStarted(c) PROVE CascadeKept'
    BY <1>23 DEF EnsureStarted, StartEnds, StartRaises, ScheduleIdle
<1>24. ASSUME NEW v \in {"ready", "on_demand"}, SetResidency(v)
         PROVE  CascadeKept'
    BY <1>24 DEF SetResidency, StartEnters, StopEnters
<1>25. CASE ResidencyStarted
    BY <1>25 DEF ResidencyStarted, StartEnds, StartRaises
<1>26. CASE ResidencyStopped
    BY <1>26 DEF ResidencyStopped, StopEnds
<1>27. CASE LiveStart
    BY <1>27 DEF LiveStart
<1>28. CASE LiveOpen("outbound", "inbound")
    BY <1>28 DEF LiveOpen
<1>29. CASE LiveOpen("inbound", "opening")
    BY <1>29 DEF LiveOpen
<1>30. CASE LiveStarted
    BY <1>30 DEF LiveStarted
<1>31. CASE LiveStop
    BY <1>31 DEF LiveStop
<1>32. CASE IdleFires
    BY <1>32 DEF IdleFires, StopEnters
<1>33. CASE IdleReleased
    BY <1>33 DEF IdleReleased, StopEnds
<1>34. CASE UNCHANGED vars
    BY <1>34 DEF vars
<1>q. QED
  BY <1>1, <1>2, <1>3, <1>4, <1>5, <1>6, <1>7, <1>8, <1>9, <1>10, <1>11,
     <1>12, <1>13, <1>14, <1>15, <1>16, <1>17, <1>18, <1>19, <1>20, <1>21,
     <1>22, <1>23, <1>24, <1>25, <1>26, <1>27, <1>28, <1>29, <1>30, <1>31,
     <1>32, <1>33, <1>34
  DEF Next, TransitionStep, Daemon, Handlers

LEMMA HandlerInit == Init => HandlerTypes
<1> SUFFICES ASSUME Init PROVE HandlerTypes
  OBVIOUS
<1>1. isActive \in BOOLEAN /\ models \in BOOLEAN
  BY DEF Init
<1>2. /\ ready \in [Caller -> {"idle", "queued", "starting"}]
      /\ setting = "idle" /\ idleTask = "none"
  BY DEF Init
<1>3. live \in [pc : {"stopped", "outbound", "inbound", "opening", "active"},
                sessions : SUBSET Strategy]
  BY DEF Init, NoSession
<1>4. QED
  BY <1>1, <1>2, <1>3 DEF HandlerTypes

-----------------------------------------------------------------------------
(* The theorems.                                                            *)

Inv == Consistent /\ HandlerTypes /\ CascadeKept

(* Inv holds in every reachable state.                                      *)
LEMMA Invariance == Spec => []Inv
<1>1. Init => Inv
  <2>1. Init => CascadeKept
    BY FreeIsTransition DEF Init, CascadeKept
  <2>2. QED
    BY <2>1, ConsistentInit, HandlerInit DEF Inv
<1>2. Inv /\ [Next]_vars => Inv'
  BY ConsistentStep, HandlerStep, KeptStep DEF Inv, HandlerTypes
<1>3. QED
  BY <1>1, <1>2, PTL DEF Spec

(* Variables keep their types, and no direct adapter stays loaded that      *)
(* neither the selection nor the transition under way refers to.            *)
THEOREM TypeCorrect == Spec => []TypeOK
<1>1. Inv => TypeOK
  <2>1. SUFFICES ASSUME Inv PROVE loaded \in SUBSET (Strategy \cap
                                     {adapter, op.req, op.prevAdapter})
    BY DEF Inv, Consistent, PlainTypes, HandlerTypes, TypeOK
  <2>2. loaded \subseteq {adapter, op.req}
    BY <2>1 DEF Inv, Consistent, SelectionInv, LoadedFor
  <2>3. adapter \in loaded => adapter \in Strategy
    BY <2>1, StrategyAssumption
    DEF Inv, Consistent, SelectionInv, PlainTypes, LoadedFor, ShapeInv,
        Candidate, Transition, Selection
  <2>4. op.req \in loaded => op.req \in Strategy
    BY <2>1, StrategyAssumption
    DEF Inv, Consistent, SelectionInv, PlainTypes, LoadedFor, ShapeInv,
        Candidate, Transition, Selection
  <2>5. QED
    BY <2>2, <2>3, <2>4
<1>2. QED
  BY <1>1, Invariance, PTL

(* What the daemon would restore after a crash is what it runs.             *)
THEOREM SelectionDurable == Spec => []SelectionIsDurable
<1>1. Inv => SelectionIsDurable
  BY FreeIsTransition
  DEF Inv, Consistent, SelectionInv, ShapeInv, SelectionIsDurable, Settled, At
<1>2. QED
  BY <1>1, Invariance, PTL

(* The adapter of the selection, and no other, is loaded.                   *)
THEOREM SelectionLoaded == Spec => []SelectionIsLoaded
<1>1. Inv => SelectionIsLoaded
  BY DEF Inv, Consistent, SelectionInv, SelectionIsLoaded, Settled, At
<1>2. QED
  BY <1>1, Invariance, PTL

(* A failed activation leaves selection, file and adapters as they were.    *)
THEOREM ActivationRestores == Spec => []FailedActivationRestores
<1>1. Inv => FailedActivationRestores
  BY DEF Inv, Consistent, SelectionInv, ShapeInv, Activating,
         FailedActivationRestores, At
<1>2. QED
  BY <1>1, Invariance, PTL

(* Whatever the idle timer, the handlers and the residency setting do       *)
(* meanwhile, a failed activation leaves the cascade it stopped active.     *)
THEOREM CascadeReturns == Spec => []CascadeComesBack
<1>1. Inv => CascadeComesBack
  BY DEF Inv, Consistent, ShapeInv, Activating, CascadeKept, CascadeComesBack,
         At
<1>2. QED
  BY <1>1, Invariance, PTL

(* The file comes to name a provider only by the commit of a transition     *)
(* whose candidate is loaded.                                               *)
THEOREM FileHealthy == Spec => FileNamesHealthyStrategy
<1>1. Inv /\ [Next]_vars =>
        (file' # file /\ file' # Cascade =>
           state' = file' /\ adapter' = file' /\ file' \in loaded')
  <2>1. SUFFICES ASSUME Inv, [Next]_vars, file' # file, file' # Cascade
                 PROVE  state' = file' /\ adapter' = file' /\ file' \in loaded'
    OBVIOUS
  <2>2. DirectCommits /\ op.pc \in {"candidate", "stopping"}
    BY <2>1
    DEF Next, TransitionStep, Daemon, Handlers, vars, managerVars, At,
        ValidateFails, ValidateSelected, ValidateCascade, ValidateDirect,
        CandidateHealthy, CandidateReplacesCascade, CandidateFails,
        CascadeStopped, CascadeRestarted, CascadeStarted, RaiseToCaller,
        RaiseToRestore, FallBack, BootStart, BootStarted, Unload, Boot,
        Shutdown, Exit, Activate, EnsureReady, EnsureStart, EnsureStarted,
        SetResidency, ResidencyStarted, ResidencyStopped, LiveStart, LiveOpen,
        LiveStarted, LiveStop, IdleFires, IdleReleased, CommitCascade,
        DirectFails, PersistSucceeds, PersistRaises
  <2>3. op.req # op.prevAdapter
    BY <2>1, <2>2, StrategyAssumption
    DEF Inv, Consistent, SelectionInv, ShapeInv, Activating, Candidate,
        AdapterFor, PlainTypes, Transition, Selection
  <2>4. QED
    BY <2>2, <2>3 DEF DirectCommits, PersistSucceeds
<1>2. QED
  BY <1>1, Invariance, PTL DEF Spec, FileNamesHealthyStrategy

=============================================================================
