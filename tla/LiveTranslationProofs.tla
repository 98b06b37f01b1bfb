----------------------- MODULE LiveTranslationProofs -----------------------
(***************************************************************************)
(* Proofs about LiveTranslation, for every capacity of the event queues.   *)
(* Consistent says for each await of a start or stop what each leg holds   *)
(* there: the legs behind the loop over the legs hold nothing or are open, *)
(* the current one is in between.                                          *)
(***************************************************************************)
EXTENDS LiveTranslation, TLAPS

Opening == {"capture", "session"}

(* The call that holds the lock fits the code it has reached.               *)
CallInv ==
    /\ op.pc = "free" => op = Free
    /\ op.pc # "free" => legs = {} /\ op.mode # {}
    /\ op.pc \in Opening \cup StopPhases =>
          op.todo # {} /\ op.todo \subseteq op.mode

NoTasks(l) ==
    /\ leg[l].captureTask = "none"
    /\ leg[l].eventTask = "none"
    /\ leg[l].render = "none"

(* The leg holds nothing.                                                   *)
Bare(l) ==
    /\ leg[l].capture = "none"
    /\ leg[l].session = "none"
    /\ NoTasks(l)

(* A leg while start() opens the legs one after the other.                  *)
OpeningLeg(l) ==
    /\ NoTasks(l)
    /\ l \notin op.todo => leg[l].session = "open"
    /\ l \in op.todo => leg[l].session = "none"
    /\ l \in op.todo /\ (l # Current \/ op.pc = "capture") =>
          leg[l].capture = "none"

(* A leg while stop(), or start() that has failed, closes them.             *)
ClosingLeg(l) ==
    /\ l \notin op.todo => Bare(l)
    /\ l \in op.todo /\ l # Current => leg[l].session = "open"
    /\ l = Current =>
          /\ op.pc = "capture_close" => leg[l].session = "open"
          /\ op.pc = "stream_end" => leg[l].session = "ending"
          /\ op.pc = "socket_close" => leg[l].session = "closing"
          /\ op.pc \in {"tasks", "render_close"} => leg[l].session = "none"
          /\ op.pc # "capture_close" => leg[l].capture = "none"
          /\ op.pc = "render_close" =>
                leg[l].captureTask = "none" /\ leg[l].eventTask = "none"

LegInv ==
    \A l \in Leg :
      /\ l \notin legs \cup op.mode => Bare(l)
      /\ l \in legs => leg[l].session = "open"
      /\ op.pc = "routing" => Bare(l)
      /\ op.pc \in Opening /\ l \in op.mode => OpeningLeg(l)
      /\ op.pc \in StopPhases /\ l \in op.mode => ClosingLeg(l)

(* An open session that has lost its stream says so, until it is closed.    *)
ReportInv ==
    \A l \in Leg :
      leg[l].session = "open" /\ ~Stopping(l) /\ leg[l].receiver = "failed" =>
        error \/ ErrorQueued(l)

Consistent == TypeOK /\ CallInv /\ LegInv /\ ReportInv

-----------------------------------------------------------------------------

LEMMA FirstIn ==
    ASSUME NEW S \in SUBSET Leg, S # {}
    PROVE  FirstOf(S) \in S
BY DEF FirstOf, Leg

(* What a queue that is appended to or taken from says about errors.        *)
LEMMA AppendKeepsError ==
    ASSUME NEW s \in Seq(Event), NEW e \in Event,
           \E i \in DOMAIN s : s[i] = "error"
    PROVE  \E i \in DOMAIN Append(s, e) : Append(s, e)[i] = "error"
<1>1. PICK i \in DOMAIN s : s[i] = "error"
  OBVIOUS
<1>2. i \in DOMAIN Append(s, e) /\ Append(s, e)[i] = s[i]
  OBVIOUS
<1>3. QED
  BY <1>1, <1>2

LEMMA AppendedError ==
    ASSUME NEW s \in Seq(Event)
    PROVE  \E i \in DOMAIN Append(s, "error") : Append(s, "error")[i] = "error"
<1>1. Len(s) + 1 \in DOMAIN Append(s, "error")
  OBVIOUS
<1>2. Append(s, "error")[Len(s) + 1] = "error"
  OBVIOUS
<1>3. QED
  BY <1>1, <1>2

LEMMA TailKeepsError ==
    ASSUME NEW s \in Seq(Event), s # <<>>, Head(s) # "error",
           \E i \in DOMAIN s : s[i] = "error"
    PROVE  \E i \in DOMAIN Tail(s) : Tail(s)[i] = "error"
<1>1. PICK i \in DOMAIN s : s[i] = "error"
  OBVIOUS
<1>2. i # 1
  BY <1>1
<1>3. i - 1 \in DOMAIN Tail(s) /\ Tail(s)[i - 1] = s[i]
  BY <1>2
<1>4. QED
  BY <1>1, <1>3

-----------------------------------------------------------------------------

LEMMA ConsistentInit == Init => Consistent
<1> SUFFICES ASSUME Init PROVE Consistent
  OBVIOUS
<1>1. TypeOK
  <2>1. Absent \in LegType /\ Absent.events = <<>>
    BY DEF Absent, LegType
  <2>2. leg \in [Leg -> LegType] /\ \A l \in Leg : leg[l].events = <<>>
    BY <2>1 DEF Init
  <2>3. \A l \in Leg : Len(leg[l].events) <= EventCapacity
    BY <2>2, LiveAssumption
  <2>4. op \in [pc : {"free", "routing", "capture", "session"} \cup StopPhases,
               mode : SUBSET Leg, todo : SUBSET Leg, undo : BOOLEAN]
    BY DEF Init, Free, StopPhases
  <2>5. QED
    BY <2>2, <2>3, <2>4 DEF Init, TypeOK
<1>2. CallInv
  BY DEF Init, CallInv, Free, Opening, StopPhases
<1>3. LegInv
  BY DEF Init, LegInv, Free, Absent, Bare, NoTasks, Opening, StopPhases
<1>4. ReportInv
  BY DEF Init, ReportInv, Absent
<1>5. QED
  BY <1>1, <1>2, <1>3, <1>4 DEF Consistent

-----------------------------------------------------------------------------
(* Steps of the tasks and loops of one leg.                                 *)

(* What such a step leaves alone: the call, the other legs, what only the   *)
(* controller opens and closes, tasks that are over, and the duty to report *)
(* the end of the stream.                                                   *)
LegStep(l) ==
    /\ UNCHANGED <<op, legs>>
    /\ leg' \in [Leg -> LegType]
    /\ \A k \in Leg \ {l} : leg'[k] = leg[k]
    /\ Len(leg'[l].events) <= EventCapacity
    /\ leg'[l].capture = leg[l].capture
    /\ leg'[l].session = leg[l].session
    /\ leg[l].captureTask = "none" => leg'[l].captureTask = "none"
    /\ leg[l].eventTask = "none" =>
          leg'[l].eventTask = "none" /\ leg'[l].render = leg[l].render
    /\ state' \in {"stopped", "opening", "up", "closing", "failed"}
    /\ error' \in BOOLEAN
    /\ error => error'
    /\ leg[l].session = "open" /\ ~Stopping(l) /\ leg'[l].receiver = "failed" =>
          error' \/ ErrorQueued(l)'

LEMMA LegStepConsistent ==
    ASSUME Consistent, NEW l \in Leg, LegStep(l)
    PROVE  Consistent'
<1> USE DEF Consistent
<1>1. \A k \in Leg : Bare(k) => Bare(k)'
  BY DEF LegStep, Bare, NoTasks
<1>2. \A k \in Leg : leg'[k].session = leg[k].session
                    /\ leg'[k].capture = leg[k].capture
  BY DEF LegStep
<1>3. \A k \in Leg : NoTasks(k) => NoTasks(k)'
  BY DEF LegStep, NoTasks
<1>4. op' = op /\ legs' = legs /\ Current' = Current
  BY DEF LegStep, Current
<1>5. TypeOK'
  BY DEF LegStep, TypeOK
<1>6. CallInv'
  BY <1>4 DEF CallInv
<1>7. LegInv'
  <2> SUFFICES ASSUME NEW k \in Leg
               PROVE  /\ k \notin legs \cup op.mode => Bare(k)'
                      /\ k \in legs => leg'[k].session = "open"
                      /\ op.pc = "routing" => Bare(k)'
                      /\ op.pc \in Opening /\ k \in op.mode => OpeningLeg(k)'
                      /\ op.pc \in StopPhases /\ k \in op.mode => ClosingLeg(k)'
    BY <1>4 DEF LegInv
  <2>1. OpeningLeg(k) => OpeningLeg(k)'
    BY <1>2, <1>3, <1>4 DEF OpeningLeg
  <2>2. ClosingLeg(k) => ClosingLeg(k)'
    BY <1>1, <1>2, <1>4 DEF ClosingLeg, LegStep
  <2>3. QED
    BY <1>1, <1>2, <2>1, <2>2 DEF LegInv
<1>8. ReportInv'
  <2> SUFFICES ASSUME NEW k \in Leg,
                      leg'[k].session = "open", ~Stopping(k),
                      leg'[k].receiver = "failed"
               PROVE  error' \/ ErrorQueued(k)'
    BY <1>4 DEF ReportInv, Stopping, Current, At
  <2>1. CASE k = l
    BY <2>1, <1>2 DEF LegStep
  <2>2. CASE k # l
    BY <2>2 DEF LegStep, ReportInv, ErrorQueued
  <2>3. QED
    BY <2>1, <2>2
<1>9. QED
  BY <1>5, <1>6, <1>7, <1>8

LEMMA ProviderStep ==
    ASSUME Consistent, NEW l \in Leg,
           Receive(l) \/ ReceiveEnds(l) \/ SendFails(l)
    PROVE  LegStep(l)
<1> USE DEF Consistent
<1>1. leg[l] \in LegType /\ leg[l].events \in Seq(Event)
  BY DEF TypeOK, LegType
<1>2. ASSUME NEW e \in Event, HasRoom(l)
      PROVE  Emit(l, e) \in Seq(Event) /\ Len(Emit(l, e)) <= EventCapacity
  BY <1>1, <1>2, LiveAssumption DEF Emit, HasRoom
<1>3. CASE Receive(l)
  <2>1. PICK e \in Event : leg' = [leg EXCEPT ![l].events = Emit(l, e)]
    BY <1>3 DEF Receive, Mapped
  <2>2. leg'[l] = [leg[l] EXCEPT !.events = Emit(l, e)]
    BY <2>1 DEF TypeOK
  <2>3. leg'[l] \in LegType
    BY <1>1, <1>2, <1>3, <2>2 DEF LegType, Receive, Mapped
  <2>4. leg' \in [Leg -> LegType]
    BY <2>1, <2>2, <2>3 DEF TypeOK
  <2>5. leg'[l].receiver # "failed"
    BY <2>2, <1>1, <1>3 DEF LegType, Receive
  <2>6. QED
    BY <1>1, <1>2, <1>3, <2>1, <2>2, <2>4, <2>5
    DEF LegStep, TypeOK, Receive, Mapped, LegType
<1>4. CASE SendFails(l)
  <2>1. leg'[l] = [leg[l] EXCEPT !.events = Emit(l, "error")]
    BY <1>4 DEF SendFails, TypeOK
  <2> "error" \in Event /\ HasRoom(l)
    BY <1>4 DEF SendFails, Event
  <2>0. Emit(l, "error") \in Seq(Event) /\ Len(Emit(l, "error")) <= EventCapacity
    BY <1>2
  <2>2. leg'[l] \in LegType
    BY <1>1, <2>0, <2>1 DEF LegType
  <2>3. leg' \in [Leg -> LegType]
    BY <1>4, <2>1, <2>2 DEF TypeOK, SendFails
  <2>4. ErrorQueued(l)'
    BY <1>1, <2>1, AppendedError DEF ErrorQueued, Emit, LegType
  <2>5. Len(leg'[l].events) <= EventCapacity
    BY <1>1, <2>0, <2>1 DEF LegType
  <2>6. QED
    BY <1>1, <1>4, <2>1, <2>3, <2>4, <2>5
    DEF LegStep, TypeOK, SendFails, LegType
<1>5. CASE ReceiveEnds(l)
  <2>1. CASE leg[l].session = "ending"
    <3>1. leg'[l] = [leg[l] EXCEPT !.receiver = "none"]
      BY <1>5, <2>1 DEF ReceiveEnds, TypeOK
    <3>2. leg'[l] \in LegType
      BY <1>1, <3>1 DEF LegType
    <3>3. leg' \in [Leg -> LegType]
      BY <1>5, <2>1, <3>2 DEF TypeOK, ReceiveEnds
    <3>4. QED
      BY <1>1, <1>5, <2>1, <3>1, <3>3
      DEF LegStep, TypeOK, ReceiveEnds, LegType
  <2>2. CASE leg[l].session # "ending" /\ HasRoom(l)
    <3>1. leg'[l] = [leg[l] EXCEPT !.receiver = "failed",
                                   !.events = Emit(l, "error")]
      BY <1>5, <2>2 DEF ReceiveEnds, ReceiverFails, TypeOK
    <3>2. leg'[l] \in LegType /\ Len(leg'[l].events) <= EventCapacity
      BY <1>1, <1>2, <2>2, <3>1 DEF LegType, Event
    <3>3. leg' \in [Leg -> LegType]
      BY <1>5, <2>2, <3>2 DEF TypeOK, ReceiveEnds, ReceiverFails
    <3>4. ErrorQueued(l)'
      BY <1>1, <3>1, AppendedError DEF ErrorQueued, Emit, LegType
    <3>5. QED
      BY <1>1, <1>5, <2>2, <3>1, <3>2, <3>3, <3>4
      DEF LegStep, TypeOK, ReceiveEnds, ReceiverFails, LegType
  <2>3. CASE leg[l].session # "ending" /\ ~HasRoom(l)
    <3>1. leg'[l] = [leg[l] EXCEPT !.receiver = "muted"]
      BY <1>5, <2>3 DEF ReceiveEnds, ReceiverFails, TypeOK
    <3>2. leg'[l] \in LegType
      BY <1>1, <3>1 DEF LegType
    <3>3. leg' \in [Leg -> LegType]
      BY <1>5, <2>3, <3>2 DEF TypeOK, ReceiveEnds, ReceiverFails
    <3>4. QED
      BY <1>1, <1>5, <2>3, <3>1, <3>3
      DEF LegStep, TypeOK, ReceiveEnds, ReceiverFails, LegType
  <2>4. QED
    BY <2>1, <2>2, <2>3
<1>6. QED
  BY <1>3, <1>4, <1>5

LEMMA TaskStep ==
    ASSUME Consistent, NEW l \in Leg,
           CaptureEnds(l) \/ CaptureRaises(l) \/ EventTask(l)
    PROVE  LegStep(l)
<1> USE DEF Consistent
<1>1. leg[l] \in LegType /\ leg[l].events \in Seq(Event)
         /\ Len(leg[l].events) <= EventCapacity
  BY DEF TypeOK, LegType
<1>2. leg[l].session = "open" /\ ~Stopping(l) /\ leg[l].receiver = "failed" =>
        error \/ ErrorQueued(l)
  BY DEF ReportInv
<1>3. CASE CaptureEnds(l) \/ CaptureRaises(l)
  <2>1. leg'[l] = [leg[l] EXCEPT !.captureTask = "none"]
    BY <1>3 DEF CaptureEnds, CaptureRaises, TypeOK
  <2>2. leg'[l] \in LegType
    BY <1>1, <2>1 DEF LegType
  <2>3. leg' \in [Leg -> LegType]
    BY <1>3, <2>2 DEF TypeOK, CaptureEnds, CaptureRaises
  <2>4. ErrorQueued(l)' <=> ErrorQueued(l)
    BY <1>1, <2>1 DEF ErrorQueued, LegType
  <2>5. leg' = [leg EXCEPT ![l].captureTask = "none"] /\ UNCHANGED <<op, legs>>
    BY <1>3 DEF CaptureEnds, CaptureRaises
  <2>6. \A k \in Leg \ {l} : leg'[k] = leg[k]
    BY <2>5 DEF TypeOK
  <2>7. /\ leg'[l].receiver = leg[l].receiver
        /\ leg'[l].session = leg[l].session
        /\ leg'[l].capture = leg[l].capture
        /\ leg'[l].captureTask = "none"
        /\ leg'[l].eventTask = leg[l].eventTask
        /\ leg'[l].render = leg[l].render
        /\ leg'[l].events = leg[l].events
    BY <1>1, <2>1 DEF LegType
  <2>8. /\ state' = state \/ state' = "failed"
        /\ error' = error \/ error' = TRUE
    BY <1>3 DEF CaptureEnds, CaptureRaises, Report
  <2>9. state' \in {"stopped", "opening", "up", "closing", "failed"}
    BY <2>8 DEF TypeOK
  <2>10. error' \in BOOLEAN
    BY <2>8, Zenon DEF TypeOK
  <2>11. error => error'
    BY <2>8, Zenon
  <2>12. QED
    BY <1>1, <1>2, <2>3, <2>4, <2>5, <2>6, <2>7, <2>9, <2>10, <2>11 DEF LegStep
<1>4. CASE RenderOpens(l) \/ Written(l) \/ RenderRaises(l) \/ RenderReset(l)
  <2>1. PICK pc \in {"none", "wait", "writing"},
             render \in {"none", "running", "closing"} :
          leg' = [leg EXCEPT ![l].eventTask = pc, ![l].render = render]
    <3>1. CASE RenderOpens(l)
      BY <3>1 DEF RenderOpens
    <3>2. CASE RenderReset(l)
      BY <3>2 DEF RenderReset
    <3>3. CASE Written(l)
      <4>1. leg' = [leg EXCEPT ![l].eventTask = "wait",
                               ![l].render = leg[l].render]
        BY <1>1, <3>3 DEF Written, TypeOK, LegType
      <4>2. QED
        BY <1>1, <4>1 DEF LegType
    <3>4. CASE RenderRaises(l)
      <4>1. leg' = [leg EXCEPT ![l].eventTask = "none",
                               ![l].render = leg[l].render]
        BY <1>1, <3>4 DEF RenderRaises, TypeOK, LegType
      <4>2. QED
        BY <1>1, <4>1 DEF LegType
    <3>5. QED
      BY <1>4, <3>1, <3>2, <3>3, <3>4
  <2>2. leg'[l] = [leg[l] EXCEPT !.eventTask = pc, !.render = render]
    BY <2>1 DEF TypeOK
  <2>3. leg'[l] \in LegType
    BY <1>1, <2>2 DEF LegType
  <2>4. leg' \in [Leg -> LegType]
    BY <2>1, <2>3 DEF TypeOK
  <2>5. ErrorQueued(l)' <=> ErrorQueued(l)
    BY <1>1, <2>2 DEF ErrorQueued, LegType
  <2>6. leg[l].eventTask # "none" /\ UNCHANGED <<op, legs>>
    BY <1>4 DEF RenderOpens, Written, RenderRaises, RenderReset, Handling
  <2>7. /\ state' = state \/ state' = "failed"
        /\ error' = error \/ error' = TRUE
    BY <1>4 DEF RenderOpens, Written, RenderRaises, RenderReset, Report
  <2>8. /\ leg'[l].receiver = leg[l].receiver
        /\ leg'[l].session = leg[l].session
        /\ leg'[l].capture = leg[l].capture
        /\ leg'[l].captureTask = leg[l].captureTask
        /\ leg'[l].events = leg[l].events
    BY <1>1, <2>2 DEF LegType
  <2>9. /\ state' \in {"stopped", "opening", "up", "closing", "failed"}
        /\ error' \in BOOLEAN
        /\ error => error'
    <3>1. state' \in {"stopped", "opening", "up", "closing", "failed"}
      BY <2>7 DEF TypeOK
    <3>2. error' \in BOOLEAN
      BY <2>7, Zenon DEF TypeOK
    <3>3. error => error'
      BY <2>7, Zenon
    <3>4. QED
      BY <3>1, <3>2, <3>3
  <2>10. \A k \in Leg \ {l} : leg'[k] = leg[k]
    BY <2>1 DEF TypeOK
  <2>11. QED
    BY <1>1, <1>2, <2>4, <2>5, <2>6, <2>8, <2>9, <2>10 DEF LegStep
<1>5. CASE TakeEvent(l)
  <2> DEFINE event == Head(leg[l].events)
             pc == EventTaskAfter(l, event)
             render == IF pc = "resetting" THEN "closing" ELSE leg[l].render
  <2>1. leg[l].events # <<>> /\ event \in Event
           /\ Tail(leg[l].events) \in Seq(Event)
           /\ Len(Tail(leg[l].events)) <= EventCapacity
    BY <1>1, <1>5, LiveAssumption DEF TakeEvent
  <2>2. leg'[l] = [leg[l] EXCEPT !.events = Tail(leg[l].events),
                                 !.eventTask = pc, !.render = render]
    BY <1>1, <1>5 DEF TakeEvent, TypeOK, LegType
  <2>3. pc \in {"none", "wait", "opening", "writing", "resetting"}
    BY DEF EventTaskAfter
  <2>4. render \in {"none", "running", "closing"}
    BY <1>1 DEF LegType
  <2>5. leg'[l] \in LegType
    BY <1>1, <2>1, <2>2, <2>3, <2>4 DEF LegType
  <2>6. leg' \in [Leg -> LegType]
    BY <1>5, <2>5 DEF TypeOK, TakeEvent
  <2>7. leg'[l].receiver = leg[l].receiver
           /\ leg'[l].session = leg[l].session
           /\ leg'[l].capture = leg[l].capture
           /\ leg'[l].captureTask = leg[l].captureTask
           /\ leg'[l].events = Tail(leg[l].events)
    BY <1>1, <2>2 DEF LegType
  <2>8. event # "error" /\ ErrorQueued(l) => ErrorQueued(l)'
    BY <1>1, <2>1, <2>7, TailKeepsError DEF ErrorQueued
  <2>9. ~Stopping(l) /\ event = "error" => error'
    BY <1>5 DEF TakeEvent, OnEvent
  <2>10. /\ state' \in {state, "up"}
         /\ error' \in BOOLEAN
         /\ error => error'
    BY <1>5 DEF TakeEvent, OnEvent, TypeOK
  <2>11. leg[l].eventTask # "none" /\ UNCHANGED <<op, legs>>
    BY <1>5 DEF TakeEvent, Handling
  <2>12. \A k \in Leg \ {l} : leg'[k] = leg[k]
    BY <1>5 DEF TakeEvent, TypeOK
  <2> HIDE DEF event, pc, render
  <2>13. QED
    BY <1>2, <2>1, <2>6, <2>7, <2>8, <2>9, <2>10, <2>11, <2>12
    DEF LegStep, TypeOK
<1>6. QED
  BY <1>3, <1>4, <1>5 DEF EventTask

-----------------------------------------------------------------------------
(* Steps of the controller.                                                 *)

CallType ==
    [pc : {"free", "routing", "capture", "session"} \cup StopPhases,
     mode : SUBSET Leg, todo : SUBSET Leg, undo : BOOLEAN]

LEMMA FreeCall ==
    /\ Free \in CallType
    /\ Free.pc = "free"
    /\ Free.mode = {}
    /\ Free.pc \notin Opening \cup StopPhases
    /\ Free.pc # "routing"
BY DEF Free, CallType, StopPhases, Opening

LEMMA CurrentInTodo ==
    ASSUME Consistent, op.pc \in Opening \cup StopPhases
    PROVE  Current \in op.todo /\ Current \in op.mode /\ Current \in Leg
BY FirstIn DEF Consistent, TypeOK, CallInv, Current

(* What a step of the controller does to the legs: at most the current one  *)
(* changes.                                                                 *)
OneLegChanges ==
    /\ leg' \in [Leg -> LegType]
    /\ \A k \in Leg : Len(leg'[k].events) <= EventCapacity
    /\ \A k \in Leg \ {Current} : leg'[k] = leg[k]

(* When the lock is free and no leg is registered, all legs hold nothing.   *)
LEMMA AllBareConsistent ==
    ASSUME TypeOK', op' = Free, legs' = {}, \A k \in Leg : Bare(k)'
    PROVE  Consistent'
<1>1. CallInv'
  BY FreeCall DEF CallInv
<1>2. LegInv'
  BY FreeCall DEF LegInv
<1>3. ReportInv'
  BY DEF ReportInv, Bare
<1>4. QED
  BY <1>1, <1>2, <1>3 DEF Consistent

LEMMA NextLegStep ==
    ASSUME Consistent, op.pc \in {"tasks", "render_close"},
           OneLegChanges, NEW c \in Leg, c = Current, Bare(c)',
           legs' = legs, NextLeg
    PROVE  Consistent'
<1> DEFINE rest == op.todo \ {Current}
<1>1. Current \in op.todo /\ Current \in op.mode /\ Current \in Leg
  BY CurrentInTodo DEF StopPhases
<1>2. op \in CallType /\ op.pc \in StopPhases /\ legs = {} /\ op.mode # {}
         /\ op.todo \subseteq op.mode
  BY DEF Consistent, TypeOK, CallInv, CallType, StopPhases
<1>3. \A k \in Leg \ rest : Bare(k)'
  <2> SUFFICES ASSUME NEW k \in Leg, k \notin rest PROVE Bare(k)'
    OBVIOUS
  <2>1. CASE k = c
    BY <2>1
  <2>2. CASE k # c
    <3>1. Bare(k)
      BY <1>2, <2>2 DEF Consistent, LegInv, ClosingLeg
    <3>2. QED
      BY <3>1, <2>2 DEF OneLegChanges, Bare, NoTasks
  <2>3. QED
    BY <2>1, <2>2
<1>4. /\ state' \in {"stopped", "opening", "up", "closing", "failed"}
      /\ error' \in BOOLEAN
      /\ error => error'
  BY DEF NextLeg, Report, Consistent, TypeOK
<1>5. CASE rest # {}
  <2>1. /\ op'.pc = "capture_close"
        /\ op'.todo = rest
        /\ op'.mode = op.mode
        /\ op' \in CallType
    BY <1>2, <1>5 DEF NextLeg, CallType, StopPhases
  <2>2. Current' \in rest /\ Current' # Current
    BY <1>2, <1>5, <2>1, FirstIn DEF Current, CallType
  <2>3. TypeOK'
    BY <1>2, <1>4, <2>1 DEF TypeOK, OneLegChanges, CallType, Consistent
  <2>4. CallInv'
    BY <1>2, <1>5, <2>1 DEF CallInv, Opening, StopPhases
  <2>5. \A k \in rest : leg'[k] = leg[k] /\ leg[k].session = "open"
    BY <1>2 DEF OneLegChanges, Consistent, LegInv, ClosingLeg, CallType
  <2>6. LegInv'
    BY <1>2, <1>3, <2>1, <2>2, <2>5
    DEF LegInv, ClosingLeg, StopPhases, Opening, CallType
  <2>7. ReportInv'
    <3> SUFFICES ASSUME NEW k \in Leg, leg'[k].session = "open",
                        ~Stopping(k)', leg'[k].receiver = "failed"
                 PROVE  error' \/ ErrorQueued(k)'
      BY DEF ReportInv
    <3>1. k \in rest
      BY <1>3 DEF Bare
    <3>2. ~Stopping(k)
      BY <1>1, <3>1 DEF Stopping
    <3>3. error \/ ErrorQueued(k)
      BY <2>5, <3>1, <3>2 DEF Consistent, ReportInv
    <3>4. QED
      BY <1>4, <2>5, <3>1, <3>3 DEF ErrorQueued
  <2>8. QED
    BY <2>3, <2>4, <2>6, <2>7 DEF Consistent
<1>6. CASE rest = {}
  <2>1. op' = Free
    BY <1>6 DEF NextLeg
  <2>2. TypeOK'
    BY <1>2, <1>4, <2>1, FreeCall DEF TypeOK, OneLegChanges, CallType, Consistent
  <2>3. QED
    BY <1>2, <1>3, <1>6, <2>1, <2>2, AllBareConsistent
<1>7. QED
  BY <1>5, <1>6

LEMMA UndoStep ==
    ASSUME Consistent, op.pc \in Opening,
           OneLegChanges, NEW c \in Leg, c = Current, Bare(c)', legs' = legs,
           Undo(op.mode \ op.todo)
    PROVE  Consistent'
<1> DEFINE created == op.mode \ op.todo
<1>1. Current \in op.todo /\ Current \in op.mode /\ Current \in Leg
  BY CurrentInTodo
<1>2. op \in CallType /\ legs = {} /\ op.mode # {} /\ op.todo \subseteq op.mode
  BY DEF Consistent, TypeOK, CallInv, CallType, Opening
<1>3. \A k \in Leg \ created : Bare(k)'
  <2> SUFFICES ASSUME NEW k \in Leg, k \notin created PROVE Bare(k)'
    OBVIOUS
  <2>1. CASE k = c
    BY <2>1
  <2>2. CASE k # c
    <3>1. Bare(k)
      BY <1>2, <2>2 DEF Consistent, LegInv, OpeningLeg, Bare
    <3>2. QED
      BY <3>1, <2>2 DEF OneLegChanges, Bare, NoTasks
  <2>3. QED
    BY <2>1, <2>2
<1>4. /\ state' \in {"stopped", "opening", "up", "closing", "failed"}
      /\ error' \in BOOLEAN
      /\ error => error'
  BY DEF Undo, Report, Consistent, TypeOK
<1>5. CASE created # {}
  <2>1. /\ op'.pc = "capture_close"
        /\ op'.todo = created
        /\ op'.mode = op.mode
        /\ op' \in CallType
    BY <1>2, <1>5 DEF Undo, CallType, StopPhases
  <2>2. Current' \in created
    BY <1>2, <1>5, <2>1, FirstIn DEF Current, CallType
  <2>3. TypeOK'
    BY <1>2, <1>4, <2>1 DEF TypeOK, OneLegChanges, CallType, Consistent
  <2>4. CallInv'
    BY <1>2, <1>5, <2>1 DEF CallInv, Opening, StopPhases
  <2>5. \A k \in created : leg'[k] = leg[k] /\ leg[k].session = "open"
    BY <1>1, <1>2 DEF OneLegChanges, Consistent, LegInv, OpeningLeg, CallType
  <2>6. LegInv'
    BY <1>2, <1>3, <2>1, <2>2, <2>5
    DEF LegInv, ClosingLeg, StopPhases, Opening, CallType
  <2>7. ReportInv'
    <3> SUFFICES ASSUME NEW k \in Leg, leg'[k].session = "open",
                        ~Stopping(k)', leg'[k].receiver = "failed"
                 PROVE  error' \/ ErrorQueued(k)'
      BY DEF ReportInv
    <3>1. k \in created
      BY <1>3 DEF Bare
    <3>2. ~Stopping(k)
      BY DEF Stopping, Opening, StopPhases
    <3>3. error \/ ErrorQueued(k)
      BY <2>5, <3>1, <3>2 DEF Consistent, ReportInv
    <3>4. QED
      BY <1>4, <2>5, <3>1, <3>3 DEF ErrorQueued
  <2>8. QED
    BY <2>3, <2>4, <2>6, <2>7 DEF Consistent
<1>6. CASE created = {}
  <2>1. op' = Free
    BY <1>6 DEF Undo
  <2>2. TypeOK'
    BY <1>2, <1>4, <2>1, FreeCall DEF TypeOK, OneLegChanges, CallType, Consistent
  <2>3. QED
    BY <1>2, <1>3, <1>6, <2>1, <2>2, AllBareConsistent
<1>7. QED
  BY <1>5, <1>6

(* start() up to its first await of a helper.                               *)
LEMMA StartStep ==
    ASSUME Consistent, Start \/ RoutingInvalid \/ RoutingValid
    PROVE  Consistent'
<1>1. op \in CallType /\ leg' = leg /\ legs' = legs
  BY DEF Consistent, TypeOK, CallType, Start, RoutingInvalid, RoutingValid
<1>2. \A k \in Leg : Bare(k)' <=> Bare(k)
  BY <1>1 DEF Bare, NoTasks
<1>3. \A k \in Leg : Bare(k)
  <2>1. CASE Start
    BY <2>1, FreeCall DEF Start, Consistent, LegInv
  <2>2. CASE RoutingInvalid \/ RoutingValid
    BY <2>2 DEF RoutingInvalid, RoutingValid, At, Consistent, LegInv
  <2>3. QED
    BY <2>1, <2>2
<1>4. ReportInv'
  BY <1>2, <1>3 DEF ReportInv, Bare
<1>5. legs = {}
  BY FreeCall DEF Start, RoutingInvalid, RoutingValid, At, Consistent, CallInv
<1>6. CASE Start
  <2>1. /\ op' \in CallType /\ op'.pc = "routing" /\ op'.mode # {}
    <3>0. \E mode \in (SUBSET Leg) \ {{}} :
            op' = [Free EXCEPT !.pc = "routing", !.mode = mode]
      BY <1>6 DEF Start
    <3>1. PICK mode : /\ mode \in SUBSET Leg /\ mode # {}
                      /\ op' = [Free EXCEPT !.pc = "routing", !.mode = mode]
      BY <3>0, Zenon
    <3>2. op' = [pc |-> "routing", mode |-> mode, todo |-> {}, undo |-> FALSE]
      BY <3>1 DEF Free
    <3>3. mode \in SUBSET Leg /\ mode # {}
      BY <3>1
    <3>4. QED
      BY <3>2, <3>3 DEF CallType
  <2>2. TypeOK' /\ CallInv'
    BY <1>1, <1>5, <1>6, <2>1
    DEF Consistent, TypeOK, CallInv, CallType, Start, Opening, StopPhases
  <2>3. LegInv'
    BY <1>2, <1>3, <1>1, <1>5, <2>1 DEF LegInv, Opening, StopPhases
  <2>4. QED
    BY <1>4, <2>2, <2>3 DEF Consistent
<1>7. CASE RoutingInvalid
  <2>1. TypeOK'
    BY <1>1, <1>7, FreeCall DEF Consistent, TypeOK, RoutingInvalid, CallType
  <2>2. QED
    BY <1>1, <1>2, <1>3, <1>5, <1>7, <2>1, AllBareConsistent DEF RoutingInvalid
<1>8. CASE RoutingValid
  <2>1. /\ op' \in CallType /\ op'.pc = "capture"
        /\ op'.mode = op.mode /\ op'.todo = op.mode /\ op.mode # {}
    BY <1>1, <1>8 DEF RoutingValid, CallType, At, Consistent, CallInv
  <2>2. TypeOK' /\ CallInv'
    BY <1>1, <1>5, <1>8, <2>1
    DEF Consistent, TypeOK, CallInv, CallType, RoutingValid, Opening, StopPhases
  <2>3. LegInv'
    BY <1>2, <1>3, <1>1, <1>5, <2>1
    DEF LegInv, Opening, StopPhases, OpeningLeg, Bare, NoTasks
  <2>4. QED
    BY <1>4, <2>2, <2>3 DEF Consistent
<1>9. QED
  BY <1>6, <1>7, <1>8

LEMMA FailedOpeningStep ==
    ASSUME Consistent, CaptureFails \/ SessionFails
    PROVE  Consistent'
<1>1. op.pc \in Opening /\ op \in CallType /\ legs' = legs
         /\ Undo(op.mode \ op.todo)
  BY DEF CaptureFails, SessionFails, At, Opening, Consistent, TypeOK, CallType
<1>2. PICK c \in Leg : c = Current /\ c \in op.todo /\ c \in op.mode
  BY <1>1, CurrentInTodo
<1>3. OpeningLeg(c) /\ leg[c] \in LegType
  BY <1>1, <1>2 DEF Consistent, LegInv, TypeOK
<1>4. OneLegChanges /\ Bare(c)'
  <2>1. CASE CaptureFails
    <3>1. Bare(c) /\ leg' = leg
      BY <1>2, <1>3, <2>1 DEF CaptureFails, At, OpeningLeg, Bare
    <3>2. QED
      BY <3>1 DEF Bare, NoTasks, OneLegChanges, Consistent, TypeOK
  <2>2. CASE SessionFails
    <3>1. leg' = [leg EXCEPT ![c].capture = "none"]
      BY <1>2, <2>2 DEF SessionFails
    <3>2. leg'[c] = [leg[c] EXCEPT !.capture = "none"]
      BY <3>1 DEF Consistent, TypeOK
    <3>3. leg'[c] \in LegType /\ leg'[c].events = leg[c].events
      BY <1>3, <3>2 DEF LegType
    <3>4. Bare(c)'
      BY <1>2, <1>3, <3>2 DEF LegType, Bare, NoTasks, OpeningLeg
    <3>5. OneLegChanges
      BY <1>2, <3>1, <3>3 DEF OneLegChanges, Consistent, TypeOK
    <3>6. QED
      BY <3>4, <3>5
  <2>3. QED
    BY <2>1, <2>2
<1>5. QED
  BY <1>1, <1>2, <1>4, UndoStep

LEMMA CaptureOpensStep ==
    ASSUME Consistent, CaptureOpens
    PROVE  Consistent'
<1>1. op.pc = "capture" /\ op \in CallType /\ legs = {} /\ legs' = legs
         /\ op.mode # {} /\ op.todo # {} /\ op.todo \subseteq op.mode
         /\ state' = state /\ error' = error
  BY DEF CaptureOpens, At, Opening, Consistent, TypeOK, CallType, CallInv
<1>2. PICK c \in Leg : c = Current /\ c \in op.todo /\ c \in op.mode
  BY <1>1, CurrentInTodo DEF Opening
<1>3. /\ op' \in CallType /\ op'.pc = "session"
      /\ op'.mode = op.mode /\ op'.todo = op.todo
  BY <1>1 DEF CaptureOpens, CallType
<1>4. Current' = c
  BY <1>2, <1>3 DEF Current
<1>5. leg' = [leg EXCEPT ![c] = [Absent EXCEPT !.capture = "open"]]
  BY <1>2 DEF CaptureOpens
<1>6. leg'[c] = [Absent EXCEPT !.capture = "open"]
         /\ \A k \in Leg \ {c} : leg'[k] = leg[k]
  BY <1>5 DEF Consistent, TypeOK
<1>7. /\ leg'[c] \in LegType /\ leg'[c].events = <<>>
      /\ leg'[c].session = "none" /\ leg'[c].captureTask = "none"
      /\ leg'[c].eventTask = "none" /\ leg'[c].render = "none"
  <2>1. leg'[c] = [capture |-> "open", session |-> "none", receiver |-> "none",
                   events |-> <<>>, captureTask |-> "none",
                   eventTask |-> "none", render |-> "none"]
    BY <1>6 DEF Absent
  <2>2. <<>> \in Seq(Event)
    OBVIOUS
  <2>3. QED
    BY <2>1, <2>2 DEF LegType
<1>8. TypeOK'
  <2>1. leg' \in [Leg -> LegType]
    BY <1>5, <1>6, <1>7 DEF Consistent, TypeOK
  <2>2. \A k \in Leg : Len(leg'[k].events) <= EventCapacity
    <3>1. Len(leg'[c].events) <= EventCapacity
      <4>1. Len(leg'[c].events) = 0
        BY <1>7
      <4>2. QED
        BY <4>1, LiveAssumption
    <3>2. QED
      BY <1>6, <3>1 DEF Consistent, TypeOK
  <2>3. QED
    BY <1>1, <1>3, <2>1, <2>2 DEF Consistent, TypeOK, CallType
<1>9. CallInv'
  BY <1>1, <1>3 DEF CallInv
<1>10. LegInv'
  <2> SUFFICES ASSUME NEW k \in Leg
               PROVE  /\ k \notin op.mode => Bare(k)'
                      /\ k \in op.mode => OpeningLeg(k)'
    BY <1>1, <1>3 DEF LegInv, StopPhases
  <2>1. CASE k = c
    BY <1>2, <1>3, <1>4, <1>7, <2>1 DEF OpeningLeg, NoTasks
  <2>2. CASE k # c
    <3>1. /\ k \notin op.mode => Bare(k)
          /\ k \in op.mode => OpeningLeg(k)
      BY <1>1 DEF Consistent, LegInv, Opening
    <3>2. QED
      BY <1>1, <1>2, <1>3, <1>4, <1>6, <2>2, <3>1
      DEF OpeningLeg, Bare, NoTasks
  <2>3. QED
    BY <2>1, <2>2
<1>11. ReportInv'
  <2> SUFFICES ASSUME NEW k \in Leg, leg'[k].session = "open",
                      leg'[k].receiver = "failed"
               PROVE  error' \/ ErrorQueued(k)'
    BY DEF ReportInv
  <2>1. k # c
    BY <1>7
  <2>2. leg'[k] = leg[k] /\ ~Stopping(k)
    BY <1>1, <1>6, <2>1 DEF Stopping, StopPhases
  <2>3. QED
    BY <1>1, <2>2 DEF Consistent, ReportInv, ErrorQueued
<1>12. QED
  BY <1>8, <1>9, <1>10, <1>11 DEF Consistent

LEMMA SessionOpensStep ==
    ASSUME Consistent, SessionOpens
    PROVE  Consistent'
<1> DEFINE opened == [leg EXCEPT ![Current].session = "open",
                                 ![Current].receiver = "run",
                                 ![Current].events = <<"state">>]
           rest == op.todo \ {Current}
<1>1. op.pc = "session" /\ op \in CallType /\ legs = {}
         /\ op.mode # {} /\ op.todo \subseteq op.mode /\ error' = error
  BY DEF SessionOpens, At, Opening, Consistent, TypeOK, CallType, CallInv
<1>2. PICK c \in Leg : c = Current /\ c \in op.todo /\ c \in op.mode
  BY <1>1, CurrentInTodo DEF Opening
<1>3. leg \in [Leg -> LegType] /\ \A k \in Leg : leg[k] \in LegType
  BY DEF Consistent, TypeOK
<1>4. opened[c] = [leg[c] EXCEPT !.session = "open", !.receiver = "run",
                                 !.events = <<"state">>]
         /\ \A k \in Leg \ {c} : opened[k] = leg[k]
  BY <1>2, <1>3
<1>5. /\ opened[c] \in LegType /\ opened[c].session = "open"
      /\ opened[c].receiver = "run" /\ opened[c].events = <<"state">>
      /\ opened[c].captureTask = leg[c].captureTask
      /\ opened[c].eventTask = leg[c].eventTask
      /\ opened[c].render = leg[c].render
      /\ opened[c].capture = leg[c].capture
  <2>1. "state" \in Event
    BY DEF Event
  <2>2. <<"state">> \in Seq(Event)
    BY <2>1
  <2>3. leg[c] \in LegType
    BY <1>3
  <2>4. opened[c] = [leg[c] EXCEPT !.session = "open", !.receiver = "run",
                                   !.events = <<"state">>]
    BY <1>4
  <2> HIDE DEF opened
  <2>5. QED
    BY <2>2, <2>3, <2>4 DEF LegType
<1>5a. /\ rest # {} => /\ leg' = opened
                       /\ op' = [op EXCEPT !.pc = "capture", !.todo = rest]
                       /\ UNCHANGED <<legs, state>>
       /\ rest = {} => /\ leg' = [l \in Leg |->
                                    IF l \in op.mode
                                      THEN [opened[l] EXCEPT !.captureTask = "run",
                                                             !.eventTask = "wait"]
                                      ELSE opened[l]]
                       /\ legs' = op.mode
                       /\ state' = "up"
                       /\ op' = Free
  BY DEF SessionOpens
<1>5b. DOMAIN opened = Leg
  BY <1>3
<1> HIDE DEF opened
<1>6. Len(opened[c].events) = 1
  BY <1>5
<1>7. /\ opened \in [Leg -> LegType]
      /\ \A k \in Leg : opened[k] \in LegType
                       /\ Len(opened[k].events) <= EventCapacity
  <2>1. \A k \in Leg : opened[k] \in LegType
    <3> SUFFICES ASSUME NEW k \in Leg PROVE opened[k] \in LegType
      OBVIOUS
    <3>1. CASE k = c
      BY <1>5, <3>1
    <3>2. CASE k # c
      BY <1>3, <1>4, <3>2
    <3>3. QED
      BY <3>1, <3>2
  <2>2. Len(opened[c].events) <= EventCapacity
    BY <1>6, LiveAssumption
  <2>3. \A k \in Leg \ {c} : Len(opened[k].events) <= EventCapacity
    BY <1>4 DEF Consistent, TypeOK
  <2>4. opened = [leg EXCEPT ![c] = opened[c]]
    BY <1>2 DEF opened
  <2>5. opened \in [Leg -> LegType]
    BY <1>3, <2>1, <2>4
  <2>6. QED
    BY <2>1, <2>2, <2>3, <2>5
<1>8. \A k \in Leg :
        /\ k \notin op.mode => Bare(k)
        /\ k \in op.mode => OpeningLeg(k)
  BY <1>1 DEF Consistent, LegInv, Opening
<1>9. \A k \in op.mode \ rest : opened[k].session = "open"
  <2> SUFFICES ASSUME NEW k \in op.mode, k \notin rest
               PROVE  opened[k].session = "open"
    OBVIOUS
  <2>1. CASE k = c
    BY <1>5, <2>1
  <2>2. CASE k # c
    <3>1. k \in Leg /\ k \notin op.todo
      BY <1>1, <1>2, <2>2 DEF CallType
    <3>2. leg[k].session = "open"
      BY <1>8, <3>1 DEF OpeningLeg
    <3>3. QED
      BY <1>4, <2>2, <3>1, <3>2
  <2>3. QED
    BY <2>1, <2>2
<1>10. \A k \in Leg : opened[k].receiver = "failed" =>
          /\ k # c
          /\ leg[k].session = "open" =>
               error \/ \E i \in DOMAIN opened[k].events :
                           opened[k].events[i] = "error"
  <2> SUFFICES ASSUME NEW k \in Leg, opened[k].receiver = "failed"
               PROVE  /\ k # c
                      /\ leg[k].session = "open" =>
                           error \/ \E i \in DOMAIN opened[k].events :
                                       opened[k].events[i] = "error"
    OBVIOUS
  <2>1. k # c
    BY <1>5
  <2>2. opened[k] = leg[k] /\ ~Stopping(k)
    BY <1>1, <1>4, <2>1 DEF Stopping, StopPhases
  <2>3. QED
    BY <2>1, <2>2 DEF Consistent, ReportInv, ErrorQueued
<1>12. CASE rest # {}
  <2>1. /\ op' \in CallType /\ op'.pc = "capture"
        /\ op'.mode = op.mode /\ op'.todo = rest
    BY <1>1, <1>5a, <1>12 DEF CallType
  <2>2. TypeOK'
    BY <1>1, <1>7, <1>5a, <1>12, <2>1 DEF Consistent, TypeOK, CallType
  <2>3. CallInv'
    BY <1>1, <1>5a, <1>12, <2>1 DEF CallInv
  <2>4. LegInv'
    <3> SUFFICES ASSUME NEW k \in Leg
                 PROVE  /\ k \notin op.mode => Bare(k)'
                        /\ k \in op.mode => OpeningLeg(k)'
      BY <1>1, <1>5a, <1>12, <2>1 DEF LegInv, StopPhases
    <3>1. ASSUME k \notin op.mode PROVE Bare(k)'
      <4>1. k # c /\ Bare(k)
        BY <1>2, <1>8, <3>1
      <4>2. leg'[k] = leg[k]
        BY <1>4, <1>5a, <1>12, <4>1
      <4>3. QED
        BY <4>1, <4>2 DEF Bare, NoTasks
    <3>2. CASE k = c
      BY <1>2, <1>5, <1>8, <1>5a, <1>12, <2>1, <3>1, <3>2 DEF OpeningLeg, NoTasks
    <3>3. CASE k # c
      <4>1. leg'[k] = leg[k] /\ k # Current /\ (k \in rest <=> k \in op.todo)
        BY <1>2, <1>4, <1>5a, <1>12, <3>3
      <4>2. QED
        BY <1>8, <2>1, <3>1, <4>1 DEF OpeningLeg, NoTasks
    <3>4. QED
      BY <3>2, <3>3
  <2>5. ReportInv'
    <3> SUFFICES ASSUME NEW k \in Leg, leg'[k].session = "open",
                        leg'[k].receiver = "failed"
                 PROVE  error' \/ ErrorQueued(k)'
      BY DEF ReportInv
    <3>1. k # c /\ leg[k].session = "open"
      BY <1>4, <1>10, <1>5a, <1>12
    <3>2. QED
      BY <1>1, <1>10, <1>5a, <1>12, <3>1 DEF ErrorQueued
  <2>6. QED
    BY <2>2, <2>3, <2>4, <2>5 DEF Consistent
<1>13. CASE rest = {}
  <2>1. /\ op' = Free /\ legs' = op.mode /\ state' = "up"
        /\ \A k \in Leg \ op.mode : leg'[k] = opened[k]
        /\ \A k \in op.mode : leg'[k] = [opened[k] EXCEPT !.captureTask = "run",
                                                       !.eventTask = "wait"]
    BY <1>1, <1>5a, <1>13 DEF CallType
  <2>2. \A k \in Leg :
          /\ leg'[k] \in LegType
          /\ leg'[k].events = opened[k].events
          /\ leg'[k].session = opened[k].session
          /\ leg'[k].receiver = opened[k].receiver
    <3> SUFFICES ASSUME NEW k \in Leg
                 PROVE  /\ leg'[k] \in LegType
                        /\ leg'[k].events = opened[k].events
                        /\ leg'[k].session = opened[k].session
                        /\ leg'[k].receiver = opened[k].receiver
      OBVIOUS
    <3>1. opened[k] \in LegType
      BY <1>7
    <3>2. CASE k \in op.mode
      <4>1. leg'[k] = [opened[k] EXCEPT !.captureTask = "run",
                                        !.eventTask = "wait"]
        BY <2>1, <3>2
      <4>2. QED
        BY <3>1, <4>1 DEF LegType
    <3>3. CASE k \notin op.mode
      BY <2>1, <3>1, <3>3
    <3>4. QED
      BY <3>2, <3>3
  <2>3. TypeOK'
    <3>1. leg' \in [Leg -> LegType]
      BY <1>5a, <1>13, <2>2
    <3>2. \A k \in Leg : Len(leg'[k].events) <= EventCapacity
      BY <1>7, <2>2
    <3>3. op' \in CallType /\ op.mode \in SUBSET Leg
      BY <1>1, <2>1, FreeCall DEF CallType
    <3>4. QED
      BY <1>1, <2>1, <3>1, <3>2, <3>3 DEF Consistent, TypeOK, CallType
  <2>4. CallInv'
    BY <2>1, FreeCall DEF CallInv
  <2>5. LegInv'
    <3> SUFFICES ASSUME NEW k \in Leg
                 PROVE  /\ k \notin op.mode => Bare(k)'
                        /\ k \in op.mode => leg'[k].session = "open"
      BY <2>1, FreeCall DEF LegInv
    <3>1. ASSUME k \notin op.mode PROVE Bare(k)'
      <4>1. k # c /\ Bare(k)
        BY <1>2, <1>8, <3>1
      <4>2. leg'[k] = leg[k]
        BY <1>4, <2>1, <3>1, <4>1
      <4>3. QED
        BY <4>1, <4>2 DEF Bare, NoTasks
    <3>2. k \in op.mode => leg'[k].session = "open"
      BY <1>9, <1>13, <2>2
    <3>3. QED
      BY <3>1, <3>2
  <2>6. ReportInv'
    <3> SUFFICES ASSUME NEW k \in Leg, leg'[k].session = "open",
                        leg'[k].receiver = "failed"
                 PROVE  error' \/ ErrorQueued(k)'
      BY DEF ReportInv
    <3>1. opened[k].receiver = "failed" /\ opened[k].session = "open"
      BY <2>2
    <3>2. k # c
      BY <1>10, <3>1
    <3>3. leg[k].session = "open"
      BY <1>4, <3>1, <3>2
    <3>4. leg'[k].events = opened[k].events
      BY <2>2
    <3>5. QED
      BY <1>1, <1>10, <3>1, <3>3, <3>4 DEF ErrorQueued
  <2>7. QED
    BY <2>3, <2>4, <2>5, <2>6 DEF Consistent
<1>14. QED
  BY <1>12, <1>13

(* stop() takes the legs that are registered.                               *)
LEMMA StopStep ==
    ASSUME Consistent, StopNothing \/ Stop
    PROVE  Consistent'
<1>1. leg' = leg /\ error' = error /\ op = Free /\ legs' = {}
         /\ state' \in {"stopped", "closing"}
  BY DEF StopNothing, Stop
<1>2. \A k \in Leg : k \notin legs => Bare(k)'
  BY <1>1, FreeCall DEF Consistent, LegInv, Bare, NoTasks
<1>3. CASE StopNothing
  <2>1. TypeOK'
    BY <1>1, <1>3 DEF Consistent, TypeOK, StopNothing
  <2>2. QED
    BY <1>1, <1>2, <1>3, <2>1, AllBareConsistent DEF StopNothing
<1>4. CASE Stop
  <2>1. /\ op' = [pc |-> "capture_close", mode |-> legs, todo |-> legs,
                  undo |-> FALSE]
        /\ legs \in SUBSET Leg /\ legs # {}
    BY <1>4 DEF Stop, Consistent, TypeOK
  <2>2. op' \in CallType /\ Current' \in legs
    BY <2>1, FirstIn DEF CallType, StopPhases, Current
  <2>3. TypeOK'
    BY <1>1, <2>2 DEF Consistent, TypeOK, CallType
  <2>4. CallInv'
    BY <1>1, <2>1 DEF CallInv
  <2>5. LegInv'
    <3>1. \A k \in legs : leg[k].session = "open"
      BY <2>1 DEF Consistent, LegInv
    <3>2. QED
      BY <1>1, <1>2, <2>1, <2>2, <3>1 DEF LegInv, ClosingLeg, Opening, StopPhases
  <2>6. ReportInv'
    <3> SUFFICES ASSUME NEW k \in Leg, leg'[k].session = "open",
                        leg'[k].receiver = "failed"
                 PROVE  error' \/ ErrorQueued(k)'
      BY DEF ReportInv
    <3>1. ~Stopping(k)
      BY <1>1, FreeCall DEF Stopping
    <3>2. QED
      BY <1>1, <3>1 DEF Consistent, ReportInv, ErrorQueued
  <2>7. QED
    BY <2>3, <2>4, <2>5, <2>6 DEF Consistent
<1>5. QED
  BY <1>3, <1>4

(* An await of _DirectLeg.stop: the call goes on to the next phase with the *)
(* same leg, of which no task begins.                                       *)
ClosePhase(c, pc) ==
    /\ c = Current
    /\ op.pc \in StopPhases /\ pc \in StopPhases \ {"capture_close"}
    /\ op' = [op EXCEPT !.pc = pc]
    /\ UNCHANGED <<legs, state, error>>
    /\ OneLegChanges
    /\ leg'[c].capture = "none"
    /\ leg'[c].session = CASE pc = "stream_end" -> "ending"
                           [] pc = "socket_close" -> "closing"
                           [] OTHER -> "none"
    /\ pc = "render_close" =>
          leg'[c].captureTask = "none" /\ leg'[c].eventTask = "none"

LEMMA ClosePhaseConsistent ==
    ASSUME Consistent, NEW c, NEW pc, ClosePhase(c, pc)
    PROVE  Consistent'
<1>1. c \in op.todo /\ c \in op.mode /\ c \in Leg
  BY CurrentInTodo DEF ClosePhase
<1>2. /\ op' \in CallType /\ op'.pc = pc
      /\ op'.mode = op.mode /\ op'.todo = op.todo
      /\ Current' = c
  BY DEF ClosePhase, Consistent, TypeOK, CallType, Current
<1>3. pc \in {"stream_end", "socket_close", "tasks", "render_close"}
  BY DEF ClosePhase, StopPhases
<1>4. TypeOK'
  BY <1>2 DEF ClosePhase, Consistent, TypeOK, CallType, OneLegChanges
<1>5. CallInv'
  BY <1>2, <1>3 DEF ClosePhase, Consistent, CallInv, Opening, StopPhases
<1>6. LegInv'
  <2>1. \A k \in Leg \ {c} : leg'[k] = leg[k] /\ (Bare(k) => Bare(k)')
    BY DEF ClosePhase, OneLegChanges, Bare, NoTasks
  <2>2. legs' = {}
    BY DEF ClosePhase, Consistent, CallInv, StopPhases
  <2>3. ClosingLeg(c)'
    BY <1>1, <1>2, <1>3 DEF ClosePhase, ClosingLeg
  <2>4. ASSUME NEW k \in Leg, k # c
        PROVE  /\ k \notin op.mode => Bare(k)'
               /\ k \in op.mode => ClosingLeg(k)'
    <3>1. /\ k \notin op.mode => Bare(k)
          /\ k \in op.mode => ClosingLeg(k)
      BY DEF ClosePhase, Consistent, LegInv, CallInv, StopPhases
    <3>2. QED
      BY <1>2, <2>1, <2>4, <3>1 DEF ClosePhase, ClosingLeg
  <2>5. QED
    BY <1>1, <1>2, <1>3, <2>2, <2>3, <2>4 DEF LegInv, Opening
<1>7. ReportInv'
  <2> SUFFICES ASSUME NEW k \in Leg, leg'[k].session = "open",
                      ~Stopping(k)', leg'[k].receiver = "failed"
               PROVE  error' \/ ErrorQueued(k)'
    BY DEF ReportInv
  <2>1. k # c /\ ~Stopping(k)
    BY <1>1, <1>2, <1>3 DEF Stopping, ClosePhase, StopPhases
  <2>2. leg'[k] = leg[k]
    BY <2>1 DEF ClosePhase, OneLegChanges
  <2>3. QED
    BY <2>1, <2>2 DEF ClosePhase, Consistent, ReportInv, ErrorQueued
<1>8. QED
  BY <1>4, <1>5, <1>6, <1>7 DEF Consistent

LEMMA CloseStep ==
    ASSUME Consistent, CaptureClosed \/ LoopsCancelled \/ SocketClosed
    PROVE  Consistent'
<1>1. op.pc \in {"capture_close", "stream_end", "socket_close"}
  BY DEF CaptureClosed, LoopsCancelled, SocketClosed, At
<1>2. PICK c \in Leg : c = Current /\ c \in op.todo /\ c \in op.mode
  BY <1>1, CurrentInTodo DEF StopPhases
<1>3. leg[c] \in LegType /\ Len(leg[c].events) <= EventCapacity /\ ClosingLeg(c)
  BY <1>1, <1>2 DEF Consistent, TypeOK, LegInv, StopPhases
<1>4. ASSUME NEW new \in LegType, leg' = [leg EXCEPT ![c] = new],
             Len(new.events) <= EventCapacity
      PROVE  OneLegChanges /\ leg'[c] = new
  BY <1>2, <1>4 DEF OneLegChanges, Consistent, TypeOK
<1>5. CASE CaptureClosed
  <2> DEFINE new == [leg[c] EXCEPT !.capture = "none", !.session = "ending"]
  <2>1. leg' = [leg EXCEPT ![c] = new]
    BY <1>2, <1>5 DEF CaptureClosed
  <2>2. /\ new \in LegType /\ new.events = leg[c].events
        /\ new.capture = "none" /\ new.session = "ending"
    BY <1>3 DEF LegType
  <2> HIDE DEF new
  <2>3. OneLegChanges /\ leg'[c] = new
    BY <1>3, <1>4, <2>1, <2>2
  <2>4. ClosePhase(c, "stream_end")
    BY <1>1, <1>2, <1>5, <2>2, <2>3 DEF ClosePhase, CaptureClosed, StopPhases
  <2>5. QED
    BY <2>4, ClosePhaseConsistent
<1>6. CASE LoopsCancelled
  <2> DEFINE new == [leg[c] EXCEPT !.session = "closing", !.receiver = "none"]
  <2>1. leg' = [leg EXCEPT ![c] = new]
    BY <1>2, <1>6 DEF LoopsCancelled
  <2>2. leg[c].capture = "none"
    BY <1>2, <1>3, <1>6 DEF ClosingLeg, LoopsCancelled, At
  <2>3. /\ new \in LegType /\ new.events = leg[c].events
        /\ new.capture = "none" /\ new.session = "closing"
    BY <1>3, <2>2 DEF LegType
  <2> HIDE DEF new
  <2>4. OneLegChanges /\ leg'[c] = new
    BY <1>3, <1>4, <2>1, <2>3
  <2>5. ClosePhase(c, "socket_close")
    BY <1>1, <1>2, <1>6, <2>3, <2>4 DEF ClosePhase, LoopsCancelled, StopPhases
  <2>6. QED
    BY <2>5, ClosePhaseConsistent
<1>7. CASE SocketClosed
  <2>1. PICK events \in {WithMarker(leg[c].events), leg[c].events} :
          leg' = [leg EXCEPT ![c].session = "none", ![c].events = events]
    BY <1>2, <1>7 DEF SocketClosed
  <2>2. events \in Seq(Event) /\ Len(events) <= EventCapacity
    <3>1. leg[c].events \in Seq(Event) /\ "end" \in Event
      BY <1>3 DEF LegType, Event
    <3>2. WithMarker(leg[c].events) \in Seq(Event)
             /\ Len(WithMarker(leg[c].events)) <= EventCapacity
      <4>1. CASE Len(leg[c].events) < EventCapacity
        BY <3>1, <4>1, LiveAssumption DEF WithMarker
      <4>2. CASE ~(Len(leg[c].events) < EventCapacity)
        <5>1. Len(leg[c].events) = EventCapacity /\ leg[c].events # <<>>
          BY <1>3, <3>1, <4>2, LiveAssumption
        <5>2. Tail(leg[c].events) \in Seq(Event)
                 /\ Len(Tail(leg[c].events)) = EventCapacity - 1
          BY <3>1, <5>1, LiveAssumption
        <5>3. QED
          BY <3>1, <4>2, <5>2, LiveAssumption DEF WithMarker
      <4>3. QED
        BY <4>1, <4>2
    <3>3. QED
      BY <1>3, <2>1, <3>1, <3>2
  <2> DEFINE new == [leg[c] EXCEPT !.session = "none", !.events = events]
  <2>3. leg' = [leg EXCEPT ![c] = new]
    BY <2>1
  <2>4. leg[c].capture = "none"
    BY <1>2, <1>3, <1>7 DEF ClosingLeg, SocketClosed, At
  <2>5. /\ new \in LegType /\ new.events = events
        /\ new.capture = "none" /\ new.session = "none"
    BY <1>3, <2>2, <2>4 DEF LegType
  <2> HIDE DEF new
  <2>6. OneLegChanges /\ leg'[c] = new
    BY <1>4, <2>2, <2>3, <2>5
  <2>7. ClosePhase(c, "tasks")
    BY <1>1, <1>2, <1>7, <2>5, <2>6 DEF ClosePhase, SocketClosed, StopPhases
  <2>8. QED
    BY <2>7, ClosePhaseConsistent
<1>8. QED
  BY <1>5, <1>6, <1>7

(* The end of _DirectLeg.stop: the tasks, and the render if there is one.   *)
LEMMA EndStep ==
    ASSUME Consistent, TasksEnd \/ RenderClosed
    PROVE  Consistent'
<1>1. op.pc \in {"tasks", "render_close"} /\ legs' = legs
  BY DEF TasksEnd, RenderClosed, At
<1>2. PICK c \in Leg : c = Current /\ c \in op.todo /\ c \in op.mode
  BY <1>1, CurrentInTodo DEF StopPhases
<1>3. leg[c] \in LegType /\ ClosingLeg(c)
         /\ Len(leg[c].events) <= EventCapacity
  BY <1>1, <1>2 DEF Consistent, TypeOK, LegInv, StopPhases
<1>4. leg[c].capture = "none" /\ leg[c].session = "none"
  BY <1>1, <1>2, <1>3 DEF ClosingLeg
<1>5. CASE TasksEnd
  <2> DEFINE render == IF leg[c].render = "closing" THEN "none"
                                                    ELSE leg[c].render
             new == [leg[c] EXCEPT !.captureTask = "none",
                                   !.eventTask = "none",
                                   !.events = <<>>, !.render = render]
  <2>1. leg' = [leg EXCEPT ![c] = new]
    BY <1>2, <1>5 DEF TasksEnd, TasksEnded
  <2>2. <<>> \in Seq(Event) /\ Len(<<>>) <= EventCapacity
    BY LiveAssumption
  <2>3. /\ new \in LegType /\ new.events = <<>>
        /\ new.capture = "none" /\ new.session = "none"
        /\ new.captureTask = "none" /\ new.eventTask = "none"
        /\ leg[c].render # "running" => new.render = "none"
    BY <1>3, <1>4, <2>2 DEF LegType
  <2> HIDE DEF new
  <2>4. leg'[c] = new /\ \A k \in Leg \ {c} : leg'[k] = leg[k]
    BY <2>1 DEF Consistent, TypeOK
  <2>5. OneLegChanges
    BY <1>2, <2>1, <2>2, <2>3, <2>4 DEF OneLegChanges, Consistent, TypeOK
  <2>6. CASE leg[c].render = "running"
    <3>1. ClosePhase(c, "render_close")
      BY <1>1, <1>2, <1>5, <2>3, <2>4, <2>5, <2>6
      DEF ClosePhase, TasksEnd, CloseRender, StopPhases
    <3>2. QED
      BY <3>1, ClosePhaseConsistent
  <2>7. CASE leg[c].render # "running"
    <3>1. Bare(c)'
      BY <2>3, <2>4, <2>7 DEF Bare, NoTasks
    <3>2. NextLeg
      BY <1>2, <1>5, <2>7 DEF TasksEnd, CloseRender
    <3>3. QED
      BY <1>1, <1>2, <2>5, <3>1, <3>2, NextLegStep
  <2>8. QED
    BY <2>6, <2>7
<1>6. CASE RenderClosed
  <2> DEFINE new == [leg[c] EXCEPT !.render = "none"]
  <2>1. leg' = [leg EXCEPT ![c] = new]
    BY <1>2, <1>6 DEF RenderClosed
  <2>2. leg[c].captureTask = "none" /\ leg[c].eventTask = "none"
    BY <1>2, <1>3, <1>6 DEF RenderClosed, At, ClosingLeg
  <2>3. /\ new \in LegType /\ new.events = leg[c].events
        /\ new.capture = "none" /\ new.session = "none"
        /\ new.captureTask = "none" /\ new.eventTask = "none"
        /\ new.render = "none"
    BY <1>3, <1>4, <2>2 DEF LegType
  <2> HIDE DEF new
  <2>4. leg'[c] = new /\ \A k \in Leg \ {c} : leg'[k] = leg[k]
    BY <2>1 DEF Consistent, TypeOK
  <2>5. OneLegChanges
    BY <1>2, <1>3, <2>1, <2>3, <2>4 DEF OneLegChanges, Consistent, TypeOK
  <2>6. Bare(c)'
    BY <2>3, <2>4 DEF Bare, NoTasks
  <2>7. QED
    BY <1>1, <1>2, <1>6, <2>5, <2>6, NextLegStep DEF RenderClosed
<1>7. QED
  BY <1>5, <1>6

LEMMA ConsistentStep == Consistent /\ [Next]_vars => Consistent'
<1> SUFFICES ASSUME Consistent, [Next]_vars PROVE Consistent'
  OBVIOUS
<1>1. CASE Start \/ RoutingInvalid \/ RoutingValid
  BY <1>1, StartStep
<1>2. CASE CaptureFails \/ SessionFails
  BY <1>2, FailedOpeningStep
<1>3. CASE CaptureOpens
  BY <1>3, CaptureOpensStep
<1>4. CASE SessionOpens
  BY <1>4, SessionOpensStep
<1>5. CASE StopNothing \/ Stop
  BY <1>5, StopStep
<1>6. CASE CaptureClosed \/ LoopsCancelled \/ SocketClosed
  BY <1>6, CloseStep
<1>7. CASE TasksEnd \/ RenderClosed
  BY <1>7, EndStep
<1>8. ASSUME NEW l \in Leg, Receive(l) \/ ReceiveEnds(l) \/ SendFails(l)
      PROVE  Consistent'
  BY <1>8, ProviderStep, LegStepConsistent
<1>9. ASSUME NEW l \in Leg, CaptureEnds(l) \/ CaptureRaises(l) \/ EventTask(l)
      PROVE  Consistent'
  BY <1>9, TaskStep, LegStepConsistent
<1>10. CASE UNCHANGED vars
  BY <1>10 DEF vars, Consistent, TypeOK, CallInv, LegInv, ReportInv, Bare,
     NoTasks, OpeningLeg, ClosingLeg, Current, Stopping, ErrorQueued
<1>11. QED
  BY <1>1, <1>2, <1>3, <1>4, <1>5, <1>6, <1>7, <1>8, <1>9, <1>10
  DEF Next, ControllerStep

LEMMA Invariance == Spec => []Consistent
BY ConsistentInit, ConsistentStep, PTL DEF Spec

-----------------------------------------------------------------------------

(* The variables keep their types and the event queues their bound, however *)
(* large it is (max_pending_events of BufferedSpeechTranslationSession).    *)
THEOREM TypeCorrect == Spec => []TypeOK
<1>1. Consistent => TypeOK
  BY DEF Consistent
<1>2. QED
  BY <1>1, Invariance, PTL

(* A provider stream that has ended on a registered leg is told to the      *)
(* status or is about to be (_receive_loop and _event_loop).                *)
THEOREM StreamEndReported == Spec => []StreamEndIsReported
<1>1. Consistent => StreamEndIsReported
  <2> SUFFICES ASSUME Consistent, NEW l \in legs, leg[l].receiver = "failed"
               PROVE  error \/ ErrorQueued(l)
    BY DEF StreamEndIsReported
  <2>1. l \in Leg /\ leg[l].session = "open"
    BY DEF Consistent, TypeOK, LegInv
  <2>2. ~Stopping(l)
    BY DEF Consistent, CallInv, Stopping, StopPhases
  <2>3. QED
    BY <2>1, <2>2 DEF Consistent, ReportInv
<1>2. QED
  BY <1>1, Invariance, PTL

LEMMA IdleStep ==
    ASSUME Consistent, [Next]_vars, op = Free, legs = {}
    PROVE  /\ state' = state \/ StopNothing
           /\ error' = error
<1>1. \A k \in Leg : Bare(k)
  BY FreeCall DEF Consistent, LegInv
<1>2. ASSUME NEW l \in Leg,
             \/ Receive(l) \/ ReceiveEnds(l) \/ SendFails(l)
             \/ CaptureEnds(l) \/ CaptureRaises(l) \/ EventTask(l)
      PROVE  FALSE
  BY <1>1, <1>2 DEF Bare, NoTasks, Receive, ReceiveEnds, SendFails, Looping,
     CaptureEnds, CaptureRaises, Capturing, EventTask, TakeEvent, RenderOpens,
     Written, RenderRaises, RenderReset, Handling
<1>3. ~ControllerStep
  BY FreeCall DEF ControllerStep, RoutingInvalid, RoutingValid, CaptureOpens,
     CaptureFails, SessionOpens, SessionFails, CaptureClosed, LoopsCancelled,
     SocketClosed, TasksEnd, RenderClosed, At, Opening, StopPhases
<1>4. CASE Start
  BY <1>4 DEF Start
<1>5. CASE StopNothing
  BY <1>5 DEF StopNothing
<1>6. CASE UNCHANGED vars
  BY <1>6 DEF vars
<1>7. QED
  BY <1>2, <1>3, <1>4, <1>5, <1>6 DEF Next, Stop

(* Nothing that a stopped session left behind changes the status: the tasks *)
(* that report to it are over when stop(), or a start() that fails, returns *)
(* (_DirectLeg.stop awaits the tasks it has cancelled).                     *)
THEOREM IdleStable == Spec => IdleStatusIsStable
<1>1. Consistent /\ [Next]_vars =>
        [op = Free /\ legs = {} =>
           /\ state' = state \/ StopNothing
           /\ error' = error]_vars
  BY IdleStep
<1>2. QED
  BY <1>1, Invariance, PTL DEF Spec, IdleStatusIsStable

-----------------------------------------------------------------------------
(* The refinement of LiveLifecycle.                                         *)

LEMMA HoldingIsNotBare ==
    /\ Holding \in SUBSET Leg
    /\ \A l \in Leg : l \in Holding <=> ~Bare(l)
    /\ Holding' \in SUBSET Leg
    /\ \A l \in Leg : l \in Holding' <=> ~Bare(l)'
BY DEF Holding, Bare, NoTasks

(* The phase of a call, and what the legs hold in it.                       *)
LEMMA PhaseOfCall ==
    ASSUME Consistent
    PROVE  /\ op = Free /\ legs = {} => Phase = "idle" /\ Holding = {}
           /\ op = Free /\ legs # {} => Phase = "live"
           /\ op = Free => Wanted = legs
           /\ op.pc = "routing" => Phase = "opening" /\ Holding = {}
           /\ op.pc \in Opening => Phase = "opening"
           /\ op.pc \in StopPhases => Phase = "closing"
           /\ op # Free => Wanted = op.mode /\ legs = {}
           /\ op = Free <=> op.pc = "free"
<1>1. op = Free <=> op.pc = "free"
  BY FreeCall DEF Consistent, CallInv
<1>2. op = Free /\ legs = {} => Holding = {}
  BY HoldingIsNotBare, FreeCall DEF Consistent, LegInv
<1>3. op.pc = "routing" => Holding = {}
  BY HoldingIsNotBare DEF Consistent, LegInv
<1>4. QED
  BY <1>1, <1>2, <1>3 DEF Phase, Wanted, Opening, StopPhases, Consistent, CallInv

(* A step of the tasks and loops takes nothing that is not taken, and gives *)
(* something back only while the leg is closed.                             *)
LEMMA LegStepMaps ==
    ASSUME Consistent, NEW l \in Leg, LegStep(l)
    PROVE  [Lifecycle!Next]_<<Phase, Wanted, Holding>>
<1>1. Phase' = Phase /\ Wanted' = Wanted
  BY DEF LegStep, Phase, Wanted
<1>2. \A k \in Leg : Bare(k) => Bare(k)'
  BY DEF LegStep, Bare, NoTasks
<1>3. Holding' \in SUBSET Holding
  BY <1>2, HoldingIsNotBare
<1>4. CASE op.pc \in StopPhases
  <2>1. Phase = "closing"
    BY <1>4, PhaseOfCall
  <2>2. Lifecycle!Release
    BY <1>1, <1>3, <2>1 DEF Lifecycle!Release, Wanted
  <2>3. QED
    BY <2>2 DEF Lifecycle!Next
<1>5. CASE op.pc \notin StopPhases
  <2>1. ASSUME NEW k \in Leg, ~Bare(k) PROVE ~Bare(k)'
    <3>1. leg[k].capture # "none" \/ leg[k].session # "none"
      <4>1. CASE op.pc = "free"
        BY <2>1, <4>1, FreeCall DEF Consistent, CallInv, LegInv
      <4>2. CASE op.pc # "free"
        <5>1. k \in op.mode /\ legs = {} /\ op.pc # "routing"
          BY <2>1, <4>2 DEF Consistent, CallInv, LegInv
        <5>2. op.pc \in Opening
          BY <1>5, <4>2, <5>1 DEF Consistent, TypeOK, Opening
        <5>3. QED
          BY <2>1, <5>1, <5>2 DEF Consistent, LegInv, OpeningLeg, Bare
      <4>3. QED
        BY <4>1, <4>2
    <3>2. QED
      BY <3>1 DEF LegStep, Bare
  <2>2. Holding' = Holding
    BY <1>2, <2>1, HoldingIsNotBare
  <2>3. QED
    BY <1>1, <2>2
<1>6. QED
  BY <1>4, <1>5

LEMMA OpeningStepMaps ==
    ASSUME Consistent, Consistent',
           \/ Start \/ RoutingInvalid \/ RoutingValid
           \/ CaptureOpens \/ CaptureFails \/ SessionOpens \/ SessionFails
    PROVE  [Lifecycle!Next]_<<Phase, Wanted, Holding>>
<1>1. CASE Start
  <2>1. Phase = "idle" /\ Wanted = {} /\ Holding = {}
    BY <1>1, PhaseOfCall DEF Start
  <2>2. PICK mode \in (SUBSET Leg) \ {{}} :
          op' = [Free EXCEPT !.pc = "routing", !.mode = mode]
    BY <1>1 DEF Start
  <2>3. op'.pc = "routing" /\ op'.mode = mode /\ op' # Free
    BY <2>2 DEF Free
  <2>4. Phase' = "opening" /\ Wanted' = mode
    BY <2>3 DEF Phase, Wanted
  <2>5. Holding' = Holding
    BY <1>1 DEF Start, Holding
  <2>6. Lifecycle!Begin
    BY <2>1, <2>2, <2>4, <2>5 DEF Lifecycle!Begin, Wanted
  <2>7. QED
    BY <2>6 DEF Lifecycle!Next
<1>2. CASE RoutingInvalid
  <2>1. Phase = "opening" /\ Holding = {} /\ legs' = {} /\ op' = Free
    BY <1>2, PhaseOfCall, FreeCall DEF RoutingInvalid, At
  <2>2. Phase' = "idle" /\ Wanted' = {}
    BY <2>1, FreeCall DEF Phase, Wanted, Opening
  <2>3. Holding' = {}
    BY <1>2, <2>1 DEF RoutingInvalid, Holding
  <2>4. Lifecycle!Finish
    BY <2>1, <2>2, <2>3 DEF Lifecycle!Finish, Wanted
  <2>5. QED
    BY <2>4 DEF Lifecycle!Next
<1>3. CASE RoutingValid
  <2>1. Phase = "opening" /\ Wanted = op.mode
    BY <1>3, PhaseOfCall, FreeCall DEF RoutingValid, At
  <2>2. op'.pc = "capture" /\ op'.mode = op.mode /\ op' # Free
    BY <1>3, FreeCall DEF RoutingValid, Consistent, TypeOK
  <2>3. Phase' = "opening" /\ Wanted' = op.mode
    BY <2>2 DEF Phase, Wanted
  <2>4. Holding' = Holding
    BY <1>3 DEF RoutingValid, Holding
  <2>5. QED
    BY <2>1, <2>3, <2>4
<1>4. ASSUME op.pc \in Opening, NEW c \in op.mode,
             \A k \in Leg \ {c} : leg'[k] = leg[k]
      PROVE  /\ Phase = "opening" /\ Wanted = op.mode
             /\ Bare(c)' => Holding' = Holding \ {c}
             /\ ~Bare(c)' => Holding' = Holding \cup {c}
  <2>1. c \in Leg
    BY DEF Consistent, TypeOK
  <2>2. \A k \in Leg \ {c} : Bare(k)' <=> Bare(k)
    BY <1>4 DEF Bare, NoTasks
  <2>3. Phase = "opening" /\ Wanted = op.mode
    BY <1>4, PhaseOfCall DEF Opening
  <2>4. Bare(c)' => Holding' = Holding \ {c}
    BY <2>1, <2>2, HoldingIsNotBare
  <2>5. ~Bare(c)' => Holding' = Holding \cup {c}
    BY <2>1, <2>2, HoldingIsNotBare
  <2>6. QED
    BY <2>3, <2>4, <2>5
<1>5. CASE CaptureOpens \/ (SessionOpens /\ op.todo \ {Current} # {})
  <2>1. op.pc \in Opening
    BY <1>5 DEF CaptureOpens, SessionOpens, At, Opening
  <2>2. PICK c \in op.mode : c = Current
    BY <2>1, CurrentInTodo
  <2>3. /\ op'.pc \in {"capture", "session"} /\ op'.mode = op.mode
        /\ \A k \in Leg \ {c} : leg'[k] = leg[k]
    BY <1>5, <2>2 DEF CaptureOpens, SessionOpens, Consistent, TypeOK
  <2>4. Phase' = "opening" /\ Wanted' = op.mode
    BY <2>3, FreeCall DEF Phase, Wanted, Opening
  <2>5. CASE Bare(c)'
    <3>1. ~CaptureOpens /\ ~SessionOpens
      <4>1. c \in Leg /\ leg[c] \in LegType
        BY DEF Consistent, TypeOK
      <4>2. CASE CaptureOpens
        <5>1. leg'[c] = [Absent EXCEPT !.capture = "open"]
          BY <2>2, <4>1, <4>2 DEF CaptureOpens, Consistent, TypeOK
        <5>2. QED
          BY <2>5, <5>1 DEF Bare, Absent
      <4>3. CASE SessionOpens
        <5>1. leg'[c].session = "open"
          <6>1. leg'[c] = [leg[c] EXCEPT !.session = "open", !.receiver = "run",
                                         !.events = <<"state">>]
            BY <1>5, <2>2, <4>1, <4>3
            DEF SessionOpens, CaptureOpens, At, Consistent, TypeOK
          <6>2. QED
            BY <4>1, <6>1 DEF LegType
        <5>2. QED
          BY <2>5, <5>1 DEF Bare
      <4>4. QED
        BY <4>2, <4>3
    <3>2. QED
      BY <1>5, <3>1
  <2>6. CASE ~Bare(c)'
    <3>1. Phase = "opening" /\ Wanted = op.mode /\ Holding' = Holding \cup {c}
      BY <1>4, <2>1, <2>3, <2>6
    <3>2. Lifecycle!Acquire
      BY <2>2, <2>4, <3>1 DEF Lifecycle!Acquire, Wanted
    <3>3. QED
      BY <3>2 DEF Lifecycle!Next
  <2>7. QED
    BY <2>5, <2>6
<1>6. CASE SessionOpens /\ op.todo \ {Current} = {}
  <2>1. op.pc \in Opening /\ op.mode # {} /\ op' = Free /\ legs' = op.mode
    BY <1>6 DEF SessionOpens, At, Opening, Consistent, CallInv
  <2>2. Phase = "opening" /\ Wanted = op.mode
    BY <2>1, PhaseOfCall, FreeCall DEF Opening
  <2>3. Phase' = "live" /\ Wanted' = op.mode
    BY <2>1, FreeCall DEF Phase, Wanted, Opening
  <2>4. Holding' = op.mode
    <3>1. \A k \in Leg : k \notin op.mode => Bare(k)'
      BY <2>1, FreeCall DEF Consistent, LegInv
    <3>2. \A k \in op.mode : ~Bare(k)'
      BY <2>1 DEF Consistent, LegInv, TypeOK, Bare
    <3>3. op.mode \in SUBSET Leg
      BY DEF Consistent, TypeOK
    <3>4. QED
      BY <3>1, <3>2, <3>3, HoldingIsNotBare
  <2>5. Lifecycle!GoLive
    BY <2>2, <2>3, <2>4 DEF Lifecycle!GoLive, Wanted
  <2>6. QED
    BY <2>5 DEF Lifecycle!Next
<1>7. CASE CaptureFails \/ SessionFails
  <2>1. op.pc \in Opening /\ Undo(op.mode \ op.todo) /\ legs' = legs
    BY <1>7 DEF CaptureFails, SessionFails, At, Opening
  <2>2. Phase = "opening" /\ Wanted = op.mode /\ legs' = {}
    BY <2>1, PhaseOfCall, FreeCall DEF Opening
  <2>3. Holding' \in SUBSET Holding
    <3>1. \A k \in Leg : Bare(k) => Bare(k)'
      <4>1. CASE CaptureFails
        BY <4>1 DEF CaptureFails, Bare, NoTasks
      <4>2. CASE SessionFails
        <5>1. leg' = [leg EXCEPT ![Current].capture = "none"]
          BY <4>2 DEF SessionFails
        <5>2. \A k \in Leg :
                /\ leg'[k].capture \in {leg[k].capture, "none"}
                /\ leg'[k].session = leg[k].session
                /\ leg'[k].captureTask = leg[k].captureTask
                /\ leg'[k].eventTask = leg[k].eventTask
                /\ leg'[k].render = leg[k].render
          BY <5>1 DEF Consistent, TypeOK, LegType
        <5>3. QED
          BY <5>2 DEF Bare, NoTasks
      <4>3. QED
        BY <1>7, <4>1, <4>2
    <3>2. QED
      BY <3>1, HoldingIsNotBare
  <2>4. CASE op.mode \ op.todo = {}
    <3>1. op' = Free
      BY <2>1, <2>4 DEF Undo
    <3>2. Phase' = "idle" /\ Wanted' = {}
      BY <2>2, <3>1, FreeCall DEF Phase, Wanted, Opening
    <3>3. Holding' = {}
      BY <2>2, <3>1, FreeCall, HoldingIsNotBare DEF Consistent, LegInv
    <3>4. Lifecycle!Finish
      BY <2>2, <3>2, <3>3 DEF Lifecycle!Finish, Wanted
    <3>5. QED
      BY <3>4 DEF Lifecycle!Next
  <2>5. CASE op.mode \ op.todo # {}
    <3>1. op'.pc = "capture_close" /\ op'.mode = op.mode
      BY <2>1, <2>5 DEF Undo, Consistent, TypeOK
    <3>2. Phase' = "closing" /\ Wanted' = op.mode
      BY <3>1, FreeCall DEF Phase, Wanted
    <3>3. Lifecycle!Close
      BY <2>2, <2>3, <3>2 DEF Lifecycle!Close, Wanted
    <3>4. QED
      BY <3>3 DEF Lifecycle!Next
  <2>6. QED
    BY <2>4, <2>5
<1>8. QED
  BY <1>1, <1>2, <1>3, <1>5, <1>6, <1>7

LEMMA StopStepMaps ==
    ASSUME Consistent, StopNothing \/ Stop
    PROVE  [Lifecycle!Next]_<<Phase, Wanted, Holding>>
<1>1. Holding' = Holding
  BY DEF StopNothing, Stop, Holding
<1>2. CASE StopNothing
  BY <1>1, <1>2 DEF StopNothing, Phase, Wanted
<1>3. CASE Stop
  <2>1. Phase = "live" /\ Wanted = legs
    BY <1>3, PhaseOfCall DEF Stop
  <2>2. op'.pc = "capture_close" /\ op'.mode = legs
    BY <1>3 DEF Stop
  <2>3. Phase' = "closing" /\ Wanted' = legs
    BY <2>2, FreeCall DEF Phase, Wanted, StopPhases
  <2>4. Lifecycle!Close
    BY <1>1, <2>1, <2>3 DEF Lifecycle!Close, Wanted
  <2>5. QED
    BY <2>4 DEF Lifecycle!Next
<1>4. QED
  BY <1>2, <1>3

LEMMA ClosingStepMaps ==
    ASSUME Consistent, Consistent',
           \/ CaptureClosed \/ LoopsCancelled \/ SocketClosed
           \/ TasksEnd \/ RenderClosed
    PROVE  [Lifecycle!Next]_<<Phase, Wanted, Holding>>
<1>1. op.pc \in StopPhases /\ legs' = legs
  BY DEF CaptureClosed, LoopsCancelled, SocketClosed, TasksEnd, RenderClosed,
     At, StopPhases
<1>2. Phase = "closing" /\ Wanted = op.mode /\ legs' = {}
  BY <1>1, PhaseOfCall, FreeCall
<1>3. PICK c \in Leg : c = Current /\ c \in op.todo /\ c \in op.mode
  BY <1>1, CurrentInTodo
<1>4. leg[c] \in LegType /\ ClosingLeg(c)
  BY <1>1, <1>3 DEF Consistent, TypeOK, LegInv
<1>5. Holding' \in SUBSET Holding
  <2>1. ASSUME CaptureClosed \/ LoopsCancelled
        PROVE  ~Bare(c) /\ \A k \in Leg \ {c} : leg'[k] = leg[k]
    BY <1>3, <1>4, <2>1
    DEF CaptureClosed, LoopsCancelled, At, ClosingLeg, Bare, Consistent, TypeOK
  <2>2. ASSUME SocketClosed
        PROVE  ~Bare(c) /\ \A k \in Leg \ {c} : leg'[k] = leg[k]
    BY <1>3, <1>4, <2>2
    DEF SocketClosed, At, ClosingLeg, Bare, Consistent, TypeOK
  <2>3. ASSUME TasksEnd \/ RenderClosed
        PROVE  \A k \in Leg : Bare(k) => Bare(k)'
    <3>1. CASE TasksEnd
      <4>1. leg' = TasksEnded
        BY <3>1 DEF TasksEnd
      <4>2. \A k \in Leg :
              /\ leg'[k].capture = leg[k].capture
              /\ leg'[k].session = leg[k].session
              /\ leg'[k].captureTask \in {leg[k].captureTask, "none"}
              /\ leg'[k].eventTask \in {leg[k].eventTask, "none"}
              /\ leg'[k].render \in {leg[k].render, "none"}
        BY <4>1 DEF TasksEnded, Consistent, TypeOK, LegType
      <4>3. QED
        BY <4>2 DEF Bare, NoTasks
    <3>2. CASE RenderClosed
      <4>1. leg' = [leg EXCEPT ![Current].render = "none"]
        BY <3>2 DEF RenderClosed
      <4>2. \A k \in Leg :
              /\ leg'[k].capture = leg[k].capture
              /\ leg'[k].session = leg[k].session
              /\ leg'[k].captureTask = leg[k].captureTask
              /\ leg'[k].eventTask = leg[k].eventTask
              /\ leg'[k].render \in {leg[k].render, "none"}
        BY <4>1 DEF Consistent, TypeOK, LegType
      <4>3. QED
        BY <4>2 DEF Bare, NoTasks
    <3>3. QED
      BY <2>3, <3>1, <3>2
  <2>4. \A k \in Leg : Bare(k) => Bare(k)'
    BY <2>1, <2>2, <2>3 DEF Bare, NoTasks
  <2>5. QED
    BY <2>4, HoldingIsNotBare
<1>6. CASE op' = Free
  <2>1. Phase' = "idle" /\ Wanted' = {}
    BY <1>2, <1>6, FreeCall DEF Phase, Wanted, Opening
  <2>2. Holding' = {}
    BY <1>2, <1>6, FreeCall, HoldingIsNotBare DEF Consistent, LegInv
  <2>3. Lifecycle!Finish
    BY <1>2, <2>1, <2>2 DEF Lifecycle!Finish, Wanted
  <2>4. QED
    BY <2>3 DEF Lifecycle!Next
<1>7. CASE op' # Free
  <2>1. op'.pc \in StopPhases /\ op'.mode = op.mode
    BY <1>7 DEF CaptureClosed, LoopsCancelled, SocketClosed, TasksEnd,
       RenderClosed, CloseRender, NextLeg, StopPhases, Consistent, TypeOK
  <2>2. Phase' = "closing" /\ Wanted' = op.mode
    BY <1>7, <2>1 DEF Phase, Wanted, StopPhases
  <2>3. Lifecycle!Release
    BY <1>2, <1>5, <2>2 DEF Lifecycle!Release, Wanted
  <2>4. QED
    BY <2>3 DEF Lifecycle!Next
<1>8. QED
  BY <1>6, <1>7

(* LiveTranslationController implements LiveLifecycle: every leg is held    *)
(* while a session is live, and a stop or a failed start leaves no helper,  *)
(* provider session or task of a _DirectLeg behind, whatever the tasks did  *)
(* between its awaits.                                                      *)
THEOREM Refinement == Spec => ImplementsLifecycle
<1>1. Init => Lifecycle!Init
  BY HoldingIsNotBare, FreeCall
  DEF Init, Lifecycle!Init, Phase, Wanted, Absent, Bare, NoTasks
<1>2. Consistent /\ Consistent' /\ [Next]_vars =>
        [Lifecycle!Next]_<<Phase, Wanted, Holding>>
  <2> SUFFICES ASSUME Consistent, Consistent', [Next]_vars
               PROVE  [Lifecycle!Next]_<<Phase, Wanted, Holding>>
    OBVIOUS
  <2>1. CASE StopNothing \/ Stop
    BY <2>1, StopStepMaps
  <2>2. CASE \/ Start \/ RoutingInvalid \/ RoutingValid
             \/ CaptureOpens \/ CaptureFails \/ SessionOpens \/ SessionFails
    BY <2>2, OpeningStepMaps
  <2>3. CASE \/ CaptureClosed \/ LoopsCancelled \/ SocketClosed
             \/ TasksEnd \/ RenderClosed
    BY <2>3, ClosingStepMaps
  <2>4. ASSUME NEW l \in Leg,
               \/ Receive(l) \/ ReceiveEnds(l) \/ SendFails(l)
               \/ CaptureEnds(l) \/ CaptureRaises(l) \/ EventTask(l)
        PROVE  [Lifecycle!Next]_<<Phase, Wanted, Holding>>
    BY <2>4, ProviderStep, TaskStep, LegStepMaps
  <2>5. CASE UNCHANGED vars
    BY <2>5 DEF vars, Phase, Wanted, Holding
  <2>6. QED
    BY <2>1, <2>2, <2>3, <2>4, <2>5 DEF Next, ControllerStep
<1>3. QED
  BY <1>1, <1>2, Invariance, PTL
  DEF Spec, ImplementsLifecycle, Lifecycle!Spec, Lifecycle!lifecycleVars

=============================================================================
