--------------------------- MODULE LiveTranslation ---------------------------
(***************************************************************************)
(* A live direct translation: LiveTranslationController, its one or two    *)
(* _DirectLegs, the GeminiLiveTranslateSession of each leg with its bounded *)
(* event queue, and the native helpers that capture and render audio.      *)
(* The controller runs one start() or stop() at a time under its lock;     *)
(* between two of its awaits run the two tasks of every leg, the provider  *)
(* tasks of every session, and the helper processes.                       *)
(***************************************************************************)
EXTENDS Naturals, Sequences

CONSTANT EventCapacity   \* max_pending_events (256 in the code)

ASSUME LiveAssumption == EventCapacity \in Nat \ {0}

VARIABLES op,        \* the start or stop that holds the lock
          legs,      \* keys of _legs
          leg,       \* the _DirectLeg of each name and what belongs to it
          state,     \* _state, with the provider's states as one
          error      \* whether _error is set

vars == <<op, legs, leg, state, error>>

Leg == {"outbound", "inbound"}

\* The outbound leg is created, and closed, before the inbound one.
FirstOf(S) == IF "outbound" \in S THEN "outbound" ELSE "inbound"

Free == [pc |-> "free", mode |-> {}, todo |-> {}, undo |-> FALSE]

\* What passes through an event queue: states, interruptions, audio and errors
\* of the provider, and the end marker.  Texts change only captions.
Event == {"state", "flush", "audio", "error", "end"}

\* Nothing belongs to the leg.  A task that is over is one that is not there.
Absent ==
    [capture |-> "none", session |-> "none", receiver |-> "none",
     events |-> <<>>, captureTask |-> "none", eventTask |-> "none",
     render |-> "none"]

Init ==
    /\ op = Free
    /\ legs = {}
    /\ leg = [l \in Leg |-> Absent]
    /\ state = "stopped"
    /\ error = FALSE

At(pc) == op.pc = pc
Current == FirstOf(op.todo)

StopPhases ==
    {"capture_close", "stream_end", "socket_close", "tasks", "render_close"}

\* _stopping: stop() has begun with this leg, or is through with it.
Stopping(l) ==
    /\ op.pc \in StopPhases
    /\ l \in op.mode
    /\ l \in op.todo => l = Current

\* The tasks of the leg are cancelled and run no more code of their own.
Cancelled(l) == Stopping(l) /\ (At("tasks") \/ At("render_close"))

Report == state' = "failed" /\ error' = TRUE

-----------------------------------------------------------------------------
(* LiveTranslationController.start *)

Start ==
    /\ op = Free
    /\ legs = {}
    /\ \E mode \in (SUBSET Leg) \ {{}} :
         op' = [Free EXCEPT !.pc = "routing", !.mode = mode]
    /\ UNCHANGED <<legs, leg, state, error>>

RoutingInvalid ==
    /\ At("routing")
    /\ op' = Free
    /\ UNCHANGED <<legs, leg, state, error>>

RoutingValid ==
    /\ At("routing")
    /\ op' = [op EXCEPT !.pc = "capture", !.todo = op.mode]
    /\ state' = "opening"
    /\ error' = FALSE
    /\ UNCHANGED <<legs, leg>>

CaptureOpens ==
    /\ At("capture")
    /\ leg' = [leg EXCEPT ![Current] = [Absent EXCEPT !.capture = "open"]]
    /\ op' = [op EXCEPT !.pc = "session"]
    /\ UNCHANGED <<legs, state, error>>

\* Only the leg that failed is given up.
Undo_Dropped(created) == op' = Free /\ Report

\* The legs that were created are stopped in the order of their creation.
Undo(created) ==
    IF created = {}
      THEN op' = Free /\ Report
      ELSE /\ op' = [op EXCEPT !.pc = "capture_close", !.todo = created,
                               !.undo = TRUE]
           /\ UNCHANGED <<state, error>>

CaptureFails ==
    /\ At("capture")
    /\ Undo(op.mode \ op.todo)
    /\ UNCHANGED <<legs, leg>>

\* No _DirectLeg is made of the capture: nothing refers to its helper, which
\* is never closed.
SessionFails ==
    /\ At("session")
    /\ leg' = [leg EXCEPT ![Current].capture = "none"]
    /\ Undo(op.mode \ op.todo)
    /\ UNCHANGED legs

\* The session has emitted READY and started its two loops.  After the last
\* leg the tasks of all legs start in the same step: _DirectLeg.start awaits
\* nothing.
SessionOpens ==
    /\ At("session")
    /\ LET opened == [leg EXCEPT ![Current].session = "open",
                                 ![Current].receiver = "run",
                                 ![Current].events = <<"state">>]
           rest   == op.todo \ {Current}
       IN IF rest # {}
            THEN /\ leg' = opened
                 /\ op' = [op EXCEPT !.pc = "capture", !.todo = rest]
                 /\ UNCHANGED <<legs, state>>
            ELSE /\ leg' = [l \in Leg |->
                              IF l \in op.mode
                                THEN [opened[l] EXCEPT !.captureTask = "run",
                                                       !.eventTask = "wait"]
                                ELSE opened[l]]
                 /\ legs' = op.mode
                 /\ state' = "up"
                 /\ op' = Free
    /\ UNCHANGED error

-----------------------------------------------------------------------------
(* LiveTranslationController.stop, and _DirectLeg.stop for each leg *)

StopNothing ==
    /\ op = Free
    /\ legs = {}
    /\ state' = "stopped"
    /\ UNCHANGED <<op, legs, leg, error>>

Stop ==
    /\ op = Free
    /\ legs # {}
    /\ op' = [pc |-> "capture_close", mode |-> legs, todo |-> legs,
              undo |-> FALSE]
    /\ legs' = {}
    /\ state' = "closing"
    /\ UNCHANGED <<leg, error>>

CaptureClosed ==
    /\ At("capture_close")
    /\ leg' = [leg EXCEPT ![Current].capture = "none",
                          ![Current].session = "ending"]
    /\ op' = [op EXCEPT !.pc = "stream_end"]
    /\ UNCHANGED <<legs, state, error>>

\* audioStreamEnd is sent or refused; then the loops are cancelled and awaited.
LoopsCancelled ==
    /\ At("stream_end")
    /\ leg' = [leg EXCEPT ![Current].session = "closing",
                          ![Current].receiver = "none"]
    /\ op' = [op EXCEPT !.pc = "socket_close"]
    /\ UNCHANGED <<legs, state, error>>

\* _force_queue_marker: the oldest events make room for the end marker.
WithMarker(events) ==
    IF Len(events) < EventCapacity
      THEN Append(events, "end")
      ELSE Append(Tail(events), "end")

\* The marker waits for room instead of making it.
SocketClosed_WaitsForRoom ==
    /\ At("socket_close")
    /\ Len(leg[Current].events) < EventCapacity
    /\ leg' = [leg EXCEPT ![Current].session = "none",
                          ![Current].events = Append(@, "end")]
    /\ op' = [op EXCEPT !.pc = "tasks"]
    /\ UNCHANGED <<legs, state, error>>

\* A websocket that fails to close leaves the session without end markers,
\* but stop() goes on.  Then the tasks of the leg are cancelled.
SocketClosed ==
    /\ At("socket_close")
    /\ \E events \in {WithMarker(leg[Current].events), leg[Current].events} :
         leg' = [leg EXCEPT ![Current].session = "none",
                            ![Current].events = events]
    /\ op' = [op EXCEPT !.pc = "tasks"]
    /\ UNCHANGED <<legs, state, error>>

\* What is left when the cancelled tasks are done.  An open() of a render that
\* is cancelled after it has started the helper forgets it; a render that was
\* being closed exits at the end of its input.
TasksEnded ==
    [leg EXCEPT ![Current].captureTask = "none",
                ![Current].eventTask = "none",
                ![Current].events = <<>>,
                ![Current].render = IF @ = "closing" THEN "none" ELSE @]

\* The loop over the legs, and what follows it.
NextLeg ==
    LET rest == op.todo \ {Current}
    IN IF rest # {}
         THEN /\ op' = [op EXCEPT !.pc = "capture_close", !.todo = rest]
              /\ UNCHANGED <<state, error>>
         ELSE /\ op' = Free
              /\ IF op.undo
                   THEN Report
                   ELSE state' = "stopped" /\ UNCHANGED error

CloseRender ==
    IF leg[Current].render = "running"
      THEN op' = [op EXCEPT !.pc = "render_close"] /\ UNCHANGED <<state, error>>
      ELSE NextLeg

TasksEnd ==
    /\ At("tasks")
    /\ leg' = TasksEnded
    /\ CloseRender
    /\ UNCHANGED legs

RenderClosed ==
    /\ At("render_close")
    /\ leg' = [leg EXCEPT ![Current].render = "none"]
    /\ NextLeg
    /\ UNCHANGED legs

ControllerStep ==
    \/ RoutingInvalid \/ RoutingValid
    \/ CaptureOpens \/ CaptureFails
    \/ SessionOpens \/ SessionFails
    \/ CaptureClosed \/ LoopsCancelled \/ SocketClosed
    \/ TasksEnd \/ RenderClosed

-----------------------------------------------------------------------------
(* GeminiLiveTranslateSession: the provider side of a leg *)

HasRoom_OffByOne(l) == Len(leg[l].events) <= EventCapacity

HasRoom(l) == Len(leg[l].events) < EventCapacity

Emit(l, event) == Append(leg[l].events, event)

\* _receive_loop and _send_loop run until they are cancelled.
Looping(l) == leg[l].session \in {"open", "ending"}

\* What a provider message becomes: a state or turn end, an interruption, audio,
\* goAway.  A message with several of them is as many steps.
Mapped == Event \ {"end"}

Receive(l) ==
    /\ Looping(l)
    /\ leg[l].receiver = "run"
    /\ HasRoom(l)
    /\ \E event \in Mapped :
         leg' = [leg EXCEPT ![l].events = Emit(l, event)]
    /\ UNCHANGED <<op, legs, state, error>>

\* The end of the stream is not told.
ReceiverFails_Silently(l) == leg' = [leg EXCEPT ![l].receiver = "failed"]

\* _emit_provider_error swallows the refusal of a full queue.
ReceiverFails(l) ==
    IF HasRoom(l)
      THEN leg' = [leg EXCEPT ![l].receiver = "failed",
                              ![l].events = Emit(l, "error")]
      ELSE leg' = [leg EXCEPT ![l].receiver = "muted"]

\* The websocket ends or breaks, or emit() raises for a full queue.
ReceiveEnds(l) ==
    /\ Looping(l)
    /\ leg[l].receiver = "run"
    /\ IF leg[l].session = "ending"
         THEN leg' = [leg EXCEPT ![l].receiver = "none"]
         ELSE ReceiverFails(l)
    /\ UNCHANGED <<op, legs, state, error>>

\* The send loop ends; what that does to the audio queue is left to
\* CaptureRaises.  A full queue swallows this error too.
SendFails(l) ==
    /\ Looping(l)
    /\ HasRoom(l)
    /\ leg' = [leg EXCEPT ![l].events = Emit(l, "error")]
    /\ UNCHANGED <<op, legs, state, error>>

-----------------------------------------------------------------------------
(* _DirectLeg._capture_loop *)

Capturing(l) == leg[l].captureTask = "run" /\ ~Cancelled(l)

\* The first frame after stop() has begun ends the loop, and so does a helper
\* that exits between two frames.  A frame that is pushed changes nothing here.
CaptureEnds(l) ==
    /\ Capturing(l)
    /\ leg' = [leg EXCEPT ![l].captureTask = "none"]
    /\ UNCHANGED <<op, legs, state, error>>

\* The audio queue is full, or a frame is malformed or, after the helper has
\* exited or was terminated, cut off.
CaptureRaises(l) ==
    /\ Capturing(l)
    /\ leg' = [leg EXCEPT ![l].captureTask = "none"]
    /\ Report
    /\ UNCHANGED <<op, legs>>

-----------------------------------------------------------------------------
(* _DirectLeg._event_loop *)

Handling(l, pc) == leg[l].eventTask = pc /\ ~Cancelled(l)

\* Where the event task goes with an event, and the render it leaves.
EventTaskAfter(l, event) ==
    CASE event = "end" \/ Stopping(l) -> "none"
      [] event = "audio" /\ leg[l].render = "none" -> "opening"
      [] event = "audio" /\ leg[l].render # "none" -> "writing"
      [] event = "flush" /\ leg[l].render # "none" -> "resetting"
      [] OTHER -> "wait"

\* Error events are taken for granted.
OnEvent_NoErrors(l, event) ==
    /\ state' = IF event \in {"state", "flush"} THEN "up" ELSE state
    /\ UNCHANGED error

\* state_callback, LiveTranslationController._on_event: provider errors are
\* recoverable and leave _state alone.
OnEvent(l, event) ==
    IF event = "end" \/ Stopping(l)
      THEN UNCHANGED <<state, error>>
      ELSE /\ state' = IF event \in {"state", "flush"} THEN "up" ELSE state
           /\ error' = (error \/ event = "error")

TakeEvent(l) ==
    /\ Handling(l, "wait")
    /\ leg[l].events # <<>>
    /\ LET event == Head(leg[l].events)
           next  == EventTaskAfter(l, event)
       IN /\ OnEvent(l, event)
          /\ leg' = [leg EXCEPT ![l].events = Tail(@),
                                ![l].eventTask = next,
                                ![l].render = IF next = "resetting"
                                                THEN "closing" ELSE @]
    /\ UNCHANGED <<op, legs>>

RenderOpens(l) ==
    /\ Handling(l, "opening")
    /\ leg' = [leg EXCEPT ![l].render = "running", ![l].eventTask = "writing"]
    /\ UNCHANGED <<op, legs, state, error>>

Written(l) ==
    /\ Handling(l, "writing")
    /\ leg' = [leg EXCEPT ![l].eventTask = "wait"]
    /\ UNCHANGED <<op, legs, state, error>>

\* The render helper is missing, fails to start, or has exited.
RenderRaises(l) ==
    /\ Handling(l, "opening") \/ Handling(l, "writing")
    /\ leg' = [leg EXCEPT ![l].eventTask = "none"]
    /\ Report
    /\ UNCHANGED <<op, legs>>

\* _reset_render
RenderReset(l) ==
    /\ Handling(l, "resetting")
    /\ leg' = [leg EXCEPT ![l].render = "none", ![l].eventTask = "wait"]
    /\ UNCHANGED <<op, legs, state, error>>

EventTask(l) ==
    TakeEvent(l) \/ RenderOpens(l) \/ Written(l) \/ RenderRaises(l)
      \/ RenderReset(l)

Next ==
    \/ Start \/ StopNothing \/ Stop
    \/ ControllerStep
    \/ \E l \in Leg :
         \/ Receive(l) \/ ReceiveEnds(l) \/ SendFails(l)
         \/ CaptureEnds(l) \/ CaptureRaises(l)
         \/ EventTask(l)

Spec == Init /\ [][Next]_vars

\* Every await of a start or stop is an exchange with a provider or a helper
\* that ends by itself or by a timeout.  The event task waits for the render
\* helper, which is assumed to consume what it is sent or to exit.
Fairness ==
    /\ WF_vars(ControllerStep)
    /\ \A l \in Leg : WF_vars(EventTask(l))

FairSpec == Spec /\ Fairness

-----------------------------------------------------------------------------
(* Properties *)

LegType ==
    [capture : {"none", "open"},
     session : {"none", "open", "ending", "closing"},
     receiver : {"none", "run", "failed", "muted"},
     events : Seq(Event),
     captureTask : {"none", "run"},
     eventTask : {"none", "wait", "opening", "writing", "resetting"},
     render : {"none", "running", "closing"}]

\* Every variable has its type, and the event queue keeps its bound (the
\* queues of BufferedSpeechTranslationSession).
TypeOK ==
    /\ op \in [pc : {"free", "routing", "capture", "session"} \cup StopPhases,
               mode : SUBSET Leg, todo : SUBSET Leg, undo : BOOLEAN]
    /\ legs \in SUBSET Leg
    /\ leg \in [Leg -> LegType]
    /\ \A l \in Leg : Len(leg[l].events) <= EventCapacity
    /\ state \in {"stopped", "opening", "up", "closing", "failed"}
    /\ error \in BOOLEAN

ErrorQueued(l) == \E i \in DOMAIN leg[l].events : leg[l].events[i] = "error"

\* When the provider has ended the stream of a registered leg, the status
\* shows an error or will: the error event is queued, unless the full queue
\* refused it (_receive_loop, _emit_provider_error, the event task).
StreamEndIsReported ==
    \A l \in legs : leg[l].receiver = "failed" => error \/ ErrorQueued(l)

\* With no session and no call running, nothing but the next call changes the
\* status: no callback of a stopped leg arrives late (stop() awaits the tasks
\* it has cancelled).
IdleStatusIsStable ==
    [][op = Free /\ legs = {} =>
         /\ state' = state \/ StopNothing
         /\ error' = error]_vars

\* The legs that hold a helper, a provider session or a running task.
Holding ==
    {l \in Leg :
       \/ leg[l].capture # "none"
       \/ leg[l].session # "none"
       \/ leg[l].captureTask # "none"
       \/ leg[l].eventTask # "none"
       \/ leg[l].render # "none"}

Phase ==
    CASE op = Free -> IF legs = {} THEN "idle" ELSE "live"
      [] op.pc \in {"routing", "capture", "session"} -> "opening"
      [] OTHER -> "closing"

Wanted == IF op = Free THEN legs ELSE op.mode

Lifecycle == INSTANCE LiveLifecycle
    WITH phase <- Phase, wanted <- Wanted, held <- Holding

\* The controller implements LiveLifecycle: every leg is open while a session
\* is live, and neither a stop nor a failed start leaves a helper, a provider
\* session or a task of a _DirectLeg behind.
ImplementsLifecycle == Lifecycle!Spec

\* Every start and stop returns.
CallsReturn == (op # Free) ~> (op = Free)

\* An error event that the provider side of a registered leg has queued
\* reaches the status while the leg is registered: a flush, a slow or a failed
\* render does not keep it from the callback.
ErrorsReachStatus ==
    \A l \in Leg :
      (l \in legs /\ ErrorQueued(l)) ~> (error \/ l \notin legs)

=============================================================================
