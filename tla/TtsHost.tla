------------------------------- MODULE TtsHost -------------------------------
(***************************************************************************)
(* The generic TTS worker process (runtime/workers/tts_host/server.py): a  *)
(* TtsDriverController with one driver, guarded by _runtime_lock (a thread *)
(* lock held for a whole utterance) and _switch_lock (an asyncio lock held *)
(* around loads and unloads), and the speech handler that streams PCM from *)
(* a producer thread through a bounded asyncio queue to the HTTP client.   *)
(* Req is a set of request slots; a slot that has finished is used again.  *)
(***************************************************************************)
EXTENDS Naturals, Sequences

CONSTANTS Req,        \* slots of concurrent requests
          NoReq,
          Model,      \* model ids of the host's manifest catalog
          NoModel,    \* no driver
          Proxied,    \* models the supervisor loads with an endpoint override
          QueueMax,   \* capacity of the speech queue (12 in the code)
          MaxChunks   \* bound: PCM chunks of one utterance

ASSUME HostAssumption ==
    /\ NoReq \notin Req
    /\ NoModel \notin Model
    /\ Proxied \subseteq Model
    /\ QueueMax \in Nat \ {0}
    /\ MaxChunks \in Nat

VARIABLES driver,       \* the model of _driver and _manifest
          options,      \* whose endpoint _runtime_driver_options holds
          switchOwner,  \* holder of _switch_lock
          runtimeOwner, \* producer that holds _runtime_lock for an utterance
          request,      \* the request in each slot
          handler,      \* where its aiohttp handler is
          producer,     \* where its producer thread is
          queue,        \* its speech queue
          produced,     \* PCM chunks its driver has yielded
          sent,         \* PCM chunks its handler has written
          gone,         \* slots whose client has disconnected
          result        \* how the last stream of the slot ended

driverVars  == <<driver, options>>
lockVars    == <<switchOwner, runtimeOwner>>
streamVars  == <<producer, queue, produced, sent, gone, result>>
vars == <<driver, options, switchOwner, runtimeOwner, request, handler,
          producer, queue, produced, sent, gone, result>>

NoRequest == [kind |-> "none", model |-> NoModel, chunks |-> 0]

\* A speech request is an utterance of the given model for which the driver
\* yields that many chunks; with the format wav it is answered in one piece.
Request ==
    [kind : {"load", "unload", "wav"}, model : Model, chunks : {0}]
      \cup [kind : {"speech"}, model : Model, chunks : 0..MaxChunks]

Init ==
    /\ driver = NoModel
    /\ options = NoModel
    /\ switchOwner = NoReq
    /\ runtimeOwner = NoReq
    /\ request = [r \in Req |-> NoRequest]
    /\ handler = [r \in Req |-> "idle"]
    /\ producer = [r \in Req |-> "none"]
    /\ queue = [r \in Req |-> <<>>]
    /\ produced = [r \in Req |-> 0]
    /\ sent = [r \in Req |-> 0]
    /\ gone = {}
    /\ result = [r \in Req |-> "none"]

-----------------------------------------------------------------------------
(* _load_blocking, run with _runtime_lock held and nobody else's decision   *)
(* in between: one step.                                                    *)

\* No override and another model: {}.  No override and the same model: the
\* options it was loaded with.
OptionsFor(m, override) ==
    IF override.given THEN override.of
    ELSE IF driver = m THEN options ELSE NoModel

\* The old driver is unloaded unless it already serves the same model with the
\* same options; the new one may fail to load, which leaves no driver.
LoadBlocking(m, override, ok) ==
    LET opts == OptionsFor(m, override)
    IN  \/ /\ ok
           /\ driver' = m
           /\ options' = opts
        \/ /\ ~ok
           /\ driver' = NoModel
           /\ options' = NoModel

NoOverride == [given |-> FALSE, of |-> NoModel]

\* POST /load carries driver_options_override only for a model with a backend.
SupervisorOverride(m) ==
    IF m \in Proxied THEN [given |-> TRUE, of |-> m] ELSE NoOverride

-----------------------------------------------------------------------------
(* The handlers of /load, /unload and the load at the head of               *)
(* /v1/audio/speech: _switch_lock, then a thread that needs _runtime_lock.  *)

Arrive(r) ==
    /\ handler[r] = "idle"
    /\ producer[r] \in {"none", "stopped"}
    /\ \E q \in Request : request' = [request EXCEPT ![r] = q]
    /\ handler' = [handler EXCEPT ![r] = "switch"]
    /\ producer' = [producer EXCEPT ![r] = "none"]
    /\ queue' = [queue EXCEPT ![r] = <<>>]
    /\ produced' = [produced EXCEPT ![r] = 0]
    /\ sent' = [sent EXCEPT ![r] = 0]
    /\ gone' = gone \ {r}
    /\ result' = [result EXCEPT ![r] = "none"]
    /\ UNCHANGED <<driverVars, lockVars>>

TakeSwitchLock(r) ==
    /\ handler[r] = "switch"
    /\ switchOwner = NoReq
    /\ switchOwner' = r
    /\ handler' = [handler EXCEPT ![r] = "thread"]
    /\ UNCHANGED <<driverVars, runtimeOwner, request, streamVars>>

FinishHandler(r, h) ==
    /\ switchOwner' = NoReq
    /\ handler' = [handler EXCEPT ![r] = h]

\* The thread of load() runs; a speech request goes on to stream.
RunLoad(r) ==
    /\ handler[r] = "thread"
    /\ request[r].kind = "load"
    /\ runtimeOwner = NoReq
    /\ \E ok \in BOOLEAN :
         LoadBlocking(request[r].model, SupervisorOverride(request[r].model), ok)
    /\ FinishHandler(r, "idle")
    /\ UNCHANGED <<runtimeOwner, request, streamVars>>

\* unload() ignores a request that names another model.
RunUnload(r) ==
    /\ handler[r] = "thread"
    /\ request[r].kind = "unload"
    /\ runtimeOwner = NoReq
    /\ IF driver = request[r].model
         THEN driver' = NoModel /\ options' = NoModel
         ELSE UNCHANGED driverVars
    /\ FinishHandler(r, "idle")
    /\ UNCHANGED <<runtimeOwner, request, streamVars>>

\* A speech request first loads its model, without override.  When that fails,
\* or the language or voice does not suit the model that was loaded, the answer
\* is HTTP 400; otherwise the producer thread is started.
RunSpeechLoad(r) ==
    /\ handler[r] = "thread"
    /\ request[r].kind \in {"speech", "wav"}
    /\ runtimeOwner = NoReq
    /\ \/ /\ LoadBlocking(request[r].model, NoOverride, TRUE)
          /\ FinishHandler(r, "stream")
          /\ producer' = [producer EXCEPT ![r] = "lock"]
          /\ UNCHANGED result
       \/ /\ \E ok \in BOOLEAN : LoadBlocking(request[r].model, NoOverride, ok)
          /\ FinishHandler(r, "idle")
          /\ result' = [result EXCEPT ![r] = "failed"]
          /\ UNCHANGED producer
    /\ UNCHANGED <<runtimeOwner, request, queue, produced, sent, gone>>

-----------------------------------------------------------------------------
(* produce(): the producer thread of a speech request.                      *)

\* Without the check of the driver after the lock was acquired.
TakeRuntimeLock_Unchecked(r) ==
    /\ producer[r] = "lock"
    /\ runtimeOwner = NoReq
    /\ driver # NoModel
    /\ runtimeOwner' = r
    /\ producer' = [producer EXCEPT ![r] = "generate"]
    /\ UNCHANGED <<driverVars, switchOwner, request, handler, queue, produced,
                   sent, gone, result>>

\* pcm_iterator takes the lock for the whole utterance and
\* _ensure_loaded_under_runtime_lock reloads the model, with the options the
\* host holds at that moment, when another request has replaced it (or its
\* driver is unhealthy).
TakeRuntimeLock(r) ==
    /\ producer[r] = "lock"
    /\ runtimeOwner = NoReq
    /\ LET current == [given |-> TRUE, of |-> options]
       IN  \/ /\ \/ driver = request[r].model /\ UNCHANGED driverVars
                 \/ LoadBlocking(request[r].model, current, TRUE)
              /\ runtimeOwner' = r
              /\ producer' = [producer EXCEPT ![r] = "generate"]
           \/ /\ LoadBlocking(request[r].model, current, FALSE)
              /\ producer' = [producer EXCEPT ![r] = "putError"]
              /\ UNCHANGED runtimeOwner
    /\ UNCHANGED <<switchOwner, request, handler, queue, produced, sent, gone,
                   result>>

\* The chunk is dropped when the queue is full.
Produce_Lossy(r) ==
    /\ producer[r] = "generate"
    /\ produced[r] < request[r].chunks
    /\ queue' = IF Len(queue[r]) < QueueMax
                  THEN [queue EXCEPT ![r] = Append(@, "pcm")] ELSE queue
    /\ produced' = [produced EXCEPT ![r] = @ + 1]
    /\ UNCHANGED <<driverVars, lockVars, request, handler, producer, sent,
                   gone, result>>

\* The driver yields a chunk; queue.put(...).result() blocks the thread, with
\* the lock held, as long as the queue is full.
Produce(r) ==
    /\ producer[r] = "generate"
    /\ produced[r] < request[r].chunks
    /\ Len(queue[r]) < QueueMax
    /\ queue' = [queue EXCEPT ![r] = Append(@, "pcm")]
    /\ produced' = [produced EXCEPT ![r] = @ + 1]
    /\ UNCHANGED <<driverVars, lockVars, request, handler, producer, sent,
                   gone, result>>

\* The lock is not given back when the driver raises.
EndUtterance_ErrorKeepsLock(r) ==
    /\ producer[r] = "generate"
    /\ request[r].kind = "speech"
    /\ \/ /\ produced[r] = request[r].chunks
          /\ producer' = [producer EXCEPT ![r] = "putDone"]
          /\ runtimeOwner' = NoReq
       \/ /\ Len(queue[r]) < QueueMax
          /\ producer' = [producer EXCEPT ![r] = "putError"]
          /\ UNCHANGED runtimeOwner
    /\ UNCHANGED <<driverVars, switchOwner, request, handler, queue, produced,
                   sent, gone, result>>

\* The generator is exhausted or raises, which gives the lock back.
EndUtterance(r) ==
    /\ producer[r] = "generate"
    /\ request[r].kind = "speech"
    /\ \/ /\ produced[r] = request[r].chunks
          /\ producer' = [producer EXCEPT ![r] = "putDone"]
       \/ /\ Len(queue[r]) < QueueMax       \* not blocked in put()
          /\ producer' = [producer EXCEPT ![r] = "putError"]
    /\ runtimeOwner' = NoReq
    /\ UNCHANGED <<driverVars, switchOwner, request, handler, queue, produced,
                   sent, gone, result>>

\* wav_bytes() returns the whole utterance or raises, and so does its handler.
EndWav(r) ==
    /\ request[r].kind = "wav"
    /\ \/ /\ producer[r] = "generate"
          /\ runtimeOwner' = NoReq
          /\ \E outcome \in {"complete", "failed"} :
               result' = [result EXCEPT ![r] = outcome]
       \/ /\ producer[r] = "putError"
          /\ result' = [result EXCEPT ![r] = "failed"]
          /\ UNCHANGED runtimeOwner
    /\ producer' = [producer EXCEPT ![r] = "stopped"]
    /\ handler' = [handler EXCEPT ![r] = "idle"]
    /\ UNCHANGED <<driverVars, switchOwner, request, queue, produced, sent,
                   gone>>

PutMarker(r) ==
    /\ producer[r] \in {"putDone", "putError"}
    /\ request[r].kind = "speech"
    /\ Len(queue[r]) < QueueMax
    /\ queue' = [queue EXCEPT ![r] =
                   Append(@, IF producer[r] = "putDone" THEN "done" ELSE "error")]
    /\ producer' = [producer EXCEPT ![r] = "stopped"]
    /\ UNCHANGED <<driverVars, lockVars, request, handler, produced, sent,
                   gone, result>>

-----------------------------------------------------------------------------
(* The consumer loop of the speech handler.                                 *)

EndStream(r, outcome) ==
    /\ handler' = [handler EXCEPT ![r] = "idle"]
    /\ result' = [result EXCEPT ![r] = outcome]
    /\ UNCHANGED <<driverVars, lockVars, request, producer, produced, gone>>

\* A chunk for a client that is still there.
WriteChunk(r) ==
    /\ handler[r] = "stream"
    /\ queue[r] # <<>> /\ Head(queue[r]) = "pcm"
    /\ r \notin gone
    /\ queue' = [queue EXCEPT ![r] = Tail(@)]
    /\ sent' = [sent EXCEPT ![r] = @ + 1]
    /\ UNCHANGED <<driverVars, lockVars, request, handler, producer, produced,
                   gone, result>>

\* write() raises: producer.cancel() cannot stop the thread, and nobody reads
\* the queue any more.
AbandonStream(r) ==
    /\ handler[r] = "stream"
    /\ queue[r] # <<>> /\ Head(queue[r]) = "pcm"
    /\ r \in gone
    /\ queue' = [queue EXCEPT ![r] = Tail(@)]
    /\ UNCHANGED sent
    /\ EndStream(r, "failed")

\* prepare() raises for a client that left before the first chunk.
PrepareFails(r) ==
    /\ handler[r] = "stream"
    /\ r \in gone
    /\ sent[r] = 0
    /\ UNCHANGED <<queue, sent>>
    /\ EndStream(r, "failed")

\* The end marker completes the response, unless there was no audio at all.
FinishStream(r) ==
    /\ handler[r] = "stream"
    /\ queue[r] # <<>> /\ Head(queue[r]) = "done"
    /\ queue' = [queue EXCEPT ![r] = Tail(@)]
    /\ UNCHANGED sent
    /\ EndStream(r, IF sent[r] = 0 \/ r \in gone THEN "failed" ELSE "complete")

FailStream(r) ==
    /\ handler[r] = "stream"
    /\ queue[r] # <<>> /\ Head(queue[r]) = "error"
    /\ queue' = [queue EXCEPT ![r] = Tail(@)]
    /\ UNCHANGED sent
    /\ EndStream(r, "failed")

\* The adapter times out, is cancelled, or stops reading.
Disconnect(r) ==
    /\ handler[r] = "stream"
    /\ request[r].kind = "speech"
    /\ gone' = gone \cup {r}
    /\ UNCHANGED <<driverVars, lockVars, request, handler, producer, queue,
                   produced, sent, result>>

-----------------------------------------------------------------------------

Handler(r) ==
    TakeSwitchLock(r) \/ RunLoad(r) \/ RunUnload(r) \/ RunSpeechLoad(r)

Producer(r) ==
    TakeRuntimeLock(r) \/ Produce(r) \/ EndUtterance(r) \/ EndWav(r)
      \/ PutMarker(r)

Consumer(r) ==
    WriteChunk(r) \/ AbandonStream(r) \/ PrepareFails(r) \/ FinishStream(r)
      \/ FailStream(r)

\* The supervisor terminates the process and launches another one.
Restart ==
    /\ driver' = NoModel
    /\ options' = NoModel
    /\ switchOwner' = NoReq
    /\ runtimeOwner' = NoReq
    /\ request' = [r \in Req |-> NoRequest]
    /\ handler' = [r \in Req |-> "idle"]
    /\ producer' = [r \in Req |-> "none"]
    /\ queue' = [r \in Req |-> <<>>]
    /\ produced' = [r \in Req |-> 0]
    /\ sent' = [r \in Req |-> 0]
    /\ gone' = {}
    /\ result' = [r \in Req |-> "none"]

Next ==
    \/ \E r \in Req :
         \/ Arrive(r) \/ Handler(r) \/ Producer(r) \/ Consumer(r)
         \/ Disconnect(r)
    \/ Restart

Spec == Init /\ [][Next]_vars

(* The host's event loop and threads keep running; clients come and go as   *)
(* they like, and no order among the waiters for a lock is assumed.         *)
FairSpec ==
    /\ Spec
    /\ \A r \in Req :
         WF_vars(Handler(r)) /\ WF_vars(Producer(r)) /\ WF_vars(Consumer(r))

-----------------------------------------------------------------------------
(* What is checked.                                                         *)

(* "The generic worker serializes a committed utterance against a model     *)
(* swap" (docs/xtts-romanian-low-vram.md): while a producer thread yields   *)
(* audio, it holds the lock alone and the driver is that of its model.      *)
UtteranceKeepsDriver ==
    \A r \in Req : producer[r] = "generate" =>
        runtimeOwner = r /\ driver = request[r].model

(* A response that ends without an error carries every chunk the driver     *)
(* yielded, and at least one, whatever the queue did in between.            *)
CompleteResponseIsWhole ==
    \A r \in Req : result[r] = "complete" /\ request[r].kind = "speech" =>
        sent[r] = request[r].chunks /\ sent[r] > 0

(* The one way to lose the lock: the handler has given up a stream whose    *)
(* producer waits for room in the queue.                                    *)
Wedged ==
    \E r \in Req :
        /\ producer[r] = "generate"
        /\ handler[r] = "idle"
        /\ Len(queue[r]) = QueueMax

(* An utterance gives _runtime_lock back, so that the next load, unload or  *)
(* utterance can go on, unless its client left while the queue was full.    *)
LockReturnsOrWedged ==
    \A r \in Req : (runtimeOwner = r) ~> (runtimeOwner # r \/ Wedged)

=============================================================================
