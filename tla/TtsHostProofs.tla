--------------------------- MODULE TtsHostProofs ---------------------------
(***************************************************************************)
(* Proofs about TtsHost, for any number of concurrent requests, any models *)
(* and backends, any length of an utterance and any capacity of the speech *)
(* queue.                                                                  *)
(***************************************************************************)
EXTENDS TtsHost, TLAPS

Handlers  == {"idle", "switch", "thread", "stream"}
Producers == {"none", "lock", "generate", "putDone", "putError", "stopped"}
Items     == {"pcm", "done", "error"}

TypeOK ==
    /\ driver \in Model \cup {NoModel}
    /\ options \in Model \cup {NoModel}
    /\ switchOwner \in Req \cup {NoReq}
    /\ runtimeOwner \in Req \cup {NoReq}
    /\ request \in [Req -> Request \cup {NoRequest}]
    /\ handler \in [Req -> Handlers]
    /\ producer \in [Req -> Producers]
    /\ queue \in [Req -> Seq(Items)]
    /\ produced \in [Req -> Nat]
    /\ sent \in [Req -> Nat]
    /\ gone \in SUBSET Req
    /\ result \in [Req -> {"none", "failed", "complete"}]

(* Both locks have one holder, and a producer holds _runtime_lock exactly   *)
(* while it yields audio.                                                   *)
LocksExclusive ==
    \A r \in Req :
        /\ handler[r] = "thread" <=> switchOwner = r
        /\ producer[r] = "generate" <=> runtimeOwner = r

(* A producer belongs to an utterance; it has not begun before the handler  *)
(* streams.                                                                 *)
ProducerStarted ==
    \A r \in Req :
        /\ handler[r] \in {"switch", "thread"} => producer[r] = "none"
        /\ handler[r] = "stream" => producer[r] # "none"
        /\ producer[r] # "none" => request[r].kind \in {"speech", "wav"}
        /\ producer[r] \in {"none", "lock"} =>
              produced[r] = 0 /\ sent[r] = 0 /\ queue[r] = <<>>

(* The queue holds audio, and at its end the marker of a producer that has  *)
(* stopped; only the whole utterance is marked done.                        *)
QueueShape ==
    \A r \in Req :
        /\ \A i \in 1 .. Len(queue[r]) :
              i < Len(queue[r]) \/ producer[r] # "stopped" => queue[r][i] = "pcm"
        /\ producer[r] = "putDone" => produced[r] = request[r].chunks
        /\ handler[r] = "stream" /\ producer[r] = "stopped" =>
              /\ Len(queue[r]) > 0
              /\ queue[r][Len(queue[r])] # "pcm"
              /\ queue[r][Len(queue[r])] = "done" =>
                    produced[r] = request[r].chunks

(* While a handler streams, what its driver has yielded is sent or queued.  *)
Accounted(r) ==
    handler[r] = "stream" =>
        sent[r] + Len(queue[r])
          = IF producer[r] = "stopped" THEN produced[r] + 1 ELSE produced[r]

ChunksAccounted == \A r \in Req : Accounted(r)

(* An answer is complete only when its handler has returned.                *)
CompleteIsOver == \A r \in Req : result[r] = "complete" => handler[r] = "idle"

IInv ==
    /\ TypeOK
    /\ LocksExclusive /\ UtteranceKeepsDriver
    /\ ProducerStarted /\ QueueShape /\ ChunksAccounted
    /\ CompleteIsOver /\ CompleteResponseIsWhole

-----------------------------------------------------------------------------
(* Type correctness.                                                        *)

LEMMA TypeInit == Init => TypeOK
  BY HostAssumption DEF Init, TypeOK, Handlers, Producers, NoRequest

LEMMA RequestType ==
  ASSUME NEW q \in Request \cup {NoRequest}
  PROVE  q.model \in Model \cup {NoModel} /\ q.chunks \in Nat
  BY HostAssumption DEF Request, NoRequest

LEMMA NonEmptyQueue ==
  ASSUME NEW q \in Seq(Items), q # <<>>
  PROVE  Len(q) \in Nat /\ Len(q) > 0
  OBVIOUS

LEMMA TypeStep == TypeOK /\ [Next]_vars => TypeOK'
<1> SUFFICES ASSUME TypeOK, [Next]_vars PROVE TypeOK'
  OBVIOUS
<1> USE HostAssumption, RequestType
    DEF TypeOK, Handlers, Producers, Items, driverVars, lockVars, streamVars
<1>1. ASSUME NEW r \in Req, Arrive(r) PROVE TypeOK'
  BY <1>1 DEF Arrive
<1>2. ASSUME NEW r \in Req, TakeSwitchLock(r) PROVE TypeOK'
  BY <1>2 DEF TakeSwitchLock
<1>3. ASSUME NEW r \in Req, RunLoad(r) PROVE TypeOK'
  <2>1. driver' \in Model \cup {NoModel} /\ options' \in Model \cup {NoModel}
    BY <1>3 DEF RunLoad, LoadBlocking, OptionsFor, SupervisorOverride, NoOverride
  <2>2. QED
    BY <1>3, <2>1 DEF RunLoad, FinishHandler
<1>4. ASSUME NEW r \in Req, RunUnload(r) PROVE TypeOK'
  BY <1>4 DEF RunUnload, FinishHandler
<1>5. ASSUME NEW r \in Req, RunSpeechLoad(r) PROVE TypeOK'
  BY <1>5 DEF RunSpeechLoad, LoadBlocking, OptionsFor, NoOverride, FinishHandler
<1>6. ASSUME NEW r \in Req, TakeRuntimeLock(r) PROVE TypeOK'
  BY <1>6 DEF TakeRuntimeLock, LoadBlocking, OptionsFor
<1>7. ASSUME NEW r \in Req, Produce(r) PROVE TypeOK'
  BY <1>7 DEF Produce
<1>8. ASSUME NEW r \in Req, EndUtterance(r) PROVE TypeOK'
  BY <1>8 DEF EndUtterance
<1>9. ASSUME NEW r \in Req, EndWav(r) PROVE TypeOK'
  BY <1>9 DEF EndWav
<1>10. ASSUME NEW r \in Req, PutMarker(r) PROVE TypeOK'
  BY <1>10 DEF PutMarker
<1>11. ASSUME NEW r \in Req, WriteChunk(r) PROVE TypeOK'
  BY <1>11 DEF WriteChunk
<1>12. ASSUME NEW r \in Req, AbandonStream(r) PROVE TypeOK'
  BY <1>12 DEF AbandonStream, EndStream
<1>13. ASSUME NEW r \in Req, PrepareFails(r) PROVE TypeOK'
  BY <1>13 DEF PrepareFails, EndStream
<1>14. ASSUME NEW r \in Req, FinishStream(r) PROVE TypeOK'
  BY <1>14 DEF FinishStream, EndStream
<1>15. ASSUME NEW r \in Req, FailStream(r) PROVE TypeOK'
  BY <1>15 DEF FailStream, EndStream
<1>16. ASSUME NEW r \in Req, Disconnect(r) PROVE TypeOK'
  BY <1>16 DEF Disconnect
<1>17. CASE Restart
  BY <1>17 DEF Restart, NoRequest
<1>18. CASE UNCHANGED vars
  BY <1>18 DEF vars
<1>. QED
  BY <1>1, <1>2, <1>3, <1>4, <1>5, <1>6, <1>7, <1>8, <1>9, <1>10, <1>11, <1>12, <1>13,
     <1>14, <1>15, <1>16, <1>17, <1>18
  DEF Next, Handler, Producer, Consumer

(* The load at the head of an utterance starts its producer or ends it.     *)
StreamsOrFails(r) ==
    /\ handler[r] = "thread" /\ request[r].kind \in {"speech", "wav"}
    /\ runtimeOwner = NoReq /\ switchOwner' = NoReq
    /\ UNCHANGED <<runtimeOwner, request, queue, produced, sent, gone>>
    /\ \/ /\ handler' = [handler EXCEPT ![r] = "stream"]
          /\ producer' = [producer EXCEPT ![r] = "lock"]
          /\ UNCHANGED result
       \/ /\ handler' = [handler EXCEPT ![r] = "idle"]
          /\ result' = [result EXCEPT ![r] = "failed"]
          /\ UNCHANGED producer

LEMMA SpeechLoadEffect == ASSUME NEW r \in Req, RunSpeechLoad(r) PROVE StreamsOrFails(r)
  BY DEF RunSpeechLoad, FinishHandler, StreamsOrFails

-----------------------------------------------------------------------------
(* The locks.                                                               *)

LEMMA LocksStep ==
  TypeOK /\ TypeOK' /\ ProducerStarted /\ LocksExclusive /\ UtteranceKeepsDriver /\ [Next]_vars
    => LocksExclusive' /\ UtteranceKeepsDriver'
<1> SUFFICES ASSUME TypeOK, TypeOK', ProducerStarted, LocksExclusive, UtteranceKeepsDriver,
                    [Next]_vars
             PROVE  LocksExclusive' /\ UtteranceKeepsDriver'
  OBVIOUS
<1> USE HostAssumption
    DEF TypeOK, Handlers, Producers, ProducerStarted, LocksExclusive, UtteranceKeepsDriver,
        driverVars,
        lockVars, streamVars
<1>1. ASSUME NEW r \in Req, Arrive(r) PROVE LocksExclusive' /\ UtteranceKeepsDriver'
  BY <1>1 DEF Arrive
<1>2. ASSUME NEW r \in Req, TakeSwitchLock(r) PROVE LocksExclusive' /\ UtteranceKeepsDriver'
  BY <1>2 DEF TakeSwitchLock
<1>3. ASSUME NEW r \in Req, RunLoad(r) PROVE LocksExclusive' /\ UtteranceKeepsDriver'
  BY <1>3 DEF RunLoad, LoadBlocking, OptionsFor, SupervisorOverride, FinishHandler
<1>4. ASSUME NEW r \in Req, RunUnload(r) PROVE LocksExclusive' /\ UtteranceKeepsDriver'
  BY <1>4 DEF RunUnload, FinishHandler
<1>5. ASSUME NEW r \in Req, RunSpeechLoad(r) PROVE LocksExclusive' /\ UtteranceKeepsDriver'
  <2>1. StreamsOrFails(r)
    BY <1>5, SpeechLoadEffect
  <2>2. \A s \in Req : producer'[s] # "generate"
    BY <2>1 DEF StreamsOrFails
  <2>3. switchOwner = r /\ \A s \in Req : handler'[s] # "thread"
    BY <2>1 DEF StreamsOrFails
  <2>4. LocksExclusive'
    BY <2>1, <2>2, <2>3 DEF StreamsOrFails
  <2>5. QED
    BY <2>2, <2>4
<1>6. ASSUME NEW r \in Req, TakeRuntimeLock(r) PROVE LocksExclusive' /\ UtteranceKeepsDriver'
  BY <1>6 DEF TakeRuntimeLock, LoadBlocking, OptionsFor
<1>7. ASSUME NEW r \in Req, Produce(r) PROVE LocksExclusive' /\ UtteranceKeepsDriver'
  BY <1>7 DEF Produce
<1>8. ASSUME NEW r \in Req, EndUtterance(r) PROVE LocksExclusive' /\ UtteranceKeepsDriver'
  <2>1. PICK pc \in {"putDone", "putError"} : producer' = [producer EXCEPT ![r] = pc]
    BY <1>8 DEF EndUtterance
  <2>2. \A s \in Req : producer'[s] # "generate"
    BY <1>8, <2>1 DEF EndUtterance
  <2>3. QED
    BY <1>8, <2>2 DEF EndUtterance
<1>9. ASSUME NEW r \in Req, EndWav(r) PROVE LocksExclusive' /\ UtteranceKeepsDriver'
  BY <1>9 DEF EndWav
<1>10. ASSUME NEW r \in Req, PutMarker(r) PROVE LocksExclusive' /\ UtteranceKeepsDriver'
  BY <1>10 DEF PutMarker
<1>11. ASSUME NEW r \in Req, WriteChunk(r) PROVE LocksExclusive' /\ UtteranceKeepsDriver'
  BY <1>11 DEF WriteChunk
<1>12. ASSUME NEW r \in Req, AbandonStream(r) PROVE LocksExclusive' /\ UtteranceKeepsDriver'
  BY <1>12 DEF AbandonStream, EndStream
<1>13. ASSUME NEW r \in Req, PrepareFails(r) PROVE LocksExclusive' /\ UtteranceKeepsDriver'
  BY <1>13 DEF PrepareFails, EndStream
<1>14. ASSUME NEW r \in Req, FinishStream(r) PROVE LocksExclusive' /\ UtteranceKeepsDriver'
  <2>1. /\ handler[r] = "stream" /\ handler' = [handler EXCEPT ![r] = "idle"]
        /\ UNCHANGED <<driver, switchOwner, runtimeOwner, request, producer>>
    BY <1>14 DEF FinishStream, EndStream
  <2>2. QED
    BY <2>1
<1>15. ASSUME NEW r \in Req, FailStream(r) PROVE LocksExclusive' /\ UtteranceKeepsDriver'
  BY <1>15 DEF FailStream, EndStream
<1>16. ASSUME NEW r \in Req, Disconnect(r) PROVE LocksExclusive' /\ UtteranceKeepsDriver'
  BY <1>16 DEF Disconnect
<1>17. CASE Restart
  BY <1>17 DEF Restart, NoRequest
<1>18. CASE UNCHANGED vars
  BY <1>18 DEF vars
<1>. QED
  BY <1>1, <1>2, <1>3, <1>4, <1>5, <1>6, <1>7, <1>8, <1>9, <1>10, <1>11, <1>12, <1>13,
     <1>14, <1>15, <1>16, <1>17, <1>18
  DEF Next, Handler, Producer, Consumer

-----------------------------------------------------------------------------
(* The stream.                                                              *)

LEMMA StartedStep ==
  TypeOK /\ TypeOK' /\ LocksExclusive /\ ProducerStarted /\ [Next]_vars => ProducerStarted'
<1> SUFFICES ASSUME TypeOK, TypeOK', LocksExclusive, ProducerStarted, [Next]_vars
             PROVE  ProducerStarted'
  OBVIOUS
<1> USE HostAssumption
    DEF TypeOK, Handlers, Producers, ProducerStarted, LocksExclusive, driverVars, lockVars,
        streamVars
<1>1. ASSUME NEW r \in Req, Arrive(r) PROVE ProducerStarted'
  BY <1>1 DEF Arrive
<1>2. ASSUME NEW r \in Req, TakeSwitchLock(r) PROVE ProducerStarted'
  BY <1>2 DEF TakeSwitchLock
<1>3. ASSUME NEW r \in Req, RunLoad(r) PROVE ProducerStarted'
  BY <1>3 DEF RunLoad, LoadBlocking, OptionsFor, SupervisorOverride, FinishHandler
<1>4. ASSUME NEW r \in Req, RunUnload(r) PROVE ProducerStarted'
  BY <1>4 DEF RunUnload, FinishHandler
<1>5. ASSUME NEW r \in Req, RunSpeechLoad(r) PROVE ProducerStarted'
  <2>1. StreamsOrFails(r)
    BY <1>5, SpeechLoadEffect
  <2>2. QED
    BY <2>1 DEF StreamsOrFails
<1>6. ASSUME NEW r \in Req, TakeRuntimeLock(r) PROVE ProducerStarted'
  BY <1>6 DEF TakeRuntimeLock, LoadBlocking, OptionsFor
<1>7. ASSUME NEW r \in Req, Produce(r) PROVE ProducerStarted'
  BY <1>7 DEF Produce
<1>8. ASSUME NEW r \in Req, EndUtterance(r) PROVE ProducerStarted'
  BY <1>8 DEF EndUtterance
<1>9. ASSUME NEW r \in Req, EndWav(r) PROVE ProducerStarted'
  BY <1>9 DEF EndWav
<1>10. ASSUME NEW r \in Req, PutMarker(r) PROVE ProducerStarted'
  BY <1>10 DEF PutMarker
<1>11. ASSUME NEW r \in Req, WriteChunk(r) PROVE ProducerStarted'
  BY <1>11 DEF WriteChunk
<1>12. ASSUME NEW r \in Req, AbandonStream(r) PROVE ProducerStarted'
  BY <1>12 DEF AbandonStream, EndStream
<1>13. ASSUME NEW r \in Req, PrepareFails(r) PROVE ProducerStarted'
  BY <1>13 DEF PrepareFails, EndStream
<1>14. ASSUME NEW r \in Req, FinishStream(r) PROVE ProducerStarted'
  BY <1>14 DEF FinishStream, EndStream
<1>15. ASSUME NEW r \in Req, FailStream(r) PROVE ProducerStarted'
  BY <1>15 DEF FailStream, EndStream
<1>16. ASSUME NEW r \in Req, Disconnect(r) PROVE ProducerStarted'
  BY <1>16 DEF Disconnect
<1>17. CASE Restart
  BY <1>17 DEF Restart, NoRequest
<1>18. CASE UNCHANGED vars
  BY <1>18 DEF vars
<1>. QED
  BY <1>1, <1>2, <1>3, <1>4, <1>5, <1>6, <1>7, <1>8, <1>9, <1>10, <1>11, <1>12, <1>13,
     <1>14, <1>15, <1>16, <1>17, <1>18
  DEF Next, Handler, Producer, Consumer

LEMMA QueueStep ==
  TypeOK /\ TypeOK' /\ ProducerStarted /\ QueueShape /\ [Next]_vars => QueueShape'
<1> SUFFICES ASSUME TypeOK, TypeOK', ProducerStarted, QueueShape, [Next]_vars
             PROVE  QueueShape'
  OBVIOUS
<1> USE HostAssumption, RequestType
    DEF TypeOK, Handlers, Producers, Items, ProducerStarted, QueueShape, driverVars,
        lockVars, streamVars
<1>1. ASSUME NEW r \in Req, Arrive(r) PROVE QueueShape'
  BY <1>1 DEF Arrive
<1>2. ASSUME NEW r \in Req, TakeSwitchLock(r) PROVE QueueShape'
  BY <1>2 DEF TakeSwitchLock
<1>3. ASSUME NEW r \in Req, RunLoad(r) PROVE QueueShape'
  BY <1>3 DEF RunLoad, LoadBlocking, OptionsFor, SupervisorOverride, FinishHandler
<1>4. ASSUME NEW r \in Req, RunUnload(r) PROVE QueueShape'
  BY <1>4 DEF RunUnload, FinishHandler
<1>5. ASSUME NEW r \in Req, RunSpeechLoad(r) PROVE QueueShape'
  <2>1. StreamsOrFails(r)
    BY <1>5, SpeechLoadEffect
  <2>2. QED
    BY <2>1 DEF StreamsOrFails
<1>6. ASSUME NEW r \in Req, TakeRuntimeLock(r) PROVE QueueShape'
  BY <1>6 DEF TakeRuntimeLock, LoadBlocking, OptionsFor
<1>7. ASSUME NEW r \in Req, Produce(r) PROVE QueueShape'
  BY <1>7 DEF Produce
<1>8. ASSUME NEW r \in Req, EndUtterance(r) PROVE QueueShape'
  BY <1>8 DEF EndUtterance
<1>9. ASSUME NEW r \in Req, EndWav(r) PROVE QueueShape'
  BY <1>9 DEF EndWav
<1>10. ASSUME NEW r \in Req, PutMarker(r) PROVE QueueShape'
  BY <1>10 DEF PutMarker
<1>11. ASSUME NEW r \in Req, WriteChunk(r) PROVE QueueShape'
  BY <1>11 DEF WriteChunk
<1>12. ASSUME NEW r \in Req, AbandonStream(r) PROVE QueueShape'
  BY <1>12 DEF AbandonStream, EndStream
<1>13. ASSUME NEW r \in Req, PrepareFails(r) PROVE QueueShape'
  BY <1>13 DEF PrepareFails, EndStream
<1>14. ASSUME NEW r \in Req, FinishStream(r) PROVE QueueShape'
  BY <1>14 DEF FinishStream, EndStream
<1>15. ASSUME NEW r \in Req, FailStream(r) PROVE QueueShape'
  BY <1>15 DEF FailStream, EndStream
<1>16. ASSUME NEW r \in Req, Disconnect(r) PROVE QueueShape'
  BY <1>16 DEF Disconnect
<1>17. CASE Restart
  BY <1>17 DEF Restart, NoRequest
<1>18. CASE UNCHANGED vars
  BY <1>18 DEF vars
<1>. QED
  BY <1>1, <1>2, <1>3, <1>4, <1>5, <1>6, <1>7, <1>8, <1>9, <1>10, <1>11, <1>12, <1>13,
     <1>14, <1>15, <1>16, <1>17, <1>18
  DEF Next, Handler, Producer, Consumer

(* One slot's share of the stream invariants.                               *)
LEMMA AccountedSlot ==
  ASSUME TypeOK, ChunksAccounted, NEW r \in Req
  PROVE  /\ sent[r] \in Nat /\ produced[r] \in Nat /\ Len(queue[r]) \in Nat
         /\ handler[r] = "stream" /\ producer[r] # "stopped" =>
               sent[r] + Len(queue[r]) = produced[r]
         /\ handler[r] = "stream" /\ producer[r] = "stopped" =>
               sent[r] + Len(queue[r]) = produced[r] + 1
  BY DEF TypeOK, ChunksAccounted, Accounted

(* Arithmetic, stated of numbers for the provers to use on lengths.         *)
LEMMA OneLeft == ASSUME NEW n \in Nat, ~(1 < n), n > 0 PROVE n = 1
  OBVIOUS
LEMMA SumGrows ==
  ASSUME NEW a \in Nat, NEW b \in Nat, NEW n \in Nat, NEW k \in Nat, a + n = b, k = n + 1
  PROVE  a + k = b + 1
  OBVIOUS
LEMMA SumOfOne ==
  ASSUME NEW a \in Nat, NEW b \in Nat, NEW n \in Nat, a + n = b + 1, n = 1
  PROVE  a = b
  OBVIOUS

LEMMA MarkerIsLast ==
  ASSUME TypeOK, QueueShape, NEW r \in Req, queue[r] # <<>>, queue[r][1] # "pcm"
  PROVE  producer[r] = "stopped" /\ Len(queue[r]) = 1
<1>1. queue[r] \in Seq(Items)
  BY DEF TypeOK
<1>2. Len(queue[r]) \in Nat /\ Len(queue[r]) > 0
  BY <1>1, NonEmptyQueue
<1>3. ~(1 < Len(queue[r])) /\ producer[r] = "stopped"
  BY <1>2 DEF QueueShape
<1>4. QED
  BY <1>2, <1>3, OneLeft

LEMMA AccountedStep ==
  TypeOK /\ TypeOK' /\ ProducerStarted /\ QueueShape /\ ChunksAccounted /\ [Next]_vars
      => ChunksAccounted'
<1> SUFFICES ASSUME TypeOK, TypeOK', ProducerStarted, QueueShape, ChunksAccounted, [Next]_vars
             PROVE  ChunksAccounted'
  OBVIOUS
<1> USE HostAssumption
    DEF TypeOK, Handlers, Producers, Items, ProducerStarted, QueueShape, ChunksAccounted,
        driverVars, lockVars, streamVars
<1>1. ASSUME NEW r \in Req, Arrive(r) PROVE ChunksAccounted'
  BY <1>1 DEF Accounted, Arrive
<1>2. ASSUME NEW r \in Req, TakeSwitchLock(r) PROVE ChunksAccounted'
  BY <1>2 DEF Accounted, TakeSwitchLock
<1>3. ASSUME NEW r \in Req, RunLoad(r) PROVE ChunksAccounted'
  BY <1>3 DEF Accounted, RunLoad, LoadBlocking, OptionsFor, SupervisorOverride, FinishHandler
<1>4. ASSUME NEW r \in Req, RunUnload(r) PROVE ChunksAccounted'
  BY <1>4 DEF Accounted, RunUnload, FinishHandler
<1>5. ASSUME NEW r \in Req, RunSpeechLoad(r) PROVE ChunksAccounted'
  <2>1. StreamsOrFails(r)
    BY <1>5, SpeechLoadEffect
  <2>2. QED
    BY <2>1 DEF StreamsOrFails, Accounted
<1>6. ASSUME NEW r \in Req, TakeRuntimeLock(r) PROVE ChunksAccounted'
  BY <1>6 DEF Accounted, TakeRuntimeLock, LoadBlocking, OptionsFor
<1>7. ASSUME NEW r \in Req, Produce(r) PROVE ChunksAccounted'
  <2>1. /\ Len(queue[r]) \in Nat /\ Len(queue'[r]) = Len(queue[r]) + 1
        /\ produced'[r] = produced[r] + 1
        /\ producer'[r] = "generate" /\ producer[r] = "generate" /\ UNCHANGED <<handler, sent>>
    BY <1>7 DEF Produce
  <2>2. \A s \in Req \ {r} : Accounted(s)'
    BY <1>7 DEF Produce, Accounted
  <2>3. handler[r] = "stream" => sent[r] + Len(queue'[r]) = produced[r] + 1
    <3>1. /\ sent[r] \in Nat /\ produced[r] \in Nat /\ Len(queue'[r]) \in Nat
          /\ handler[r] = "stream" => sent[r] + Len(queue[r]) = produced[r]
      BY <2>1, AccountedSlot
    <3>2. QED
      BY <2>1, <3>1, SumGrows
  <2>4. Accounted(r)'
    BY <2>1, <2>3 DEF Accounted
  <2>5. QED
    BY <2>2, <2>4
<1>8. ASSUME NEW r \in Req, EndUtterance(r) PROVE ChunksAccounted'
  BY <1>8 DEF Accounted, EndUtterance
<1>9. ASSUME NEW r \in Req, EndWav(r) PROVE ChunksAccounted'
  BY <1>9 DEF Accounted, EndWav
<1>10. ASSUME NEW r \in Req, PutMarker(r) PROVE ChunksAccounted'
  <2>1. /\ Len(queue[r]) \in Nat /\ Len(queue'[r]) = Len(queue[r]) + 1
        /\ producer[r] # "stopped" /\ producer'[r] = "stopped"
        /\ UNCHANGED <<handler, produced, sent>>
    BY <1>10 DEF PutMarker
  <2>2. \A s \in Req \ {r} : Accounted(s)'
    BY <1>10 DEF PutMarker, Accounted
  <2>3. handler[r] = "stream" => sent[r] + Len(queue'[r]) = produced[r] + 1
    <3>1. /\ sent[r] \in Nat /\ produced[r] \in Nat /\ Len(queue'[r]) \in Nat
          /\ handler[r] = "stream" => sent[r] + Len(queue[r]) = produced[r]
      BY <2>1, AccountedSlot
    <3>2. QED
      BY <2>1, <3>1, SumGrows
  <2>4. Accounted(r)'
    BY <2>1, <2>3 DEF Accounted
  <2>5. QED
    BY <2>2, <2>4
<1>11. ASSUME NEW r \in Req, WriteChunk(r) PROVE ChunksAccounted'
  BY <1>11 DEF Accounted, WriteChunk
<1>12. ASSUME NEW r \in Req, AbandonStream(r) PROVE ChunksAccounted'
  BY <1>12 DEF Accounted, AbandonStream, EndStream
<1>13. ASSUME NEW r \in Req, PrepareFails(r) PROVE ChunksAccounted'
  BY <1>13 DEF Accounted, PrepareFails, EndStream
<1>14. ASSUME NEW r \in Req, FinishStream(r) PROVE ChunksAccounted'
  BY <1>14 DEF Accounted, FinishStream, EndStream
<1>15. ASSUME NEW r \in Req, FailStream(r) PROVE ChunksAccounted'
  BY <1>15 DEF Accounted, FailStream, EndStream
<1>16. ASSUME NEW r \in Req, Disconnect(r) PROVE ChunksAccounted'
  BY <1>16 DEF Accounted, Disconnect
<1>17. CASE Restart
  BY <1>17 DEF Accounted, Restart, NoRequest
<1>18. CASE UNCHANGED vars
  BY <1>18 DEF Accounted, vars
<1>. QED
  BY <1>1, <1>2, <1>3, <1>4, <1>5, <1>6, <1>7, <1>8, <1>9, <1>10, <1>11, <1>12, <1>13,
     <1>14, <1>15, <1>16, <1>17, <1>18
  DEF Next, Handler, Producer, Consumer

LEMMA CompleteStep ==
  IInv /\ TypeOK' /\ [Next]_vars => CompleteIsOver' /\ CompleteResponseIsWhole'
<1> SUFFICES ASSUME IInv, TypeOK', [Next]_vars
             PROVE  CompleteIsOver' /\ CompleteResponseIsWhole'
  OBVIOUS
<1> USE HostAssumption
    DEF IInv, TypeOK, Handlers, Producers, Items, ProducerStarted, QueueShape, ChunksAccounted,
        CompleteIsOver, CompleteResponseIsWhole, driverVars, lockVars, streamVars
<1>1. ASSUME NEW r \in Req, Arrive(r) PROVE CompleteIsOver' /\ CompleteResponseIsWhole'
  BY <1>1 DEF Arrive
<1>2. ASSUME NEW r \in Req, TakeSwitchLock(r) PROVE CompleteIsOver' /\ CompleteResponseIsWhole'
  BY <1>2 DEF TakeSwitchLock
<1>3. ASSUME NEW r \in Req, RunLoad(r) PROVE CompleteIsOver' /\ CompleteResponseIsWhole'
  BY <1>3 DEF RunLoad, LoadBlocking, OptionsFor, SupervisorOverride, FinishHandler
<1>4. ASSUME NEW r \in Req, RunUnload(r) PROVE CompleteIsOver' /\ CompleteResponseIsWhole'
  BY <1>4 DEF RunUnload, FinishHandler
<1>5. ASSUME NEW r \in Req, RunSpeechLoad(r) PROVE CompleteIsOver' /\ CompleteResponseIsWhole'
  <2>1. StreamsOrFails(r)
    BY <1>5, SpeechLoadEffect
  <2>2. result[r] # "complete" /\ result'[r] # "complete"
    BY <2>1 DEF StreamsOrFails
  <2>3. \A s \in Req \ {r} : result'[s] = result[s] /\ handler'[s] = handler[s]
    BY <2>1 DEF StreamsOrFails
  <2>4. UNCHANGED <<request, sent>>
    BY <2>1 DEF StreamsOrFails
  <2>5. QED
    BY <2>2, <2>3, <2>4
<1>6. ASSUME NEW r \in Req, TakeRuntimeLock(r) PROVE CompleteIsOver' /\ CompleteResponseIsWhole'
  BY <1>6 DEF TakeRuntimeLock, LoadBlocking, OptionsFor
<1>7. ASSUME NEW r \in Req, Produce(r) PROVE CompleteIsOver' /\ CompleteResponseIsWhole'
  BY <1>7 DEF Produce
<1>8. ASSUME NEW r \in Req, EndUtterance(r) PROVE CompleteIsOver' /\ CompleteResponseIsWhole'
  BY <1>8 DEF EndUtterance
<1>9. ASSUME NEW r \in Req, EndWav(r) PROVE CompleteIsOver' /\ CompleteResponseIsWhole'
  BY <1>9 DEF EndWav
<1>10. ASSUME NEW r \in Req, PutMarker(r) PROVE CompleteIsOver' /\ CompleteResponseIsWhole'
  BY <1>10 DEF PutMarker
<1>11. ASSUME NEW r \in Req, WriteChunk(r) PROVE CompleteIsOver' /\ CompleteResponseIsWhole'
  BY <1>11 DEF WriteChunk
<1>12. ASSUME NEW r \in Req, AbandonStream(r) PROVE CompleteIsOver' /\ CompleteResponseIsWhole'
  BY <1>12 DEF AbandonStream, EndStream
<1>13. ASSUME NEW r \in Req, PrepareFails(r) PROVE CompleteIsOver' /\ CompleteResponseIsWhole'
  BY <1>13 DEF PrepareFails, EndStream
<1>14. ASSUME NEW r \in Req, FinishStream(r) PROVE CompleteIsOver' /\ CompleteResponseIsWhole'
  <2>1. PICK outcome \in {"failed", "complete"} :
              /\ outcome = "complete" => sent[r] # 0
              /\ result' = [result EXCEPT ![r] = outcome]
    BY <1>14 DEF FinishStream, EndStream
  <2>2. /\ handler[r] = "stream" /\ handler' = [handler EXCEPT ![r] = "idle"]
        /\ queue[r] # <<>> /\ queue[r][1] = "done"
        /\ UNCHANGED <<request, sent>>
    BY <1>14 DEF FinishStream, EndStream
  <2>3. producer[r] = "stopped" /\ Len(queue[r]) = 1
    BY <2>2, MarkerIsLast
  <2>4. sent[r] = request[r].chunks
    <3>1. /\ sent[r] \in Nat /\ produced[r] \in Nat
          /\ Len(queue[r]) \in Nat /\ sent[r] + Len(queue[r]) = produced[r] + 1
      BY <2>2, <2>3, AccountedSlot
    <3>2. sent[r] = produced[r]
      BY <2>3, <3>1, SumOfOne
    <3>3. queue[r][Len(queue[r])] = "done"
      BY <2>2, <2>3
    <3>4. produced[r] = request[r].chunks
      BY <2>2, <2>3, <3>3
    <3>5. QED
      BY <3>2, <3>4
  <2>5. outcome = "complete" => sent[r] > 0
    BY <2>1
  <2>6. \A s \in Req \ {r} : result'[s] = result[s] /\ handler'[s] = handler[s]
    BY <2>1, <2>2
  <2>7. CompleteIsOver'
    BY <2>2, <2>6
  <2>8. CompleteResponseIsWhole'
    BY <2>1, <2>2, <2>4, <2>5, <2>6
  <2>9. QED
    BY <2>7, <2>8
<1>15. ASSUME NEW r \in Req, FailStream(r) PROVE CompleteIsOver' /\ CompleteResponseIsWhole'
  BY <1>15 DEF FailStream, EndStream
<1>16. ASSUME NEW r \in Req, Disconnect(r) PROVE CompleteIsOver' /\ CompleteResponseIsWhole'
  BY <1>16 DEF Disconnect
<1>17. CASE Restart
  BY <1>17 DEF Restart, NoRequest
<1>18. CASE UNCHANGED vars
  BY <1>18 DEF vars
<1>. QED
  BY <1>1, <1>2, <1>3, <1>4, <1>5, <1>6, <1>7, <1>8, <1>9, <1>10, <1>11, <1>12, <1>13,
     <1>14, <1>15, <1>16, <1>17, <1>18
  DEF Next, Handler, Producer, Consumer

-----------------------------------------------------------------------------
(* The invariant and the theorems.                                          *)

LEMMA IInvInit == Init => IInv
<1> SUFFICES ASSUME Init PROVE IInv
  OBVIOUS
<1>1. TypeOK
  BY TypeInit
<1>2. QED
  BY <1>1, HostAssumption
  DEF Init, IInv, LocksExclusive, UtteranceKeepsDriver, ProducerStarted, QueueShape,
      ChunksAccounted, Accounted, CompleteIsOver, CompleteResponseIsWhole, NoRequest

LEMMA IInvStep == IInv /\ [Next]_vars => IInv'
  BY TypeStep, LocksStep, StartedStep, QueueStep, AccountedStep, CompleteStep DEF IInv

(* Every behaviour of the worker, restarts by its supervisor included,      *)
(* keeps the inductive invariant.                                           *)
THEOREM InvariantHolds == Spec => []IInv
  BY IInvInit, IInvStep, PTL DEF Spec

(* Every variable has its type in every reachable state.                    *)
THEOREM TypesHold == Spec => []TypeOK
<1>1. IInv => TypeOK
  BY DEF IInv
<1>2. QED
  BY <1>1, InvariantHolds, PTL

(* pcm_iterator holds _runtime_lock alone and with the driver of its model  *)
(* for a whole utterance: no load, unload or other utterance, however they  *)
(* interleave, replaces the driver under a producer that yields audio.      *)
THEOREM UtterancesKeepTheirDriver == Spec => []UtteranceKeepsDriver
<1>1. IInv => UtteranceKeepsDriver
  BY DEF IInv
<1>2. QED
  BY <1>1, InvariantHolds, PTL

(* A speech response that ends without an error has sent every chunk its    *)
(* driver yielded, for any capacity of the queue and any length of the      *)
(* utterance.                                                               *)
THEOREM CompleteResponsesAreWhole == Spec => []CompleteResponseIsWhole
<1>1. IInv => CompleteResponseIsWhole
  BY DEF IInv
<1>2. QED
  BY <1>1, InvariantHolds, PTL

=============================================================================
