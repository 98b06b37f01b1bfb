----------------------------- MODULE PipelineProofs -----------------------------
(***************************************************************************)
(* Proofs about the translation pipelines.                                  *)
(*                                                                         *)
(* The first half is about Conversation: what holds of the orchestrator's   *)
(* pipelines, of the chunks of speech and of the recognisers' shared model  *)
(* as long as calls do not overlap, for any number of callers, phrases,     *)
(* chunks and starts, with loads that raise, calls that are cancelled and a *)
(* watchdog that is stopped at any await.                                   *)
(*                                                                         *)
(* The second half is about SpeechStream, which shares nothing with the     *)
(* first: what the PhraseCommitter does with texts of any length, and that  *)
(* the words of a direction reach translation once and in order, however    *)
(* partial decodes, endpoints and the event loop interleave and whichever   *)
(* decodes raise, if no utterance is longer than the audio the recogniser   *)
(* keeps.  The argument: what is on its way to translation is a chain, from *)
(* the committer's open utterance over the queued results to the decode     *)
(* under way, in which each link says the words its utterance begins with   *)
(* and the next link goes on with the same utterance or where it ends.      *)
(***************************************************************************)
EXTENDS Conversation, SpeechStream, SequenceTheorems, FiniteSetTheorems,
        WellFoundedInduction, TLAPS

Loads == {"load_en", "load_ro", "load_mt"}
Halts == {"halt", "last_halt"}
Stops == {"close_stream", "unload"} \cup Halts

Calls == [pc : {"none"} \cup Loads \cup Stops, set : BOOLEAN, mode : Mode, of : Nat]
Pipelines == [synth : BOOLEAN, running : BOOLEAN]
Tasks == [pc : {"none", "created", "loading", "translating", "speaking", "done"},
          of : Nat, chunks : Nat]
ChunkRecords == [phrase : 1 .. Phrases, run : Nat]

Types ==
    /\ active \in BOOLEAN /\ mode \in Mode
    /\ current \in Nat /\ current <= Len(pipeline)
    /\ asr \in [Ear -> [loaded : BOOLEAN, holds : BOOLEAN]]
    /\ refs \in Nat
    /\ mt \in BOOLEAN /\ voice \in BOOLEAN
    /\ op \in [Caller -> Calls]
    /\ pipeline \in Seq(Pipelines)
    /\ phrase \in [1 .. Phrases -> Tasks]
    /\ engine \in [running : BOOLEAN, consumer : BOOLEAN, run : Nat]
    /\ queue \in Seq(ChunkRecords)
    /\ watch \in {"off", "on", "cancelled", "dead"}
    /\ tier \in {"balanced", "light", "captions"}
    /\ p95 \in Latency
    /\ heard \in [1 .. Phrases -> Nat]
    /\ trouble \in 0 .. 2

(* Calls that do not overlap: there is one at most, the flag says whether   *)
(* it is stopping or starting, and one that starts is not being cancelled.  *)
CallInv ==
    /\ \A c \in Caller : op[c].pc = "none" => op[c] = NoCall
    /\ trouble < 2 =>
          /\ \A c, d \in Caller : op[c] # NoCall /\ op[d] # NoCall => c = d
          /\ \A c \in Caller : /\ op[c].pc \in Loads => active /\ ~Interrupted(c)
                               /\ op[c].pc \in Stops => ~active

(* A pipeline runs only between calls; it is the current one, and the       *)
(* playback runs with it.                                                   *)
PipelineInv ==
    trouble < 2 =>
        \A g \in 1 .. Made :
            pipeline[g].running => g = current /\ active /\ Quiet /\ engine.running

(* The recognisers that hold the model.                                     *)
Held(a) == {e \in Ear : a[e].holds}

(* Each reference is held by a recogniser that is loaded.                   *)
ModelInv ==
    trouble < 2 =>
        /\ \A e \in Ear : asr[e].loaded = asr[e].holds
        /\ refs = Cardinality(Held(asr))

(* A task is blocked on one chunk at a time.                                *)
Distinct(q) ==
    \A i, j \in Capacity + 1 .. Len(q) : q[i].phrase = q[j].phrase => i = j

(* The playback queue of an engine that has stopped is short enough for one *)
(* drain to empty it; that of a running one holds chunks of this run.       *)
QueueInv ==
    /\ Distinct(queue)
    /\ engine.consumer = engine.running
    /\ trouble < 2 =>
          /\ ~engine.running /\ (\A c \in Caller : op[c].pc \notin Halts) =>
                Len(queue) <= Capacity
          /\ engine.running => \A i \in 1 .. Len(queue) : queue[i].run = engine.run

(* What is queued for a phrase.                                             *)
Queued(q, p) == {i \in 1 .. Len(q) : q[i].phrase = p}

(* The chunks of a phrase of the running pipeline are all there; a phrase   *)
(* that has not been committed has none.                                    *)
PhraseInv ==
    /\ \A p \in 1 .. Phrases : phrase[p].of <= Len(pipeline)
    /\ \A p \in 1 .. Phrases :
          phrase[p] = NoPhrase => heard[p] = 0 /\ Queued(queue, p) = {}
    /\ trouble < 2 =>
          \A p \in 1 .. Phrases :
              (phrase[p].of # 0 /\ pipeline[phrase[p].of].running) =>
                  phrase[p].chunks = heard[p] + Cardinality(Queued(queue, p))

IInv == Types /\ CallInv /\ PipelineInv /\ ModelInv /\ QueueInv /\ PhraseInv

-----------------------------------------------------------------------------
(* The playback queue.                                                      *)

LEMMA Constants ==
    /\ Capacity \in Nat /\ Capacity > 0 /\ Phrases \in Nat /\ Phrases <= Capacity
    /\ MaxChunks \in Nat /\ MaxStarts \in Nat
    /\ Watchdog \in Caller
  BY ConversationAssumption

LEMMA QueuedIsFinite ==
    ASSUME NEW q \in Seq(ChunkRecords), NEW p
    PROVE  IsFiniteSet(Queued(q, p)) /\ Cardinality(Queued(q, p)) \in Nat
<1>1. IsFiniteSet(1 .. Len(q))
  BY FS_Interval, LenProperties
<1>2. Queued(q, p) \in SUBSET (1 .. Len(q))
  BY DEF Queued
<1>3. IsFiniteSet(Queued(q, p))
  BY <1>1, <1>2, FS_Subset
<1>4. QED
  BY <1>3, FS_CardinalityType

(* A chunk of a task that is not blocked is put at the end.                 *)
LEMMA PutChunk ==
    ASSUME NEW q \in Seq(ChunkRecords), NEW c \in ChunkRecords,
           Distinct(q), \A i \in Capacity + 1 .. Len(q) : q[i].phrase # c.phrase
    PROVE  LET n == Append(q, c) IN
           /\ n \in Seq(ChunkRecords) /\ Len(n) = Len(q) + 1
           /\ \A i \in 1 .. Len(q) : n[i] = q[i]
           /\ n[Len(q) + 1] = c
           /\ Distinct(n)
           /\ Cardinality(Queued(n, c.phrase)) = Cardinality(Queued(q, c.phrase)) + 1
           /\ \A p : p # c.phrase => Queued(n, p) = Queued(q, p)
<1> DEFINE n == Append(q, c)
<1>1. /\ n \in Seq(ChunkRecords) /\ Len(n) = Len(q) + 1 /\ Len(q) \in Nat
      /\ \A i \in 1 .. Len(q) : n[i] = q[i]
      /\ n[Len(q) + 1] = c
  BY AppendProperties, LenProperties
<1> HIDE DEF n
<1>2. Distinct(n)
  BY <1>1, Constants DEF Distinct
<1>3. Queued(n, c.phrase) = Queued(q, c.phrase) \cup {Len(q) + 1}
  BY <1>1 DEF Queued
<1>4. Len(q) + 1 \notin Queued(q, c.phrase)
  BY <1>1 DEF Queued
<1>5. Cardinality(Queued(n, c.phrase)) = Cardinality(Queued(q, c.phrase)) + 1
  BY <1>3, <1>4, QueuedIsFinite, FS_AddElement
<1>6. \A p : p # c.phrase => Queued(n, p) = Queued(q, p)
  BY <1>1 DEF Queued
<1>7. QED
  BY <1>1, <1>2, <1>5, <1>6 DEF n

(* The consumer takes the first chunk.                                      *)
LEMMA TakeChunk ==
    ASSUME NEW q \in Seq(ChunkRecords), q # <<>>, Distinct(q)
    PROVE  LET n == Tail(q)
               h == Head(q).phrase IN
           /\ n \in Seq(ChunkRecords) /\ Len(n) = Len(q) - 1 /\ Len(q) > 0
           /\ \A i \in 1 .. Len(n) : i + 1 \in 1 .. Len(q) /\ n[i] = q[i + 1]
           /\ h \in 1 .. Phrases
           /\ Distinct(n)
           /\ Queued(q, h) # {}
           /\ Cardinality(Queued(q, h)) = Cardinality(Queued(n, h)) + 1
           /\ \A p : p # h => Cardinality(Queued(n, p)) = Cardinality(Queued(q, p))
           /\ \A p : Queued(q, p) = {} => Queued(n, p) = {}
<1> DEFINE n == Tail(q)
           h == Head(q).phrase
<1>1. /\ n \in Seq(ChunkRecords) /\ Len(n) = Len(q) - 1 /\ Len(q) \in Nat
      /\ Len(q) > 0 /\ Len(n) \in Nat
      /\ \A i \in 1 .. Len(n) : n[i] = q[i + 1]
      /\ q[1].phrase = h /\ h \in 1 .. Phrases
  <2>1. Head(q) \in ChunkRecords /\ Head(q) = q[1]
    BY HeadTailProperties
  <2>2. Len(q) \in Nat /\ Len(q) > 0
    BY LenProperties, EmptySeq
  <2>3. n \in Seq(ChunkRecords) /\ Len(n) = Len(q) - 1
        /\ \A i \in 1 .. Len(n) : n[i] = q[i + 1]
    BY HeadTailProperties
  <2>4. Len(n) \in Nat
    BY <2>2, <2>3
  <2>5. QED
    BY <2>1, <2>2, <2>3, <2>4 DEF ChunkRecords
<1> HIDE DEF n, h
<1>2. \A i \in 1 .. Len(n) : i + 1 \in 1 .. Len(q)
  BY <1>1
<1>3. Distinct(n)
  <2>1. ASSUME NEW i \in Capacity + 1 .. Len(n), NEW j \in Capacity + 1 .. Len(n),
               n[i].phrase = n[j].phrase
        PROVE  i = j
    <3>1. /\ i \in 1 .. Len(n) /\ j \in 1 .. Len(n)
          /\ i + 1 \in Capacity + 1 .. Len(q) /\ j + 1 \in Capacity + 1 .. Len(q)
      BY <1>1, Constants
    <3>2. q[i + 1].phrase = q[j + 1].phrase
      BY <1>1, <2>1, <3>1
    <3>3. i + 1 = j + 1
      BY <3>1, <3>2 DEF Distinct
    <3>4. QED
      BY <3>3
  <2>2. QED
    BY <2>1 DEF Distinct
\* The chunks of p behind the first one move up by one.
<1>4. ASSUME NEW p
      PROVE  /\ Cardinality(Queued(n, p)) = Cardinality(Queued(q, p) \ {1})
             /\ Queued(q, p) \ {1} = {} => Queued(n, p) = {}
  <2> DEFINE f == [i \in Queued(n, p) |-> i + 1]
  <2>1. \A i \in Queued(n, p) : i + 1 \in Queued(q, p) \ {1}
    BY <1>1, <1>2 DEF Queued
  <2>2. \A j \in Queued(q, p) \ {1} : j - 1 \in Queued(n, p) /\ (j - 1) + 1 = j
    <3>1. SUFFICES ASSUME NEW j \in Queued(q, p) \ {1}
                   PROVE  j - 1 \in Queued(n, p) /\ (j - 1) + 1 = j
      OBVIOUS
    <3>2. j \in 1 .. Len(q) /\ j # 1 /\ q[j].phrase = p
      BY DEF Queued
    <3>3. j - 1 \in 1 .. Len(n) /\ (j - 1) + 1 = j
      BY <1>1, <3>2
    <3>4. QED
      BY <1>1, <3>2, <3>3 DEF Queued
  <2>3. f \in Bijection(Queued(n, p), Queued(q, p) \ {1})
    <3>1. f \in [Queued(n, p) -> Queued(q, p) \ {1}]
      BY <2>1
    <3>2. \A i, j \in Queued(n, p) : f[i] = f[j] => i = j
      <4>1. \A i \in Queued(n, p) : i \in Int
        BY <1>1 DEF Queued
      <4>2. QED
        BY <4>1
    <3>3. \A j \in Queued(q, p) \ {1} : \E i \in Queued(n, p) : f[i] = j
      BY <2>2
    <3> HIDE DEF f
    <3> HIDE DEF f
    <3>4. f \in Injection(Queued(n, p), Queued(q, p) \ {1})
      BY <3>1, <3>2, Zenon DEF Injection, IsInjective
    <3>5. f \in Surjection(Queued(n, p), Queued(q, p) \ {1})
      BY <3>1, <3>3, Zenon DEF Surjection
    <3>6. QED
      BY <3>4, <3>5, Zenon DEF Bijection
  <2>4. ExistsBijection(Queued(n, p), Queued(q, p) \ {1})
    BY <2>3 DEF ExistsBijection
  <2>5. IsFiniteSet(Queued(n, p))
    BY <1>1, QueuedIsFinite
  <2>6. QED
    BY <2>1, <2>4, <2>5, FS_Bijection
<1>5. 1 \in Queued(q, h) /\ \A p : p # h => Queued(q, p) \ {1} = Queued(q, p)
  BY <1>1 DEF Queued
<1>6. Cardinality(Queued(q, h)) = Cardinality(Queued(n, h)) + 1
  <2>1. /\ IsFiniteSet(Queued(q, h)) /\ Cardinality(Queued(q, h)) \in Nat
        /\ Cardinality(Queued(n, h)) \in Nat
    BY <1>1, QueuedIsFinite
  <2>2. Cardinality(Queued(q, h) \ {1}) = Cardinality(Queued(q, h)) - 1
    BY <1>5, <2>1, FS_RemoveElement
  <2>3. QED
    BY <1>4, <2>1, <2>2
<1>7. QED
  BY <1>1, <1>2, <1>3, <1>4, <1>5, <1>6 DEF n, h

(* A drain lets the blocked tasks in, which are few enough for the queue;   *)
(* of a short queue nothing is left.                                        *)
LEMMA DrainQueue ==
    ASSUME NEW q \in Seq(ChunkRecords), Distinct(q)
    PROVE  LET n == Drained(q) IN
           /\ n \in Seq(ChunkRecords) /\ Len(n) <= Capacity
           /\ Distinct(n)
           /\ Len(q) <= Capacity => Len(n) = 0
           /\ \A i \in 1 .. Len(n) : Capacity + i \in 1 .. Len(q) /\ n[i] = q[Capacity + i]
           /\ \A p : Queued(q, p) = {} => Queued(n, p) = {}
<1> DEFINE n == Drained(q)
<1>1. Len(q) \in Nat /\ Capacity \in Nat /\ Capacity > 0
  BY LenProperties, Constants
<1>2. \A i \in Capacity + 1 .. Len(q) : i \in 1 .. Len(q) /\ q[i] \in ChunkRecords
  <2>1. \A i \in Capacity + 1 .. Len(q) : i \in 1 .. Len(q)
    BY <1>1
  <2>2. QED
    BY <2>1, ElementOfSeq
<1>3. /\ n \in Seq(ChunkRecords)
      /\ Len(n) = IF Capacity + 1 <= Len(q) THEN Len(q) - (Capacity + 1) + 1 ELSE 0
      /\ \A i \in 1 .. Len(q) - (Capacity + 1) + 1 :
            n[i] = q[(Capacity + 1) + i - 1]
  BY <1>1, <1>2, SubSeqProperties DEF Drained
<1> HIDE DEF n
<1>4. /\ Len(n) \in Nat
      /\ \A i \in 1 .. Len(n) : /\ Capacity + i \in Capacity + 1 .. Len(q)
                                /\ n[i] = q[Capacity + i]
      /\ Len(q) <= Capacity => Len(n) = 0
      /\ Capacity + 1 <= Len(q) => Len(n) = Len(q) - Capacity
  <2>1. Len(n) \in Nat
    BY <1>1, <1>3
  <2>2. ASSUME NEW i \in 1 .. Len(n)
        PROVE  /\ Capacity + i \in Capacity + 1 .. Len(q)
               /\ n[i] = q[Capacity + i]
    <3>1. /\ i \in 1 .. Len(q) - (Capacity + 1) + 1
          /\ (Capacity + 1) + i - 1 = Capacity + i
          /\ Capacity + i \in Capacity + 1 .. Len(q)
      BY <1>1, <1>3
    <3>2. QED
      BY <1>3, <3>1
  <2>3. QED
    BY <1>1, <1>3, <2>1, <2>2
<1>5. Len(n) <= Capacity
  <2> DEFINE f == [i \in Capacity + 1 .. Len(q) |-> q[i].phrase]
  <2>1. f \in [Capacity + 1 .. Len(q) -> 1 .. Phrases]
    BY <1>2 DEF ChunkRecords
  <2>2. f \in Injection(Capacity + 1 .. Len(q), 1 .. Phrases)
    <3>1. \A i, j \in Capacity + 1 .. Len(q) : f[i] = f[j] => i = j
      BY DEF Distinct
    <3> HIDE DEF f
    <3>2. QED
      BY <2>1, <3>1, Zenon DEF Injection, IsInjective
  <2>3. IsFiniteSet(1 .. Phrases) /\ Cardinality(1 .. Phrases) = Phrases
    BY FS_Interval, Constants
  <2>4. Cardinality(Capacity + 1 .. Len(q)) <= Phrases
    BY <2>2, <2>3, FS_Injection
  <2>5. Cardinality(Capacity + 1 .. Len(q)) =
            IF Capacity + 1 > Len(q) THEN 0 ELSE Len(q) - (Capacity + 1) + 1
    <3>1. Capacity + 1 \in Int /\ Len(q) \in Int
      BY <1>1
    <3>2. QED
      BY <3>1, FS_Interval
  <2>6. QED
    BY <1>1, <1>4, <2>4, <2>5, Constants
<1>6. Distinct(n)
  BY <1>1, <1>4, <1>5 DEF Distinct
<1>7. \A p : Queued(q, p) = {} => Queued(n, p) = {}
  <2>1. \A p : \A i \in Queued(n, p) : Capacity + i \in Queued(q, p)
    BY <1>1, <1>2, <1>4 DEF Queued
  <2>2. QED
    BY <2>1
<1>8. \A i \in 1 .. Len(n) : Capacity + i \in 1 .. Len(q) /\ n[i] = q[Capacity + i]
  BY <1>2, <1>4
<1>9. QED
  BY <1>3, <1>4, <1>5, <1>6, <1>7, <1>8 DEF n

-----------------------------------------------------------------------------
(* Calls.                                                                   *)

(* No pipeline runs.                                                        *)
Calm == \A g \in 1 .. Made : ~pipeline[g].running

LEMMA NoCallIsCall == NoCall \in Calls /\ NoCall.pc = "none"
  BY DEF NoCall, Calls, Mode

LEMMA MovedCall ==
    ASSUME NEW x \in Calls, NEW pc \in {"none"} \cup Loads \cup Stops
    PROVE  LET y == [x EXCEPT !.pc = pc] IN
           y \in Calls /\ y.pc = pc /\ y.set = x.set /\ y.mode = x.mode
  BY DEF Calls

(* The worst that has happened gets no better.                              *)
LEMMA WorstGrows ==
    ASSUME trouble \in 0 .. 2, NEW n \in 0 .. 2, Worst(n)
    PROVE  trouble' \in 0 .. 2 /\ (trouble' < 2 => trouble < 2 /\ n < 2)
  BY DEF Worst

(* While calls do not overlap, a call is the only one, and nothing runs.    *)
LEMMA OnlyCall ==
    ASSUME IInv, trouble < 2, NEW c \in Caller, op[c] # NoCall
    PROVE  /\ \A d \in Caller : d # c => op[d] = NoCall
           /\ Calm
  BY DEF IInv, CallInv, PipelineInv, Calm, Quiet

(* The call of c goes on to x, starts or ends.                              *)
LEMMA CallMoves ==
    ASSUME Types, CallInv, NEW c \in Caller, NEW x \in Calls,
           op' = [op EXCEPT ![c] = x],
           x.pc = "none" => x = NoCall,
           trouble' < 2 => trouble < 2,
           trouble' < 2 => \A d \in Caller : d # c => op[d] = NoCall,
           trouble' < 2 /\ x.pc \in Loads => active' /\ ~Interrupted(c)',
           trouble' < 2 /\ x.pc \in Stops => ~active'
    PROVE  /\ CallInv'
           /\ op' \in [Caller -> Calls] /\ op'[c] = x
           /\ \A d \in Caller : d # c => op'[d] = op[d]
<1>1. /\ op' \in [Caller -> Calls] /\ op'[c] = x
      /\ \A d \in Caller : d # c => op'[d] = op[d]
  BY DEF Types
<1>2. \A d \in Caller : op'[d].pc = "none" => op'[d] = NoCall
  BY <1>1 DEF CallInv
<1>3. ASSUME trouble' < 2
      PROVE  \A d \in Caller : d # c => op'[d] = NoCall /\ op'[d].pc = "none"
  BY <1>1, <1>3, NoCallIsCall
<1>4. ASSUME trouble' < 2, NEW d \in Caller
      PROVE  /\ op'[d].pc \in Loads => active' /\ ~Interrupted(d)'
             /\ op'[d].pc \in Stops => ~active'
  <2>1. CASE d = c
    BY <1>1, <1>4, <2>1
  <2>2. CASE d # c
    BY <1>3, <1>4, <2>2 DEF Loads, Stops, Halts
  <2>3. QED
    BY <2>1, <2>2
<1>5. CallInv'
  BY <1>2, <1>3, <1>4 DEF CallInv
<1>6. QED
  BY <1>1, <1>5

(* What is queued and heard is not changed, or drained, while no pipeline   *)
(* of a phrase runs.                                                        *)
LEMMA PhrasesLeft ==
    ASSUME Types, PhraseInv, QueueInv, UNCHANGED <<phrase, heard>>,
           Len(pipeline) <= Len(pipeline'), pipeline' \in Seq(Pipelines),
           queue' = queue \/ queue' = Drained(queue),
           trouble' < 2 => \A g \in 1 .. Len(pipeline) : ~pipeline'[g].running
    PROVE  PhraseInv'
<1>1. \A p \in 1 .. Phrases : Queued(queue, p) = {} => Queued(queue', p) = {}
  BY DrainQueue DEF Types, QueueInv
<1>2. Len(pipeline) \in Nat /\ Len(pipeline') \in Nat
  BY LenProperties DEF Types
<1>3. \A p \in 1 .. Phrases : phrase[p].of \in Nat /\ phrase[p].of <= Len(pipeline)
  BY DEF Types, Tasks, PhraseInv
<1>4. \A p \in 1 .. Phrases : phrase[p].of # 0 => phrase[p].of \in 1 .. Len(pipeline)
  BY <1>2, <1>3
<1>5. \A p \in 1 .. Phrases : phrase'[p].of <= Len(pipeline')
  BY <1>2, <1>3
<1>6. QED
  BY <1>1, <1>4, <1>5 DEF PhraseInv

(* A call that goes on, or ends, while no pipeline is made.                 *)
LEMMA CallGoesOn ==
    ASSUME IInv, NEW c \in Caller, op[c] # NoCall, NEW x \in Calls,
           op' = [op EXCEPT ![c] = x],
           x.pc = "none" => x = NoCall,
           trouble' < 2 => trouble < 2,
           trouble' < 2 /\ x.pc \in Loads => active' /\ ~Interrupted(c)',
           trouble' < 2 /\ x.pc \in Stops => ~active',
           UNCHANGED <<pipeline, phrase, heard>>,
           queue' = queue \/ queue' = Drained(queue)
    PROVE  /\ CallInv' /\ PipelineInv' /\ PhraseInv'
           /\ op' \in [Caller -> Calls] /\ op'[c] = x
           /\ \A d \in Caller : d # c => op'[d] = op[d]
           /\ trouble' < 2 => \A d \in Caller : d # c => op[d] = NoCall
<1>1. trouble' < 2 => /\ \A d \in Caller : d # c => op[d] = NoCall
                      /\ Calm
  BY OnlyCall
<1>2. /\ CallInv' /\ op' \in [Caller -> Calls] /\ op'[c] = x
      /\ \A d \in Caller : d # c => op'[d] = op[d]
  BY <1>1, CallMoves DEF IInv
<1>3. trouble' < 2 => Calm'
  BY <1>1 DEF Calm, Made
<1>4. PipelineInv'
  BY <1>3 DEF PipelineInv, Calm
<1>5. PhraseInv'
  <2>1. Len(pipeline) \in Nat
    BY LenProperties DEF IInv, Types
  <2>2. trouble' < 2 => \A g \in 1 .. Len(pipeline) : ~pipeline'[g].running
    BY <1>3 DEF Calm, Made
  <2>3. QED
    BY <2>1, <2>2, PhrasesLeft DEF IInv, Types
<1>6. QED
  BY <1>1, <1>2, <1>4, <1>5

-----------------------------------------------------------------------------
(* The recognisers.                                                         *)

LEMMA HeldIsFinite ==
    ASSUME NEW a
    PROVE  /\ IsFiniteSet(Held(a)) /\ Cardinality(Held(a)) \in Nat
           /\ IsFiniteSet(Ear) /\ Cardinality(Ear) \in Nat
<1>1. IsFiniteSet({"en"}) /\ IsFiniteSet({"ro"})
  BY FS_Singleton
<1>2. Ear = {"en"} \cup {"ro"}
  BY DEF Ear
<1>3. IsFiniteSet(Ear)
  BY <1>1, <1>2, FS_Union
<1>4. Held(a) \in SUBSET Ear
  BY DEF Held
<1>5. QED
  BY <1>3, <1>4, FS_Subset, FS_CardinalityType

(* A load takes a reference exactly for a recogniser that holds none.       *)
LEMMA TakenHeld ==
    ASSUME Types, NEW e \in Ear, AsrTaken(e),
           \A f \in Ear : asr[f].loaded = asr[f].holds,
           refs = Cardinality(Held(asr))
    PROVE  /\ asr' \in [Ear -> [loaded : BOOLEAN, holds : BOOLEAN]]
           /\ refs' = Cardinality(Held(asr'))
           /\ \A f \in Ear : asr'[f].loaded = asr'[f].holds
<1>1. CASE asr[e].loaded
  BY <1>1 DEF AsrTaken, ears, Types
<1>2. CASE ~asr[e].loaded
  <2>1. /\ asr' = [asr EXCEPT ![e] = [loaded |-> TRUE, holds |-> TRUE]]
        /\ refs' = refs + 1
    BY <1>2 DEF AsrTaken
  <2>2. /\ asr' \in [Ear -> [loaded : BOOLEAN, holds : BOOLEAN]]
        /\ asr'[e].loaded = TRUE /\ asr'[e].holds = TRUE
        /\ \A f \in Ear : f # e => asr'[f] = asr[f]
    BY <2>1 DEF Types
  <2>3. Held(asr') = Held(asr) \cup {e} /\ e \notin Held(asr)
    BY <1>2, <2>2 DEF Held
  <2>4. Cardinality(Held(asr')) = Cardinality(Held(asr)) + 1
    BY <2>3, HeldIsFinite, FS_AddElement
  <2>5. QED
    BY <2>1, <2>2, <2>4
<1>3. QED
  BY <1>1, <1>2

(* A load that raises takes none.                                           *)
LEMMA RaisesHeld ==
    ASSUME Types, NEW e \in Ear, AsrRaises(e),
           \A f \in Ear : asr[f].loaded = asr[f].holds,
           refs = Cardinality(Held(asr))
    PROVE  /\ refs' = Cardinality(Held(asr'))
           /\ \A f \in Ear : asr'[f].loaded = asr'[f].holds
<1>1. /\ asr' = [asr EXCEPT ![e].holds = FALSE] /\ refs' = refs /\ ~asr[e].loaded
  BY DEF AsrRaises
<1>2. /\ asr[e].holds = FALSE
      /\ asr'[e].loaded = FALSE /\ asr'[e].holds = FALSE
      /\ \A f \in Ear : f # e => asr'[f] = asr[f]
  BY <1>1 DEF Types
<1>3. Held(asr') = Held(asr)
  BY <1>2 DEF Held
<1>4. QED
  BY <1>1, <1>2, <1>3

(* start_stream loads what is not loaded.                                   *)
LEMMA StreamsHeld ==
    ASSUME Streams, \A f \in Ear : asr[f].loaded = asr[f].holds,
           refs = Cardinality(Held(asr))
    PROVE  /\ refs' = Cardinality(Held(asr'))
           /\ \A f \in Ear : asr'[f].loaded = asr'[f].holds
<1>1. /\ asr' = [e \in Ear |-> [loaded |-> TRUE, holds |-> TRUE]]
      /\ refs' = refs + Cardinality({e \in Ear : ~asr[e].loaded})
  BY DEF Streams
<1>2. Held(asr') = Ear /\ \A f \in Ear : asr'[f].loaded = asr'[f].holds
  BY <1>1 DEF Held
<1>3. {e \in Ear : ~asr[e].loaded} = Ear \ Held(asr)
  BY DEF Held
<1>4. Ear \cap Held(asr) = Held(asr)
  BY DEF Held
<1>5. IsFiniteSet(Ear) /\ Cardinality(Ear) \in Nat /\ Cardinality(Held(asr)) \in Nat
  BY HeldIsFinite
<1>6. Cardinality(Ear \ Held(asr)) = Cardinality(Ear) - Cardinality(Ear \cap Held(asr))
  BY <1>5, FS_Difference
<1>7. refs + Cardinality({e \in Ear : ~asr[e].loaded}) = Cardinality(Ear)
  <2>1. Cardinality(Ear \ Held(asr)) = Cardinality(Ear) - Cardinality(Held(asr))
    BY <1>4, <1>6
  <2>2. refs + Cardinality(Ear \ Held(asr)) = Cardinality(Ear)
    BY <1>5, <2>1
  <2>3. QED
    BY <1>3, <2>2
<1>8. QED
  BY <1>1, <1>2, <1>7

(* Unloading gives both references back.                                    *)
LEMMA ReleasedHeld ==
    ASSUME Released, refs = Cardinality(Held(asr))
    PROVE  /\ refs' = Cardinality(Held(asr'))
           /\ \A f \in Ear : asr'[f].loaded = asr'[f].holds
<1>1. /\ asr' = [e \in Ear |-> [loaded |-> FALSE, holds |-> FALSE]]
      /\ refs' = LET n == Cardinality(Held(asr)) IN IF n > refs THEN 0 ELSE refs - n
  BY DEF Released, Held
<1>2. Held(asr') = {} /\ \A f \in Ear : asr'[f].loaded = asr'[f].holds
  BY <1>1 DEF Held
<1>3. refs' = 0
  BY <1>1, HeldIsFinite
<1>4. QED
  BY <1>2, <1>3, FS_EmptySet

(* In any case the count stays a natural number.                            *)
LEMMA EarTypes ==
    ASSUME Types,
           \/ \E e \in Ear : AsrTaken(e) \/ AsrRaises(e) \/ AsrAbandoned(e)
           \/ Streams \/ Released \/ UNCHANGED ears
    PROVE  asr' \in [Ear -> [loaded : BOOLEAN, holds : BOOLEAN]] /\ refs' \in Nat
<1>1. ASSUME NEW e \in Ear, AsrTaken(e) \/ AsrRaises(e) \/ AsrAbandoned(e)
      PROVE  asr' \in [Ear -> [loaded : BOOLEAN, holds : BOOLEAN]] /\ refs' \in Nat
  <2>1. CASE AsrTaken(e)
    <3>1. CASE asr[e].loaded
      BY <2>1, <3>1 DEF Types, AsrTaken, ears
    <3>2. CASE ~asr[e].loaded
      <4>1. /\ asr' = [asr EXCEPT ![e] = [loaded |-> TRUE, holds |-> TRUE]]
            /\ refs' = refs + 1
        BY <2>1, <3>2 DEF AsrTaken
      <4>2. QED
        BY <4>1 DEF Types
    <3>3. QED
      BY <3>1, <3>2
  <2>2. CASE AsrRaises(e)
    BY <2>2 DEF Types, AsrRaises
  <2>3. CASE AsrAbandoned(e)
    <3>1. asr' = [asr EXCEPT ![e].holds = TRUE] /\ refs' = refs + 1
      BY <2>3 DEF AsrAbandoned
    <3>2. asr' \in [Ear -> [loaded : BOOLEAN, holds : BOOLEAN]]
      BY <3>1 DEF Types
    <3>3. refs' \in Nat
      BY <3>1 DEF Types
    <3>4. QED
      BY <3>2, <3>3
  <2>4. QED
    BY <1>1, <2>1, <2>2, <2>3
<1>2. CASE Streams
  <2>1. {e \in Ear : ~asr[e].loaded} \in SUBSET Ear
    OBVIOUS
  <2>2. Cardinality({e \in Ear : ~asr[e].loaded}) \in Nat
    BY <2>1, HeldIsFinite, FS_Subset, FS_CardinalityType
  <2>3. QED
    BY <1>2, <2>2 DEF Types, Streams
<1>3. CASE Released
  <2>1. Cardinality(Held(asr)) \in Nat
    BY HeldIsFinite
  <2>2. QED
    BY <1>3, <2>1 DEF Types, Released, Held
<1>4. CASE UNCHANGED ears
  BY <1>4 DEF ears, Types
<1>5. QED
  BY <1>1, <1>2, <1>3, <1>4

-----------------------------------------------------------------------------
(* What a step leaves alone.                                                *)

LEMMA CallsKept ==
    ASSUME CallInv, UNCHANGED <<op, active, watch>>, trouble' < 2 => trouble < 2
    PROVE  CallInv'
  BY DEF CallInv, Interrupted

LEMMA PipelinesKept ==
    ASSUME PipelineInv, UNCHANGED <<pipeline, current, active, op, engine>>,
           trouble' < 2 => trouble < 2
    PROVE  PipelineInv'
  BY DEF PipelineInv, Made, Quiet

LEMMA ModelsKept ==
    ASSUME ModelInv, UNCHANGED ears, trouble' < 2 => trouble < 2
    PROVE  ModelInv'
  BY DEF ModelInv, ears, Held

LEMMA QueueKept ==
    ASSUME QueueInv, UNCHANGED playback, trouble' < 2 => trouble < 2,
           \A c \in Caller : op[c].pc \in Halts => op'[c].pc \in Halts
    PROVE  QueueInv'
  BY DEF QueueInv, playback, Distinct

LEMMA PhrasesKept ==
    ASSUME PhraseInv, UNCHANGED <<phrase, heard, queue, pipeline>>,
           trouble' < 2 => trouble < 2
    PROVE  PhraseInv'
  BY DEF PhraseInv, Queued

(* The engine halts: the queue is drained when the consumer has gone.       *)
LEMMA HaltBegins ==
    ASSUME Types, QueueInv, BeginHalt, UNCHANGED queue,
           NEW c \in Caller, op'[c].pc \in Halts
    PROVE  /\ QueueInv'
           /\ engine' \in [running : BOOLEAN, consumer : BOOLEAN, run : Nat]
<1>1. /\ engine' \in [running : BOOLEAN, consumer : BOOLEAN, run : Nat]
      /\ engine'.running = FALSE /\ engine'.consumer = FALSE
  BY DEF Types, BeginHalt
<1>2. Distinct(queue)'
  BY DEF QueueInv, Distinct
<1>3. QED
  BY <1>1, <1>2 DEF QueueInv

LEMMA HaltEnds ==
    ASSUME Types, QueueInv, EndHalt, BeginHalt \/ UNCHANGED engine,
           trouble' < 2 => trouble < 2
    PROVE  /\ QueueInv'
           /\ queue' \in Seq(ChunkRecords)
           /\ engine' \in [running : BOOLEAN, consumer : BOOLEAN, run : Nat]
<1>1. /\ engine' \in [running : BOOLEAN, consumer : BOOLEAN, run : Nat]
      /\ engine'.consumer = engine'.running
      /\ engine'.running => engine.running /\ engine'.run = engine.run
  BY DEF Types, BeginHalt, QueueInv
<1>2. /\ queue' \in Seq(ChunkRecords) /\ Len(queue') <= Capacity /\ Distinct(queue)'
      /\ \A i \in 1 .. Len(queue') : \E j \in 1 .. Len(queue) : queue'[i] = queue[j]
  BY DrainQueue DEF EndHalt, Types, QueueInv, Distinct
<1>3. ASSUME trouble' < 2, engine'.running
      PROVE  \A i \in 1 .. Len(queue') : queue'[i].run = engine'.run
  <2>1. \A j \in 1 .. Len(queue) : queue[j].run = engine.run
    BY <1>1, <1>3 DEF QueueInv
  <2>2. QED
    BY <1>1, <1>2, <1>3, <2>1
<1>4. QED
  BY <1>1, <1>2, <1>3 DEF QueueInv

(* The engine starts with an empty queue, or was running.                   *)
LEMMA PlaybackStarts ==
    ASSUME Types, QueueInv, StartPlayback, trouble' < 2 => trouble < 2,
           trouble' < 2 => \A c \in Caller : op[c].pc \notin Halts,
           trouble' < 2 => \A c \in Caller : op'[c].pc \notin Halts
    PROVE  /\ QueueInv'
           /\ queue' \in Seq(ChunkRecords) /\ (queue' = queue \/ queue' = Drained(queue))
           /\ engine' \in [running : BOOLEAN, consumer : BOOLEAN, run : Nat]
           /\ engine'.running
<1>1. CASE engine.running
  <2>1. UNCHANGED playback
    BY <1>1 DEF StartPlayback
  <2>2. QED
    BY <1>1, <2>1 DEF playback, Types, QueueInv, Distinct
<1>2. CASE ~engine.running
  <2>1. /\ engine' = [running |-> TRUE, consumer |-> TRUE, run |-> engine.run + 1]
        /\ queue' = Drained(queue)
    BY <1>2 DEF StartPlayback
  <2>2. /\ engine' \in [running : BOOLEAN, consumer : BOOLEAN, run : Nat]
        /\ engine'.running = TRUE /\ engine'.consumer = TRUE
    BY <2>1 DEF Types
  <2>3. /\ queue' \in Seq(ChunkRecords) /\ Distinct(queue)'
        /\ Len(queue) <= Capacity => Len(queue') = 0
    BY <2>1, DrainQueue DEF Types, QueueInv, Distinct
  <2>4. trouble' < 2 => Len(queue') = 0
    BY <1>2, <2>3 DEF QueueInv
  <2>5. QED
    BY <2>1, <2>2, <2>3, <2>4 DEF QueueInv
<1>3. QED
  BY <1>1, <1>2

(* A committed phrase has no chunks yet.                                    *)
LEMMA TaskCreated ==
    ASSUME Types, PhraseInv, NEW g \in 1 .. Len(pipeline), CreateTask(g),
           UNCHANGED <<heard, queue>>, Len(pipeline') = Len(pipeline),
           trouble' < 2 => \/ \A h \in 1 .. Len(pipeline) : ~pipeline'[h].running
                           \/ trouble < 2 /\ UNCHANGED pipeline
    PROVE  PhraseInv' /\ phrase' \in [1 .. Phrases -> Tasks]
<1>1. PICK p \in 1 .. Phrases :
        /\ phrase[p] = NoPhrase
        /\ phrase' = [phrase EXCEPT ![p] = [pc |-> "created", of |-> g, chunks |-> 0]]
  BY DEF CreateTask
<1>2. Len(pipeline) \in Nat /\ g \in Nat /\ g <= Len(pipeline)
  BY LenProperties DEF Types
<1>3. /\ phrase'[p].pc = "created" /\ phrase'[p].of = g /\ phrase'[p].chunks = 0
      /\ \A q \in 1 .. Phrases : q # p => phrase'[q] = phrase[q]
      /\ phrase' \in [1 .. Phrases -> Tasks]
  BY <1>1, <1>2 DEF Types, Tasks
<1>4. \A q \in 1 .. Phrases : phrase'[q].of \in Nat /\ phrase'[q].of <= Len(pipeline)
  BY <1>2, <1>3 DEF PhraseInv, Types, Tasks
<1>5. heard[p] = 0 /\ Queued(queue, p) = {} /\ Cardinality(Queued(queue, p)) = 0
  BY <1>1, FS_EmptySet DEF PhraseInv
<1>6. phrase'[p] # NoPhrase
  BY <1>3 DEF NoPhrase
<1>7. \A q \in 1 .. Phrases :
        phrase'[q] = NoPhrase => heard'[q] = 0 /\ Queued(queue', q) = {}
  BY <1>3, <1>6 DEF PhraseInv
<1>8. ASSUME trouble' < 2, NEW q \in 1 .. Phrases, phrase'[q].of # 0,
             pipeline'[phrase'[q].of].running
      PROVE  phrase'[q].chunks = heard'[q] + Cardinality(Queued(queue', q))
  <2>1. phrase'[q].of \in 1 .. Len(pipeline)
    BY <1>2, <1>4, <1>8
  <2>2. trouble < 2 /\ UNCHANGED pipeline
    BY <1>8, <2>1
  <2>3. CASE q = p
    <3>1. /\ phrase'[q].chunks = 0 /\ heard'[q] = 0
          /\ Cardinality(Queued(queue', q)) = 0
      BY <1>3, <1>5, <2>3
    <3>2. QED
      BY <3>1
  <2>4. CASE q # p
    BY <1>3, <1>8, <2>2, <2>4 DEF PhraseInv
  <2>5. QED
    BY <2>3, <2>4
<1>9. QED
  BY <1>3, <1>4, <1>7, <1>8 DEF PhraseInv

-----------------------------------------------------------------------------
(* The calls, await by await.                                               *)

(* A call that arrives while another is under way has overlapped it.        *)
LEMMA Arrives ==
    ASSUME Types, Arrive
    PROVE  trouble' \in 0 .. 2 /\ (trouble' < 2 => trouble < 2 /\ Quiet)
  BY WorstGrows DEF Types, Arrive

LEMMA StartKeeps ==
    ASSUME IInv, NEW c \in Caller, Start(c)
    PROVE  IInv'
<1> DEFINE x == [op[c] EXCEPT !.pc = "load_en"]
<1>1. /\ op[c] = NoCall /\ c # Watchdog /\ ~active /\ active' = TRUE
      /\ op' = [op EXCEPT ![c] = x] /\ Arrive
      /\ UNCHANGED <<mode, current, models, pipeline, playback, ladder, speech>>
  BY DEF Start, GoTo
<1>2. x \in Calls /\ x.pc = "load_en"
  <2>1. op[c] \in Calls /\ "load_en" \in {"none"} \cup Loads \cup Stops
    BY DEF IInv, Types, Loads
  <2>2. QED
    BY <2>1, MovedCall
<1>3. trouble' \in 0 .. 2 /\ (trouble' < 2 => trouble < 2 /\ Quiet)
  BY <1>1, Arrives DEF IInv
<1> HIDE DEF x
<1>4. /\ CallInv' /\ op' \in [Caller -> Calls] /\ op'[c] = x
      /\ \A d \in Caller : d # c => op'[d] = op[d]
  <2>1. trouble' < 2 => \A d \in Caller : d # c => op[d] = NoCall
    BY <1>3 DEF Quiet
  <2>2. ~Interrupted(c)'
    BY <1>1 DEF Interrupted
  <2>3. QED
    BY <1>1, <1>2, <1>3, <2>1, <2>2, CallMoves DEF IInv, Loads, Stops, Halts
<1>5. trouble' < 2 => Calm'
  BY <1>1, <1>3 DEF IInv, PipelineInv, Calm, Made
<1>6. PipelineInv'
  BY <1>5 DEF PipelineInv, Calm
<1>7. PhraseInv'
  BY <1>1, <1>3, PhrasesKept DEF IInv, speech, playback
<1>8. ModelInv'
  BY <1>1, <1>3, ModelsKept DEF IInv, models, ears
<1>9. QueueInv'
  BY <1>1, <1>3, <1>4, QueueKept, NoCallIsCall DEF IInv, Halts
<1>10. Types'
  BY <1>1, <1>3, <1>4 DEF IInv, Types, models, playback, ladder, speech
<1>11. QED
  BY <1>4, <1>6, <1>7, <1>8, <1>9, <1>10 DEF IInv

(* stop up to its first await, by itself or in a set_mode.                  *)
LEMMA StopCallKeeps ==
    ASSUME IInv, NEW c \in Caller, NEW request \in Calls, StopCall(c, request),
           watch' \in {"off", "on", "cancelled", "dead"}
    PROVE  IInv'
<1>1. /\ op[c] = NoCall /\ active /\ active' = FALSE /\ Arrive
      /\ UNCHANGED <<mode, ears, mt, playback, tier, p95, heard>>
  BY DEF StopCall
<1>2. trouble' \in 0 .. 2 /\ (trouble' < 2 => trouble < 2 /\ Quiet)
  BY <1>1, Arrives DEF IInv
<1>3. ModelInv'
  BY <1>1, <1>2, ModelsKept DEF IInv
<1>4. ASSUME NEW x \in Calls, op' = [op EXCEPT ![c] = x], x.pc \in Stops
      PROVE  /\ CallInv' /\ op' \in [Caller -> Calls]
             /\ QueueInv'
  <2>1. trouble' < 2 => \A d \in Caller : d # c => op[d] = NoCall
    BY <1>2 DEF Quiet
  <2>2. x.pc \notin Loads /\ x.pc # "none"
    BY <1>4 DEF Loads, Stops, Halts
  <2>3. /\ CallInv' /\ op' \in [Caller -> Calls] /\ op'[c] = x
        /\ \A d \in Caller : d # c => op'[d] = op[d]
    BY <1>1, <1>2, <1>4, <2>1, <2>2, CallMoves DEF IInv
  <2>4. QueueInv'
    BY <1>1, <1>2, <2>3, QueueKept, NoCallIsCall DEF IInv, Halts
  <2>5. QED
    BY <2>3, <2>4
<1>5. pipeline \in Seq(Pipelines) /\ Len(pipeline) \in Nat
      /\ current \in Nat /\ current <= Len(pipeline)
  BY LenProperties DEF IInv, Types
<1>6. CASE current # 0 /\ pipeline[current].running
  <2> DEFINE x == [request EXCEPT !.pc = "close_stream", !.of = current]
  <2>1. /\ pipeline' = [pipeline EXCEPT ![current].running = FALSE]
        /\ op' = [op EXCEPT ![c] = x]
        /\ CreateTask(current) \/ UNCHANGED phrase
        /\ UNCHANGED <<current, voice>>
    BY <1>6 DEF StopCall
  <2>2. x \in Calls /\ x.pc = "close_stream"
    BY <1>5 DEF Calls, Stops
  <2> HIDE DEF x
  <2>3. CallInv' /\ op' \in [Caller -> Calls] /\ QueueInv'
    BY <1>4, <2>1, <2>2 DEF Stops
  <2>4. current \in 1 .. Len(pipeline)
    BY <1>5, <1>6
  <2>5. /\ pipeline' \in Seq(Pipelines) /\ Len(pipeline') = Len(pipeline)
        /\ pipeline'[current].running = FALSE
        /\ \A g \in 1 .. Len(pipeline) : g # current => pipeline'[g] = pipeline[g]
    <3> DEFINE y == [pipeline[current] EXCEPT !.running = FALSE]
    <3>1. y \in Pipelines /\ y.running = FALSE
      <4>1. pipeline[current] \in Pipelines
        BY <1>5, <2>4, ElementOfSeq
      <4>2. QED
        BY <4>1 DEF Pipelines
    <3>2. pipeline' = [pipeline EXCEPT ![current] = y]
      BY <2>1
    <3> HIDE DEF y
    <3>3. QED
      BY <1>5, <2>4, <3>1, <3>2, ExceptSeq
  <2>6. trouble' < 2 => \A g \in 1 .. Len(pipeline) : ~pipeline'[g].running
    BY <1>2, <2>4, <2>5 DEF IInv, PipelineInv, Made
  <2>7. PipelineInv'
    BY <2>5, <2>6 DEF PipelineInv, Made
  <2>8. PhraseInv' /\ phrase' \in [1 .. Phrases -> Tasks]
    <3>1. CASE CreateTask(current)
      BY <1>1, <2>4, <2>5, <2>6, <3>1, TaskCreated DEF IInv, playback
    <3>2. CASE UNCHANGED phrase
      BY <1>1, <1>5, <2>5, <2>6, <3>2, PhrasesLeft DEF IInv, Types, playback
    <3>3. QED
      BY <2>1, <3>1, <3>2
  <2>9. Types'
    BY <1>1, <1>2, <2>1, <2>3, <2>5, <2>8 DEF IInv, Types, ears, playback
  <2>10. QED
    BY <1>3, <2>3, <2>7, <2>8, <2>9 DEF IInv
<1>7. CASE ~(current # 0 /\ pipeline[current].running)
  <2> DEFINE x == [request EXCEPT !.pc = "unload"]
  <2>1. /\ op' = [op EXCEPT ![c] = x]
        /\ current' = 0 /\ voice' = FALSE
        /\ UNCHANGED <<pipeline, phrase>>
    BY <1>7 DEF StopCall
  <2>2. x \in Calls /\ x.pc = "unload"
    BY MovedCall DEF Stops
  <2> HIDE DEF x
  <2>3. CallInv' /\ op' \in [Caller -> Calls] /\ QueueInv'
    BY <1>4, <2>1, <2>2 DEF Stops
  <2>4. trouble' < 2 => \A g \in 1 .. Len(pipeline) : ~pipeline[g].running
    BY <1>2, <1>5, <1>7 DEF IInv, PipelineInv, Made
  <2>5. PipelineInv'
    BY <2>1, <2>4 DEF PipelineInv, Made
  <2>6. PhraseInv'
    BY <1>1, <1>2, <2>1, PhrasesKept DEF IInv, playback
  <2>7. Types'
    <3>1. current' \in Nat /\ current' <= Len(pipeline') /\ voice' \in BOOLEAN
      <4>1. Len(pipeline') = Len(pipeline) /\ current' = 0 /\ voice' = FALSE
        BY <2>1
      <4>2. 0 <= Len(pipeline)
        BY <1>5
      <4>3. QED
        BY <4>1, <4>2
    <3>2. QED
      BY <1>1, <1>2, <2>1, <2>3, <3>1 DEF IInv, Types, ears, playback
  <2>8. QED
    BY <1>3, <2>3, <2>5, <2>6, <2>7 DEF IInv
<1>8. QED
  BY <1>6, <1>7

LEMMA StopKeeps ==
    ASSUME IInv, NEW c \in Caller, Stop(c)
    PROVE  IInv'
<1>1. watch' \in {"off", "on", "cancelled", "dead"}
  BY DEF Stop, WatchdogStopped
<1>2. QED
  BY <1>1, StopCallKeeps, NoCallIsCall DEF Stop

LEMMA SetModeActiveKeeps ==
    ASSUME IInv, NEW c \in Caller, NEW m \in Mode, SetModeActive(c, m)
    PROVE  IInv'
<1> DEFINE x == [NoCall EXCEPT !.set = TRUE, !.mode = m]
<1>1. x \in Calls
  BY NoCallIsCall DEF Calls
<1>2. StopCall(c, x) /\ UNCHANGED watch
  BY DEF SetModeActive
<1> HIDE DEF x
<1>3. QED
  BY <1>1, <1>2, StopCallKeeps DEF IInv, Types

LEMMA SetModeInactiveKeeps ==
    ASSUME IInv, NEW c \in Caller, NEW m \in Mode, SetModeInactive(c, m),
           UNCHANGED <<watch, p95>>, tier' \in {"balanced", "light", "captions"}
    PROVE  IInv'
<1>1. /\ mode' = m /\ Arrive
      /\ UNCHANGED <<active, current, models, op, pipeline, playback, speech>>
  BY DEF SetModeInactive
<1>2. trouble' \in 0 .. 2 /\ (trouble' < 2 => trouble < 2)
  BY <1>1, Arrives DEF IInv
<1>3. CallInv' /\ PipelineInv' /\ ModelInv' /\ QueueInv' /\ PhraseInv'
  BY <1>1, <1>2, CallsKept, PipelinesKept, ModelsKept, QueueKept, PhrasesKept
  DEF IInv, models, ears, playback, speech
<1>4. Types'
  BY <1>1, <1>2 DEF IInv, Types, models, playback, speech
<1>5. QED
  BY <1>3, <1>4 DEF IInv

LEMMA StopInactiveKeeps ==
    ASSUME IInv, NEW c \in Caller, StopInactive(c)
    PROVE  IInv'
<1>1. /\ ~active /\ WatchdogStopped
      /\ UNCHANGED <<active, mode, current, models, op, pipeline, playback, tier,
                     p95, speech, trouble>>
  BY DEF StopInactive
<1>2. CallInv'
  BY <1>1 DEF IInv, CallInv
<1>3. PipelineInv' /\ ModelInv' /\ QueueInv' /\ PhraseInv'
  BY <1>1, PipelinesKept, ModelsKept, QueueKept, PhrasesKept
  DEF IInv, models, ears, playback, speech
<1>4. Types'
  BY <1>1 DEF IInv, Types, models, playback, speech, WatchdogStopped
<1>5. QED
  BY <1>2, <1>3, <1>4 DEF IInv

LEMMA GoesTo ==
    ASSUME Types, NEW c \in Caller, NEW pc \in {"none"} \cup Loads \cup Stops,
           GoTo(c, pc)
    PROVE  \E x \in Calls : op' = [op EXCEPT ![c] = x] /\ x.pc = pc
<1> DEFINE x == [op[c] EXCEPT !.pc = pc]
<1>1. op[c] \in Calls
  BY DEF Types
<1>2. x \in Calls /\ x.pc = pc
  BY <1>1, MovedCall
<1>3. op' = [op EXCEPT ![c] = x]
  BY DEF GoTo
<1>4. QED
  BY <1>2, <1>3

(* A call that is at an await is under way.                                 *)
LEMMA UnderWay ==
    ASSUME Types, NEW c \in Caller, op[c].pc # "none"
    PROVE  op[c] # NoCall /\ op[c] \in Calls
  BY NoCallIsCall DEF Types

(* What Raise and Swallowed leave of the watchdog.                          *)
LEMMA WatchTypes ==
    ASSUME Types, NEW c \in Caller, Raise(c) \/ Swallowed(c)
    PROVE  /\ watch' \in {"off", "on", "cancelled", "dead"}
           /\ UNCHANGED <<tier, p95>>
  BY DEF Types, Raise, Swallowed

LEMMA AsrLoadedKeeps ==
    ASSUME IInv, NEW c \in Caller, AsrLoaded(c)
    PROVE  IInv'
<1>1. /\ LoadsAsr(c) /\ ~Interrupted(c)
      /\ AsrTaken(Loading(c))
      /\ UNCHANGED <<active, mode, current, mt, voice, pipeline, playback, ladder,
                     speech, trouble>>
  BY DEF AsrLoaded, Resumes
<1>2. PICK x \in Calls : op' = [op EXCEPT ![c] = x] /\ x.pc \in {"load_ro", "load_mt"}
  <2>1. GoTo(c, "load_ro") \/ GoTo(c, "load_mt")
    BY DEF AsrLoaded
  <2>2. QED
    BY <2>1, GoesTo DEF IInv, Loads
<1>3. /\ op[c].pc \in Loads /\ op[c].pc \notin Halts /\ op[c] # NoCall
      /\ Loading(c) \in Ear
  BY <1>1, NoCallIsCall DEF LoadsAsr, Loads, Halts, Loading, Ear
<1>4. x.pc \in Loads /\ x.pc \notin Stops /\ x.pc \notin Halts /\ x.pc # "none"
  BY <1>2 DEF Loads, Stops, Halts
<1>5. trouble' < 2 => active' /\ ~Interrupted(c)'
  BY <1>1, <1>3 DEF IInv, CallInv, Interrupted, ladder
<1>6. /\ CallInv' /\ PipelineInv' /\ PhraseInv'
      /\ op' \in [Caller -> Calls] /\ op'[c] = x
      /\ \A d \in Caller : d # c => op'[d] = op[d]
  BY <1>1, <1>2, <1>3, <1>4, <1>5, CallGoesOn DEF speech, playback
<1>7. QueueInv'
  BY <1>1, <1>3, <1>6, QueueKept DEF IInv
<1>8. ModelInv'
  BY <1>1, <1>3, TakenHeld DEF IInv, ModelInv
<1>9. asr' \in [Ear -> [loaded : BOOLEAN, holds : BOOLEAN]] /\ refs' \in Nat
  BY <1>1, <1>3, EarTypes DEF IInv
<1>10. Types'
  BY <1>1, <1>6, <1>9 DEF IInv, Types, playback, ladder, speech
<1>11. QED
  BY <1>6, <1>7, <1>8, <1>10 DEF IInv

LEMMA LoadFailsKeeps ==
    ASSUME IInv, NEW c \in Caller, LoadFails(c)
    PROVE  IInv'
<1>1. /\ op[c].pc \in Loads
      /\ IF LoadsAsr(c) THEN AsrRaises(Loading(c)) ELSE UNCHANGED ears
      /\ Raise(c) /\ Worst(1)
      /\ op' = [op EXCEPT ![c] = NoCall]
      /\ UNCHANGED <<active, mode, current, mt, voice, pipeline, playback, speech>>
  BY DEF LoadFails, LoadsAsr, Loads, Raise
<1>2. trouble' \in 0 .. 2 /\ (trouble' < 2 => trouble < 2)
  BY <1>1, WorstGrows DEF IInv, Types
<1>3. /\ op[c].pc \notin Halts /\ op[c] # NoCall
      /\ LoadsAsr(c) => Loading(c) \in Ear
  BY <1>1, NoCallIsCall DEF LoadsAsr, Loads, Halts, Loading, Ear
<1>4. /\ CallInv' /\ PipelineInv' /\ PhraseInv'
      /\ op' \in [Caller -> Calls]
      /\ \A d \in Caller : d # c => op'[d] = op[d]
  BY <1>1, <1>2, <1>3, CallGoesOn, NoCallIsCall DEF speech, playback, Loads, Stops, Halts
<1>5. QueueInv'
  BY <1>1, <1>2, <1>3, <1>4, QueueKept DEF IInv
<1>6. ModelInv' /\ asr' \in [Ear -> [loaded : BOOLEAN, holds : BOOLEAN]] /\ refs' \in Nat
  <2>1. CASE LoadsAsr(c)
    <3>1. AsrRaises(Loading(c)) /\ Loading(c) \in Ear
      BY <1>1, <1>3, <2>1
    <3>2. asr' \in [Ear -> [loaded : BOOLEAN, holds : BOOLEAN]] /\ refs' \in Nat
      BY <3>1, EarTypes DEF IInv
    <3>3. ModelInv'
      BY <1>2, <3>1, RaisesHeld DEF IInv, ModelInv
    <3>4. QED
      BY <3>2, <3>3
  <2>2. CASE ~LoadsAsr(c)
    BY <1>1, <1>2, <2>2, ModelsKept, EarTypes DEF IInv
  <2>3. QED
    BY <2>1, <2>2
<1>7. watch' \in {"off", "on", "cancelled", "dead"} /\ UNCHANGED <<tier, p95>>
  BY <1>1, WatchTypes DEF IInv
<1>8. Types'
  BY <1>1, <1>2, <1>4, <1>6, <1>7 DEF IInv, Types, playback, speech
<1>9. QED
  BY <1>4, <1>5, <1>6, <1>8 DEF IInv

(* Only a watchdog that is being cancelled abandons a load, and that takes  *)
(* a stop that overlaps its call.                                           *)
LEMMA CancelledKeeps ==
    ASSUME IInv, NEW c \in Caller, Cancelled(c)
    PROVE  IInv'
<1>1. /\ Raise(c) /\ Worst(1)
      /\ op' = [op EXCEPT ![c] = NoCall]
      /\ UNCHANGED <<active, mode, current, mt, voice, pipeline, playback, speech>>
  BY DEF Cancelled, Raise
<1>2. trouble' \in 0 .. 2 /\ (trouble' < 2 => trouble < 2)
  BY <1>1, WorstGrows DEF IInv, Types
<1>3. op[c].pc \in {"close_stream", "unload"} \cup Loads
  BY DEF Cancelled, LoadsAsr, Loads
<1>4. op[c].pc \notin Halts /\ op[c] # NoCall
  BY <1>3, NoCallIsCall DEF Loads, Halts
<1>5. /\ CallInv' /\ PipelineInv' /\ PhraseInv'
      /\ op' \in [Caller -> Calls]
      /\ \A d \in Caller : d # c => op'[d] = op[d]
  BY <1>1, <1>2, <1>4, CallGoesOn, NoCallIsCall DEF speech, playback, Loads, Stops, Halts
<1>6. QueueInv'
  BY <1>1, <1>2, <1>4, <1>5, QueueKept DEF IInv
<1>7. ModelInv' /\ asr' \in [Ear -> [loaded : BOOLEAN, holds : BOOLEAN]] /\ refs' \in Nat
  <2>1. CASE UNCHANGED ears
    BY <1>2, <2>1, ModelsKept, EarTypes DEF IInv
  <2>2. CASE ~UNCHANGED ears
    <3>1. /\ c = Watchdog /\ LoadsAsr(c) /\ Interrupted(c)
          /\ AsrAbandoned(Loading(c)) \/ AsrRaises(Loading(c))
      BY <2>2 DEF Cancelled
    <3>2. op[c].pc \in Loads /\ Loading(c) \in Ear
      BY <3>1 DEF LoadsAsr, Loads, Loading, Ear
    <3>3. ~(trouble < 2)
      BY <3>1, <3>2 DEF IInv, CallInv
    <3>4. asr' \in [Ear -> [loaded : BOOLEAN, holds : BOOLEAN]] /\ refs' \in Nat
      BY <3>1, <3>2, EarTypes DEF IInv
    <3>5. QED
      BY <1>2, <3>3, <3>4 DEF ModelInv
  <2>3. QED
    BY <2>1, <2>2
<1>8. watch' \in {"off", "on", "cancelled", "dead"} /\ UNCHANGED <<tier, p95>>
  BY <1>1, WatchTypes DEF IInv
<1>9. Types'
  BY <1>1, <1>2, <1>5, <1>7, <1>8 DEF IInv, Types, playback, speech
<1>10. QED
  BY <1>5, <1>6, <1>7, <1>9 DEF IInv

(* A step of a stop, from one of its awaits to another.                     *)
LEMMA StopGoesOn ==
    ASSUME IInv, NEW c \in Caller, op[c].pc \in Stops,
           NEW pc \in Stops, GoTo(c, pc),
           UNCHANGED <<active, pipeline, phrase, heard, trouble>>,
           queue' = queue \/ queue' = Drained(queue)
    PROVE  /\ CallInv' /\ PipelineInv' /\ PhraseInv'
           /\ op' \in [Caller -> Calls] /\ op'[c].pc = pc
           /\ \A d \in Caller : d # c => op'[d] = op[d]
<1>1. PICK x \in Calls : op' = [op EXCEPT ![c] = x] /\ x.pc = pc
  BY GoesTo DEF IInv
<1>2. op[c] # NoCall
  BY NoCallIsCall DEF Stops, Halts
<1>3. x.pc \notin Loads /\ x.pc # "none"
  BY <1>1 DEF Loads, Stops, Halts
<1>4. trouble < 2 => ~active
  BY DEF IInv, CallInv
<1>5. QED
  BY <1>1, <1>2, <1>3, <1>4, CallGoesOn

LEMMA StreamClosedKeeps ==
    ASSUME IInv, NEW c \in Caller, StreamClosed(c)
    PROVE  IInv'
<1>1. /\ op[c].pc = "close_stream" /\ op[c].pc \in Stops /\ op[c].pc \notin Halts
      /\ UNCHANGED <<active, mode, ears, mt, pipeline, ladder, speech, trouble>>
  BY DEF StreamClosed, Stops, Halts
<1>2. ModelInv'
  BY <1>1, ModelsKept DEF IInv
<1>3. Len(pipeline) \in Nat
  BY LenProperties DEF IInv, Types
<1>4. CASE BeginHalt /\ GoTo(c, "halt") /\ UNCHANGED <<current, voice, queue>>
  <2>1. /\ CallInv' /\ PipelineInv' /\ PhraseInv'
        /\ op' \in [Caller -> Calls] /\ op'[c].pc = "halt"
    BY <1>1, <1>4, StopGoesOn DEF speech, Stops, Halts
  <2>2. QueueInv' /\ engine' \in [running : BOOLEAN, consumer : BOOLEAN, run : Nat]
    BY <1>4, <2>1, HaltBegins DEF IInv, Halts
  <2>3. Types'
    BY <1>1, <1>4, <2>1, <2>2 DEF IInv, Types, ears, ladder, speech
  <2>4. QED
    BY <1>2, <2>1, <2>2, <2>3 DEF IInv
<1>5. CASE BeginHalt /\ EndHalt /\ PipelineStopped(c)
  <2>1. GoTo(c, "unload") /\ current' = 0 /\ voice' = FALSE /\ queue' = Drained(queue)
    BY <1>5 DEF PipelineStopped, EndHalt
  <2>2. /\ CallInv' /\ PipelineInv' /\ PhraseInv' /\ op' \in [Caller -> Calls]
    BY <1>1, <2>1, StopGoesOn DEF speech, Stops
  <2>3. /\ QueueInv' /\ queue' \in Seq(ChunkRecords)
        /\ engine' \in [running : BOOLEAN, consumer : BOOLEAN, run : Nat]
    BY <1>1, <1>5, HaltEnds DEF IInv
  <2>4. current' \in Nat /\ current' <= Len(pipeline')
    BY <1>1, <1>3, <2>1
  <2>5. Types'
    BY <1>1, <2>1, <2>2, <2>3, <2>4 DEF IInv, Types, ears, ladder, speech
  <2>6. QED
    BY <1>2, <2>2, <2>3, <2>5 DEF IInv
<1>6. CASE PipelineStopped(c) /\ UNCHANGED playback
  <2>1. GoTo(c, "unload") /\ current' = 0 /\ voice' = FALSE
    BY <1>6 DEF PipelineStopped
  <2>2. /\ CallInv' /\ PipelineInv' /\ PhraseInv' /\ op' \in [Caller -> Calls]
        /\ op'[c].pc = "unload" /\ \A d \in Caller : d # c => op'[d] = op[d]
    BY <1>1, <1>6, <2>1, StopGoesOn DEF speech, playback, Stops
  <2>3. QueueInv'
    BY <1>1, <1>6, <2>2, QueueKept DEF IInv
  <2>4. current' \in Nat /\ current' <= Len(pipeline')
    BY <1>1, <1>3, <2>1
  <2>5. Types'
    BY <1>1, <1>6, <2>1, <2>2, <2>4 DEF IInv, Types, ears, ladder, speech, playback
  <2>6. QED
    BY <1>2, <2>2, <2>3, <2>5 DEF IInv
<1>7. QED
  BY <1>4, <1>5, <1>6 DEF StreamClosed

LEMMA HaltedKeeps ==
    ASSUME IInv, NEW c \in Caller, Halted(c)
    PROVE  IInv'
<1>1. /\ op[c].pc \in Stops /\ EndHalt /\ queue' = Drained(queue)
      /\ GoTo(c, "unload") /\ current' = 0 /\ voice' = FALSE
      /\ Swallowed(c)
      /\ UNCHANGED <<active, mode, ears, mt, pipeline, engine, speech, trouble>>
  BY DEF Halted, PipelineStopped, EndHalt, Stops, Halts
<1>2. CallInv' /\ PipelineInv' /\ PhraseInv' /\ op' \in [Caller -> Calls]
  BY <1>1, StopGoesOn DEF speech, Stops
<1>3. /\ QueueInv' /\ queue' \in Seq(ChunkRecords)
  BY <1>1, HaltEnds DEF IInv
<1>4. ModelInv'
  BY <1>1, ModelsKept DEF IInv
<1>5. current' \in Nat /\ current' <= Len(pipeline')
  <2>1. Len(pipeline) \in Nat
    BY LenProperties DEF IInv, Types
  <2>2. QED
    BY <1>1, <2>1
<1>6. watch' \in {"off", "on", "cancelled", "dead"} /\ UNCHANGED <<tier, p95>>
  BY <1>1, WatchTypes DEF IInv
<1>7. Types'
  BY <1>1, <1>2, <1>3, <1>5, <1>6 DEF IInv, Types, ears, speech
<1>8. QED
  BY <1>2, <1>3, <1>4, <1>7 DEF IInv

(* A stop has returned: the call ends, or its set_mode starts again.        *)
LEMMA StopReturnsKeeps ==
    ASSUME IInv, NEW c \in Caller, op[c].pc \in {"unload", "last_halt"},
           StopReturns(c), UNCHANGED <<pipeline, phrase, heard, trouble>>,
           queue' = Drained(queue)
    PROVE  /\ CallInv' /\ PipelineInv' /\ PhraseInv'
           /\ op' \in [Caller -> Calls] /\ mode' \in Mode /\ active' \in BOOLEAN
           /\ watch' \in {"off", "on", "cancelled", "dead"}
           /\ tier' \in {"balanced", "light", "captions"} /\ p95' = p95
<1>1. op[c] # NoCall /\ op[c] \in Calls
  BY NoCallIsCall DEF IInv, Types
<1>2. mode' \in Mode
  BY <1>1 DEF StopReturns, Calls, IInv, Types
<1>3. CASE op[c].set /\ ~active
  <2> DEFINE x == [op[c] EXCEPT !.pc = "load_en", !.of = 0]
  <2>1. /\ active' = TRUE /\ op' = [op EXCEPT ![c].pc = "load_en", ![c].of = 0]
        /\ Swallowed(c)
    BY <1>3 DEF StopReturns
  <2>2. x \in Calls /\ x.pc = "load_en"
    BY <1>1 DEF Calls, Loads
  <2>3. op' = [op EXCEPT ![c] = x]
    BY <2>1
  <2>4. ~Interrupted(c)'
    BY <2>1 DEF Swallowed, Interrupted
  <2> HIDE DEF x
  <2>5. CallInv' /\ PipelineInv' /\ PhraseInv' /\ op' \in [Caller -> Calls]
    <3>1. x.pc \notin Stops /\ x.pc # "none"
      BY <2>2 DEF Stops, Halts
    <3>2. QED
      BY <1>1, <2>1, <2>2, <2>3, <2>4, <3>1, CallGoesOn
  <2>6. watch' \in {"off", "on", "cancelled", "dead"} /\ UNCHANGED <<tier, p95>>
    BY <2>1, WatchTypes DEF IInv
  <2>7. QED
    BY <1>2, <2>1, <2>5, <2>6 DEF IInv, Types
<1>4. CASE ~(op[c].set /\ ~active)
  <2>1. Return(c) /\ UNCHANGED active /\ op' = [op EXCEPT ![c] = NoCall]
    BY <1>4 DEF StopReturns, Return
  <2>2. CallInv' /\ PipelineInv' /\ PhraseInv' /\ op' \in [Caller -> Calls]
    BY <1>1, <2>1, CallGoesOn, NoCallIsCall DEF Loads, Stops, Halts
  <2>3. /\ watch' \in {"off", "on", "cancelled", "dead"}
        /\ tier' \in {"balanced", "light", "captions"} /\ p95' = p95
    BY <2>1 DEF Return, TierOf, IInv, Types
  <2>4. QED
    BY <1>2, <2>1, <2>2, <2>3 DEF IInv, Types
<1>5. QED
  BY <1>3, <1>4

LEMMA UnloadedKeeps ==
    ASSUME IInv, NEW c \in Caller, Unloaded(c)
    PROVE  IInv'
<1>1. /\ op[c].pc = "unload" /\ op[c].pc \in Stops /\ op[c].pc \notin Halts
      /\ mt' = FALSE /\ Released /\ BeginHalt
      /\ UNCHANGED <<current, voice, pipeline, speech, trouble>>
  BY DEF Unloaded, Stops, Halts
<1>2. asr' \in [Ear -> [loaded : BOOLEAN, holds : BOOLEAN]] /\ refs' \in Nat
  BY <1>1, EarTypes DEF IInv
<1>3. ModelInv'
  BY <1>1, ReleasedHeld DEF IInv, ModelInv
<1>4. CASE GoTo(c, "last_halt") /\ UNCHANGED <<active, mode, queue, ladder>>
  <2>1. /\ CallInv' /\ PipelineInv' /\ PhraseInv'
        /\ op' \in [Caller -> Calls] /\ op'[c].pc = "last_halt"
    BY <1>1, <1>4, StopGoesOn DEF speech, Stops, Halts
  <2>2. QueueInv' /\ engine' \in [running : BOOLEAN, consumer : BOOLEAN, run : Nat]
    BY <1>1, <1>4, <2>1, HaltBegins DEF IInv, Halts
  <2>3. Types'
    BY <1>1, <1>2, <1>4, <2>1, <2>2 DEF IInv, Types, ladder, speech
  <2>4. QED
    BY <1>3, <2>1, <2>2, <2>3 DEF IInv
<1>5. CASE EndHalt /\ StopReturns(c)
  <2>1. /\ CallInv' /\ PipelineInv' /\ PhraseInv'
        /\ op' \in [Caller -> Calls] /\ mode' \in Mode /\ active' \in BOOLEAN
        /\ watch' \in {"off", "on", "cancelled", "dead"}
        /\ tier' \in {"balanced", "light", "captions"} /\ p95' = p95
    BY <1>1, <1>5, StopReturnsKeeps DEF speech, EndHalt
  <2>2. /\ QueueInv' /\ queue' \in Seq(ChunkRecords)
        /\ engine' \in [running : BOOLEAN, consumer : BOOLEAN, run : Nat]
    BY <1>1, <1>5, HaltEnds DEF IInv
  <2>3. Types'
    BY <1>1, <1>2, <2>1, <2>2 DEF IInv, Types, speech
  <2>4. QED
    BY <1>3, <2>1, <2>2, <2>3 DEF IInv
<1>6. QED
  BY <1>4, <1>5 DEF Unloaded

LEMMA LastHaltedKeeps ==
    ASSUME IInv, NEW c \in Caller, LastHalted(c)
    PROVE  IInv'
<1>1. /\ op[c].pc = "last_halt" /\ EndHalt /\ StopReturns(c)
      /\ UNCHANGED <<current, models, pipeline, engine, speech, trouble>>
  BY DEF LastHalted
<1>2. /\ CallInv' /\ PipelineInv' /\ PhraseInv'
      /\ op' \in [Caller -> Calls] /\ mode' \in Mode /\ active' \in BOOLEAN
      /\ watch' \in {"off", "on", "cancelled", "dead"}
      /\ tier' \in {"balanced", "light", "captions"} /\ p95' = p95
  BY <1>1, StopReturnsKeeps DEF speech, EndHalt
<1>3. /\ QueueInv' /\ queue' \in Seq(ChunkRecords)
  BY <1>1, HaltEnds DEF IInv
<1>4. ModelInv'
  BY <1>1, ModelsKept DEF IInv, models, ears
<1>5. Types'
  BY <1>1, <1>2, <1>3 DEF IInv, Types, models, speech
<1>6. QED
  BY <1>2, <1>3, <1>4, <1>5 DEF IInv

(* The rest of start: the pipeline that is made is the only one that runs.  *)
LEMMA MtLoadedKeeps ==
    ASSUME IInv, NEW c \in Caller, MtLoaded(c)
    PROVE  IInv'
<1>1. /\ op[c].pc = "load_mt" /\ Streams /\ mt' = TRUE /\ voice' = TRUE
      /\ pipeline' = Append(pipeline, NewPipeline) /\ current' = Len(pipeline) + 1
      /\ StartPlayback /\ Return(c) /\ op' = [op EXCEPT ![c] = NoCall]
      /\ UNCHANGED <<active, mode, speech, trouble>>
  BY DEF MtLoaded, Return, Made
<1>2. /\ op[c] # NoCall /\ op[c].pc \in Loads
      /\ op[c].pc \notin Halts /\ NoCall.pc \notin Loads \cup Stops
  BY <1>1, NoCallIsCall DEF Loads, Stops, Halts
<1>3. trouble < 2 => /\ \A d \in Caller : d # c => op[d] = NoCall
                     /\ Calm /\ active
  BY <1>2, OnlyCall DEF IInv, CallInv
<1>4. /\ CallInv' /\ op' \in [Caller -> Calls] /\ op'[c] = NoCall
      /\ \A d \in Caller : d # c => op'[d] = op[d]
  BY <1>1, <1>2, <1>3, CallMoves, NoCallIsCall DEF IInv
<1>5. /\ pipeline' \in Seq(Pipelines) /\ Len(pipeline') = Len(pipeline) + 1
      /\ Len(pipeline) \in Nat
      /\ \A g \in 1 .. Len(pipeline) : pipeline'[g] = pipeline[g]
  <2>1. NewPipeline \in Pipelines
    BY DEF NewPipeline, Pipelines
  <2>2. QED
    BY <1>1, <2>1, AppendProperties, LenProperties DEF IInv, Types
<1>6. /\ QueueInv'
      /\ queue' \in Seq(ChunkRecords) /\ (queue' = queue \/ queue' = Drained(queue))
      /\ engine' \in [running : BOOLEAN, consumer : BOOLEAN, run : Nat]
      /\ engine'.running
  <2>1. trouble < 2 => \A d \in Caller : /\ op[d].pc \notin Halts
                                          /\ op'[d].pc \notin Halts
    BY <1>2, <1>3, <1>4, NoCallIsCall DEF Halts
  <2>2. QED
    BY <1>1, <2>1, PlaybackStarts DEF IInv
<1>7. trouble' < 2 => \A g \in 1 .. Len(pipeline) : ~pipeline'[g].running
  BY <1>1, <1>3, <1>5 DEF Calm, Made
<1>8. PipelineInv'
  <2>1. trouble' < 2 => active' /\ Quiet'
    BY <1>1, <1>3, <1>4 DEF Quiet
  <2>2. ASSUME trouble' < 2, NEW g \in 1 .. Len(pipeline'), pipeline'[g].running
        PROVE  g = current'
    <3>1. g \notin 1 .. Len(pipeline)
      BY <1>7, <2>2
    <3>2. QED
      BY <1>1, <1>5, <3>1
  <2>3. QED
    BY <1>6, <2>1, <2>2 DEF PipelineInv, Made
<1>9. PhraseInv'
  <2>1. Len(pipeline) <= Len(pipeline') /\ UNCHANGED <<phrase, heard>>
    BY <1>1, <1>5 DEF speech
  <2>2. QED
    BY <1>5, <1>6, <1>7, <2>1, PhrasesLeft DEF IInv
<1>10. ModelInv'
  BY <1>1, StreamsHeld DEF IInv, ModelInv
<1>11. asr' \in [Ear -> [loaded : BOOLEAN, holds : BOOLEAN]] /\ refs' \in Nat
  BY <1>1, EarTypes DEF IInv
<1>12. /\ watch' \in {"off", "on", "cancelled", "dead"}
       /\ tier' \in {"balanced", "light", "captions"} /\ p95' = p95
  BY <1>1 DEF Return, TierOf, IInv, Types
<1>13. current' \in Nat /\ current' <= Len(pipeline')
  BY <1>1, <1>5
<1>14. Types'
  BY <1>1, <1>4, <1>5, <1>6, <1>11, <1>12, <1>13 DEF IInv, Types, speech
<1>15. QED
  BY <1>4, <1>6, <1>8, <1>9, <1>10, <1>14 DEF IInv

-----------------------------------------------------------------------------
(* Phrases.                                                                 *)

(* A step of a phrase task that moves no chunk.                             *)
LEMMA TaskMoves ==
    ASSUME IInv, NEW p \in 1 .. Phrases, NEW pc \in {"loading", "translating", "speaking", "done"},
           phrase[p].pc # "none", phrase' = [phrase EXCEPT ![p].pc = pc],
           UNCHANGED <<active, current, ears, op, pipeline, playback, watch, heard>>,
           trouble' < 2 => trouble < 2
    PROVE  /\ CallInv' /\ PipelineInv' /\ ModelInv' /\ QueueInv' /\ PhraseInv'
           /\ phrase' \in [1 .. Phrases -> Tasks]
<1>1. CallInv' /\ PipelineInv' /\ ModelInv' /\ QueueInv'
  BY CallsKept, PipelinesKept, ModelsKept, QueueKept DEF IInv, playback
<1>2. /\ phrase' \in [1 .. Phrases -> Tasks]
      /\ \A q \in 1 .. Phrases : /\ phrase'[q].of = phrase[q].of
                                 /\ phrase'[q].chunks = phrase[q].chunks
                                 /\ q # p => phrase'[q] = phrase[q]
      /\ phrase'[p].pc = pc
  BY DEF IInv, Types, Tasks
<1>3. phrase'[p] # NoPhrase
  BY <1>2 DEF NoPhrase
<1>4. PhraseInv'
  BY <1>2, <1>3 DEF IInv, PhraseInv, playback
<1>5. QED
  BY <1>1, <1>2, <1>4

LEMMA PhraseCommittedKeeps ==
    ASSUME IInv, NEW g \in 1 .. Made, PhraseCommitted(g)
    PROVE  IInv'
<1>1. /\ CreateTask(g)
      /\ UNCHANGED <<active, mode, current, models, op, pipeline, playback, ladder,
                     heard, trouble>>
  BY DEF PhraseCommitted
<1>2. CallInv' /\ PipelineInv' /\ ModelInv' /\ QueueInv'
  BY <1>1, CallsKept, PipelinesKept, ModelsKept, QueueKept
  DEF IInv, playback, ladder, models, ears
<1>3. PhraseInv' /\ phrase' \in [1 .. Phrases -> Tasks]
  BY <1>1, TaskCreated DEF IInv, playback, Made
<1>4. Types'
  BY <1>1, <1>3 DEF IInv, Types, playback, ladder, models
<1>5. QED
  BY <1>2, <1>3, <1>4 DEF IInv

(* A chunk that comes while its pipeline runs finds the engine running.     *)
LEMMA ChunkArrivesKeeps ==
    ASSUME IInv, NEW p \in 1 .. Phrases, ChunkArrives(p)
    PROVE  IInv'
<1> DEFINE c == [phrase |-> p, run |-> engine.run]
<1>1. /\ phrase[p].pc = "speaking" /\ ~Blocked(p)
      /\ phrase' = [phrase EXCEPT ![p].chunks = @ + 1]
      /\ queue' = IF engine.running THEN Append(queue, c) ELSE queue
      /\ UNCHANGED <<active, mode, current, models, op, pipeline, engine, ladder,
                     heard, trouble>>
  BY DEF ChunkArrives
<1>2. CallInv' /\ PipelineInv' /\ ModelInv'
  BY <1>1, CallsKept, PipelinesKept, ModelsKept DEF IInv, ladder, models, ears
<1> DEFINE y == [phrase[p] EXCEPT !.chunks = @ + 1]
<1>0. /\ y \in Tasks /\ y.of = phrase[p].of /\ y.pc = phrase[p].pc
      /\ y.chunks = phrase[p].chunks + 1
      /\ phrase' = [phrase EXCEPT ![p] = y]
  <2>1. phrase[p] \in Tasks /\ phrase \in [1 .. Phrases -> Tasks]
    BY DEF IInv, Types
  <2>2. phrase' = [phrase EXCEPT ![p] = y]
    BY <1>1
  <2>3. QED
    BY <2>1, <2>2 DEF Tasks
<1> HIDE DEF y
<1>3. /\ phrase' \in [1 .. Phrases -> Tasks]
      /\ \A q \in 1 .. Phrases : phrase'[q].of = phrase[q].of
      /\ \A q \in 1 .. Phrases : q # p => phrase'[q] = phrase[q]
      /\ phrase'[p].chunks = phrase[p].chunks + 1
      /\ phrase'[p].pc = "speaking"
  <2>1. phrase \in [1 .. Phrases -> Tasks]
    BY DEF IInv, Types
  <2>2. phrase'[p] = y /\ \A q \in 1 .. Phrases : q # p => phrase'[q] = phrase[q]
    BY <1>0, <2>1
  <2>3. QED
    BY <1>0, <1>1, <2>1, <2>2
<1>4. phrase'[p] # NoPhrase /\ phrase[p] # NoPhrase
  BY <1>1, <1>3 DEF NoPhrase
<1>5. c \in ChunkRecords /\ c.phrase = p /\ c.run = engine.run
  BY DEF ChunkRecords, IInv, Types
<1> HIDE DEF c
<1>6. queue \in Seq(ChunkRecords) /\ Distinct(queue) /\ Len(queue) \in Nat
  BY LenProperties DEF IInv, Types, QueueInv
<1>7. \A i \in Capacity + 1 .. Len(queue) : queue[i].phrase # c.phrase
  BY <1>1, <1>5 DEF Blocked
<1>8. CASE ~engine.running
  <2>1. queue' = queue
    BY <1>1, <1>8
  <2>2. QueueInv'
    BY <1>1, <2>1, QueueKept DEF IInv, playback
  <2>3. PhraseInv'
    <3>1. trouble < 2 => \A g \in 1 .. Made : ~pipeline[g].running
      BY <1>8 DEF IInv, PipelineInv
    <3>2. \A q \in 1 .. Phrases : phrase[q].of # 0 => phrase[q].of \in 1 .. Made
      <4>1. \A q \in 1 .. Phrases : phrase[q].of \in Nat /\ phrase[q].of <= Len(pipeline)
        BY DEF IInv, Types, Tasks, PhraseInv
      <4>2. Len(pipeline) \in Nat
        BY LenProperties DEF IInv, Types
      <4>3. QED
        BY <4>1, <4>2 DEF Made
    <3>3. QED
      BY <1>1, <1>3, <1>4, <2>1, <3>1, <3>2 DEF IInv, PhraseInv
  <2>4. Types'
    BY <1>1, <1>3, <2>1 DEF IInv, Types, ladder, models
  <2>5. QED
    BY <1>2, <2>2, <2>3, <2>4 DEF IInv
<1>9. CASE engine.running
  <2>1. queue' = Append(queue, c)
    BY <1>1, <1>9
  <2>2. /\ queue' \in Seq(ChunkRecords) /\ Len(queue') = Len(queue) + 1
        /\ \A i \in 1 .. Len(queue) : queue'[i] = queue[i]
        /\ queue'[Len(queue) + 1] = c
        /\ Distinct(queue')
        /\ Cardinality(Queued(queue', p)) = Cardinality(Queued(queue, p)) + 1
        /\ \A q : q # p => Queued(queue', q) = Queued(queue, q)
    BY <1>5, <1>6, <1>7, <2>1, PutChunk
  <2>3. QueueInv'
    <3>1. ASSUME trouble < 2, NEW i \in 1 .. Len(queue') PROVE queue'[i].run = engine.run
      <4>1. CASE i \in 1 .. Len(queue)
        BY <1>9, <2>2, <3>1, <4>1 DEF IInv, QueueInv
      <4>2. CASE i = Len(queue) + 1
        BY <1>5, <2>2, <4>2
      <4>3. QED
        BY <1>6, <2>2, <4>1, <4>2
    <3>2. QED
      BY <1>1, <1>9, <2>2, <3>1 DEF IInv, QueueInv, Distinct
  <2>4. PhraseInv'
    <3>1. Cardinality(Queued(queue, p)) \in Nat /\ phrase[p].chunks \in Nat /\ heard[p] \in Nat
      BY <1>6, QueuedIsFinite DEF IInv, Types, Tasks
    <3>2. ASSUME trouble < 2, NEW q \in 1 .. Phrases, phrase[q].of # 0,
                 pipeline[phrase[q].of].running
          PROVE  phrase'[q].chunks = heard[q] + Cardinality(Queued(queue', q))
      <4>1. phrase[q].chunks = heard[q] + Cardinality(Queued(queue, q))
        BY <3>2 DEF IInv, PhraseInv
      <4>2. CASE q = p
        BY <1>3, <2>2, <3>1, <4>1, <4>2
      <4>3. CASE q # p
        BY <1>3, <2>2, <4>1, <4>3
      <4>4. QED
        BY <4>2, <4>3
    <3>3. \A q \in 1 .. Phrases :
            phrase'[q] = NoPhrase => heard'[q] = 0 /\ Queued(queue', q) = {}
      BY <1>1, <1>3, <1>4, <2>2 DEF IInv, PhraseInv
    <3>4. QED
      BY <1>1, <1>3, <3>2, <3>3 DEF IInv, PhraseInv
  <2>5. Types'
    BY <1>1, <1>3, <2>2 DEF IInv, Types, ladder, models
  <2>6. QED
    BY <1>2, <2>3, <2>4, <2>5 DEF IInv
<1>10. QED
  BY <1>8, <1>9

LEMMA PlayKeeps ==
    ASSUME IInv, Play
    PROVE  IInv'
<1> DEFINE h == Head(queue).phrase
<1>1. /\ queue # <<>> /\ queue' = Tail(queue)
      /\ heard' = [heard EXCEPT ![h] = @ + 1]
      /\ UNCHANGED <<active, mode, current, models, op, pipeline, phrase, engine,
                     ladder, trouble>>
  BY DEF Play
<1>2. CallInv' /\ PipelineInv' /\ ModelInv'
  BY <1>1, CallsKept, PipelinesKept, ModelsKept DEF IInv, ladder, models, ears
<1>3. queue \in Seq(ChunkRecords) /\ Distinct(queue) /\ Len(queue) \in Nat
  BY LenProperties DEF IInv, Types, QueueInv
<1>4. /\ queue' \in Seq(ChunkRecords) /\ Len(queue') = Len(queue) - 1 /\ Len(queue) > 0
      /\ \A i \in 1 .. Len(queue') : i + 1 \in 1 .. Len(queue) /\ queue'[i] = queue[i + 1]
      /\ h \in 1 .. Phrases
      /\ Distinct(queue')
      /\ Queued(queue, h) # {}
      /\ Cardinality(Queued(queue, h)) = Cardinality(Queued(queue', h)) + 1
      /\ \A p : p # h => Cardinality(Queued(queue', p)) = Cardinality(Queued(queue, p))
      /\ \A p : Queued(queue, p) = {} => Queued(queue', p) = {}
  BY <1>1, <1>3, TakeChunk
<1> HIDE DEF h
<1>5. /\ heard' \in [1 .. Phrases -> Nat] /\ heard'[h] = heard[h] + 1
      /\ \A p \in 1 .. Phrases : p # h => heard'[p] = heard[p]
  BY <1>1, <1>4 DEF IInv, Types
<1>6. QueueInv'
  <2>1. /\ trouble' < 2 /\ engine'.running =>
              \A i \in 1 .. Len(queue') : queue'[i].run = engine'.run
        /\ Len(queue) <= Capacity => Len(queue') <= Capacity
    BY <1>1, <1>3, <1>4, Constants DEF IInv, QueueInv
  <2>2. QED
    BY <1>1, <1>4, <2>1 DEF IInv, QueueInv, Distinct
<1>7. PhraseInv'
  <2>1. phrase[h] # NoPhrase
    BY <1>4 DEF IInv, PhraseInv
  <2>2. \A p \in 1 .. Phrases :
          phrase'[p] = NoPhrase => heard'[p] = 0 /\ Queued(queue', p) = {}
    BY <1>1, <1>4, <1>5, <2>1 DEF IInv, PhraseInv
  <2>3. ASSUME NEW p \in 1 .. Phrases,
               phrase[p].chunks = heard[p] + Cardinality(Queued(queue, p))
        PROVE  phrase[p].chunks = heard'[p] + Cardinality(Queued(queue', p))
    <3>1. /\ Cardinality(Queued(queue', p)) \in Nat /\ Cardinality(Queued(queue, p)) \in Nat
          /\ heard[p] \in Nat
      BY <1>3, <1>4, QueuedIsFinite DEF IInv, Types
    <3>2. CASE p = h
      <4>1. /\ heard'[p] = heard[p] + 1
            /\ Cardinality(Queued(queue, p)) = Cardinality(Queued(queue', p)) + 1
        BY <1>4, <1>5, <3>2
      <4>2. QED
        BY <2>3, <3>1, <4>1
    <3>3. CASE p # h
      BY <1>4, <1>5, <2>3, <3>3
    <3>4. QED
      BY <3>2, <3>3
  <2>4. QED
    BY <1>1, <2>2, <2>3 DEF IInv, PhraseInv
<1>8. Types'
  BY <1>1, <1>4, <1>5 DEF IInv, Types, ladder, models
<1>9. QED
  BY <1>2, <1>6, <1>7, <1>8 DEF IInv

LEMMA PhraseStepKeeps ==
    ASSUME IInv, NEW p \in 1 .. Phrases, PhraseStep(p)
    PROVE  IInv'
<1>1. CASE TranslateBegins(p)
  <2>1. /\ phrase[p].pc # "none"
        /\ UNCHANGED <<active, mode, current, models, op, pipeline, playback, ladder,
                       heard, trouble>>
        /\ \/ phrase' = [phrase EXCEPT ![p].pc = "loading"]
           \/ phrase' = [phrase EXCEPT ![p].pc = "translating"]
    BY <1>1 DEF TranslateBegins
  <2>2. /\ CallInv' /\ PipelineInv' /\ ModelInv' /\ QueueInv' /\ PhraseInv'
        /\ phrase' \in [1 .. Phrases -> Tasks]
    BY <2>1, TaskMoves DEF models, ears, ladder
  <2>3. QED
    BY <2>1, <2>2 DEF IInv, Types, models, playback, ladder
<1>2. CASE TranslatorLoaded(p)
  <2>1. /\ phrase[p].pc # "none" /\ mt' = TRUE /\ Worst(1)
        /\ phrase' = [phrase EXCEPT ![p].pc = "translating"]
        /\ UNCHANGED <<active, mode, current, ears, voice, op, pipeline, playback,
                       ladder, heard>>
    BY <1>2 DEF TranslatorLoaded
  <2>2. trouble' \in 0 .. 2 /\ (trouble' < 2 => trouble < 2)
    BY <2>1, WorstGrows DEF IInv, Types
  <2>3. /\ CallInv' /\ PipelineInv' /\ ModelInv' /\ QueueInv' /\ PhraseInv'
        /\ phrase' \in [1 .. Phrases -> Tasks]
    BY <2>1, <2>2, TaskMoves DEF ladder
  <2>4. QED
    BY <2>1, <2>2, <2>3 DEF IInv, Types, ears, playback, ladder
<1>3. CASE Translated(p)
  <2>1. /\ phrase[p].pc # "none"
        /\ phrase' = [phrase EXCEPT ![p].pc = "speaking"]
        /\ UNCHANGED <<active, mode, current, models, op, pipeline, playback, ladder,
                       heard, trouble>>
    BY <1>3 DEF Translated
  <2>2. /\ CallInv' /\ PipelineInv' /\ ModelInv' /\ QueueInv' /\ PhraseInv'
        /\ phrase' \in [1 .. Phrases -> Tasks]
    BY <2>1, TaskMoves DEF models, ears, ladder
  <2>3. QED
    BY <2>1, <2>2 DEF IInv, Types, models, playback, ladder
<1>4. CASE PhraseDone(p)
  <2>1. /\ phrase[p].pc # "none" /\ p95' \in Latency
        /\ phrase' = [phrase EXCEPT ![p].pc = "done"]
        /\ UNCHANGED <<active, mode, current, models, op, pipeline, playback, watch,
                       tier, heard, trouble>>
    BY <1>4 DEF PhraseDone, Recorded, IInv, Types
  <2>2. /\ CallInv' /\ PipelineInv' /\ ModelInv' /\ QueueInv' /\ PhraseInv'
        /\ phrase' \in [1 .. Phrases -> Tasks]
    BY <2>1, TaskMoves DEF models, ears
  <2>3. QED
    BY <2>1, <2>2 DEF IInv, Types, models, playback
<1>5. QED
  BY <1>1, <1>2, <1>3, <1>4, ChunkArrivesKeeps DEF PhraseStep

-----------------------------------------------------------------------------
(* The watchdog and the requests.                                           *)

LEMMA WatchesKeeps ==
    ASSUME IInv, Watches
    PROVE  IInv'
<1>1. ASSUME NEW m \in Mode, WatchdogSets(m)
      PROVE  IInv'
  <2>1. CASE SetModeActive(Watchdog, m)
    BY <2>1, SetModeActiveKeeps, Constants
  <2>2. CASE SetModeInactive(Watchdog, m) /\ tier' = TierOf(m) /\ UNCHANGED <<watch, p95>>
    <3>1. tier' \in {"balanced", "light", "captions"}
      BY <2>2 DEF TierOf
    <3>2. QED
      BY <2>2, <3>1, SetModeInactiveKeeps, Constants
  <2>3. CASE /\ UNCHANGED <<active, mode, current, models, op, pipeline, playback,
                            speech, trouble>>
             /\ tier' = TierOf(m) /\ UNCHANGED <<watch, p95>>
    <3>1. CallInv' /\ PipelineInv' /\ ModelInv' /\ QueueInv' /\ PhraseInv'
      BY <2>3, CallsKept, PipelinesKept, ModelsKept, QueueKept, PhrasesKept
      DEF IInv, models, ears, playback, speech
    <3>2. Types'
      BY <2>3 DEF IInv, Types, models, playback, speech, TierOf
    <3>3. QED
      BY <3>1, <3>2 DEF IInv
  <2>4. QED
    BY <1>1, <2>1, <2>2, <2>3 DEF WatchdogSets
<1>2. CASE Relieve
  <2>1. /\ tier' = "light"
        /\ UNCHANGED <<active, mode, current, models, op, pipeline, playback, watch,
                       p95, speech, trouble>>
    BY <1>2 DEF Relieve
  <2>2. CallInv' /\ PipelineInv' /\ ModelInv' /\ QueueInv' /\ PhraseInv'
    BY <2>1, CallsKept, PipelinesKept, ModelsKept, QueueKept, PhrasesKept
    DEF IInv, models, ears, playback, speech
  <2>3. Types'
    BY <2>1 DEF IInv, Types, models, playback, speech
  <2>4. QED
    BY <2>2, <2>3 DEF IInv
<1>3. CASE Downgrade
  BY <1>1, <1>3 DEF Downgrade, Mode
<1>4. CASE Upgrade
  BY <1>1, <1>4 DEF Upgrade, Mode
<1>5. QED
  BY <1>2, <1>3, <1>4 DEF Watches

LEMMA SetModeKeeps ==
    ASSUME IInv, NEW c \in Caller, NEW m \in Mode, SetMode(c, m)
    PROVE  IInv'
<1>1. CASE SetModeActive(c, m)
  BY <1>1, SetModeActiveKeeps
<1>2. CASE SetModeInactive(c, m) /\ UNCHANGED ladder
  BY <1>2, SetModeInactiveKeeps DEF IInv, Types, ladder
<1>3. QED
  BY <1>1, <1>2 DEF SetMode

LEMMA CallStepKeeps ==
    ASSUME IInv, NEW c \in Caller, CallStep(c)
    PROVE  IInv'
  BY AsrLoadedKeeps, MtLoadedKeeps, LoadFailsKeeps, StreamClosedKeeps, HaltedKeeps,
     UnloadedKeeps, LastHaltedKeeps
  DEF CallStep

-----------------------------------------------------------------------------
(* The inductive invariant.                                                 *)

LEMMA IInvInit ==
    ASSUME Init
    PROVE  IInv
<1>1. Types
  <2>1. /\ NoCall \in Calls /\ NoPhrase \in Tasks
        /\ <<>> \in Seq(Pipelines) /\ <<>> \in Seq(ChunkRecords)
    BY NoCallIsCall DEF Tasks, NoPhrase
  <2>2. /\ op \in [Caller -> Calls] /\ phrase \in [1 .. Phrases -> Tasks]
        /\ heard \in [1 .. Phrases -> Nat]
        /\ asr \in [Ear -> [loaded : BOOLEAN, holds : BOOLEAN]]
        /\ engine \in [running : BOOLEAN, consumer : BOOLEAN, run : Nat]
    BY <2>1 DEF Init
  <2>3. Len(pipeline) = 0 /\ pipeline \in Seq(Pipelines) /\ queue \in Seq(ChunkRecords)
    BY <2>1 DEF Init
  <2>4. /\ current = 0 /\ current <= Len(pipeline) /\ refs = 0
        /\ trouble \in 0 .. 2 /\ p95 \in Latency
    BY <2>3 DEF Init
  <2>5. /\ active \in BOOLEAN /\ mode \in Mode /\ mt \in BOOLEAN /\ voice \in BOOLEAN
        /\ watch = "off" /\ tier = "balanced"
    BY DEF Init, Mode
  <2>6. QED
    BY <2>2, <2>3, <2>4, <2>5 DEF Types
<1>2. CallInv
  BY DEF Init, CallInv, NoCall, Loads, Stops
<1>3. PipelineInv
  BY DEF Init, PipelineInv, Made
<1>4. ModelInv
  <2>1. Held(asr) = {}
    BY DEF Init, Held
  <2>2. QED
    BY <2>1, FS_EmptySet DEF Init, ModelInv
<1>5. QueueInv
  BY Constants DEF Init, QueueInv, Distinct
<1>6. PhraseInv
  <2>1. \A p \in 1 .. Phrases : phrase[p].of = 0 /\ heard[p] = 0 /\ Queued(queue, p) = {}
    BY DEF Init, NoPhrase, Queued
  <2>2. QED
    BY <2>1 DEF Init, PhraseInv
<1>7. QED
  BY <1>1, <1>2, <1>3, <1>4, <1>5, <1>6 DEF IInv

LEMMA IInvStep ==
    ASSUME IInv, [Next]_vars
    PROVE  IInv'
<1>1. ASSUME NEW c \in Caller,
             Start(c) \/ Stop(c) \/ StopInactive(c) \/ Cancelled(c) \/ CallStep(c)
      PROVE  IInv'
  BY <1>1, StartKeeps, StopKeeps, StopInactiveKeeps, CancelledKeeps, CallStepKeeps
<1>2. ASSUME NEW c \in Caller, NEW m \in Mode, SetMode(c, m)
      PROVE  IInv'
  BY <1>2, SetModeKeeps
<1>3. CASE Watches
  BY <1>3, WatchesKeeps
<1>4. ASSUME NEW g \in 1 .. Made, PhraseCommitted(g)
      PROVE  IInv'
  BY <1>4, PhraseCommittedKeeps
<1>5. ASSUME NEW p \in 1 .. Phrases, PhraseStep(p)
      PROVE  IInv'
  BY <1>5, PhraseStepKeeps
<1>6. CASE Play
  BY <1>6, PlayKeeps
<1>7. CASE UNCHANGED vars
  <2>1. UNCHANGED <<active, mode, current, asr, refs, mt, voice, op, pipeline, phrase,
                    engine, queue, watch, tier, p95, heard, trouble>>
    BY <1>7 DEF vars
  <2>2. CallInv' /\ PipelineInv' /\ ModelInv' /\ QueueInv' /\ PhraseInv'
    BY <2>1, CallsKept, PipelinesKept, ModelsKept, QueueKept, PhrasesKept
    DEF IInv, ears, playback
  <2>3. Types'
    BY <2>1 DEF IInv, Types
  <2>4. QED
    BY <2>2, <2>3 DEF IInv
<1>8. QED
  BY <1>1, <1>2, <1>3, <1>4, <1>5, <1>6, <1>7 DEF Next

LEMMA Invariance == Spec => []IInv
<1>1. Init => IInv
  BY IInvInit
<1>2. IInv /\ [Next]_vars => IInv'
  BY IInvStep
<1>3. QED
  BY <1>1, <1>2, PTL DEF Spec

-----------------------------------------------------------------------------
(* What the conversation promises, for any number of callers, phrases and   *)
(* chunks and any capacity of the playback queue that a drain can serve.    *)

(* Every variable keeps its type: the pipeline that the orchestrator refers *)
(* to is one that was made, a chunk that is queued is one of a phrase.      *)
THEOREM TypesHold == Spec => []Types
<1>1. IInv => Types
  BY DEF IInv
<1>2. QED
  BY <1>1, Invariance, PTL

(* DuplexOrchestrator.start, stop and set_mode: unless calls overlap, a     *)
(* pipeline that runs is the one the orchestrator refers to, whatever load  *)
(* raised and whichever call was cancelled.                                 *)
THEOREM RunningPipelineIsCurrent == Spec => []LivePipelineIsCurrent
<1>1. IInv => LivePipelineIsCurrent
  BY DEF IInv, PipelineInv, LivePipelineIsCurrent
<1>2. QED
  BY <1>1, Invariance, PTL

(* AudioPlaybackEngine.start and stop: unless calls overlap, what a running *)
(* engine has queued was queued in this run, although tasks blocked in      *)
(* put() fill the queue again while stop drains it.                         *)
THEOREM PlaysItsOwnRun == Spec => []ChunksOfThisRun
<1>1. IInv => ChunksOfThisRun
  <2>1. IInv => DOMAIN queue = 1 .. Len(queue)
    BY LenProperties DEF IInv, Types
  <2>2. QED
    BY <2>1 DEF IInv, QueueInv, ChunksOfThisRun
<1>2. QED
  BY <1>1, Invariance, PTL

(* _translate_and_synthesize and enqueue_chunk: unless calls overlap, every *)
(* chunk of a phrase of the running pipeline has been played, is queued or  *)
(* is the one its task is blocked on.                                       *)
THEOREM ChunksAreKept == Spec => []NoChunkIsLost
<1>1. IInv => NoChunkIsLost
  <2>1. IInv => DOMAIN queue = 1 .. Len(queue)
    BY LenProperties DEF IInv, Types
  <2>2. QED
    BY <2>1 DEF IInv, PhraseInv, NoChunkIsLost, Queued
<1>2. QED
  BY <1>1, Invariance, PTL

(* ParakeetTdtV3AsrAdapter._shared_refcount: unless calls overlap, it is    *)
(* the number of recognisers that hold the model, after loads that raised   *)
(* between the two and after a call that was cancelled.                     *)
THEOREM ReferencesAreCounted == Spec => []SharedModelIsHeld
<1>1. IInv => SharedModelIsHeld
  BY DEF IInv, ModelInv, Held, SharedModelIsHeld
<1>2. QED
  BY <1>1, Invariance, PTL

-----------------------------------------------------------------------------
(* SpeechStream.                                                            *)

(* The number of words in a text that begins with a word and has one        *)
(* character after each of them, except perhaps the last.                   *)
Count(text) == (Len(text) + 1) \div 2

(* The text is made of the words after the first b, in order, with spaces   *)
(* between them and perhaps a full stop at the end.                         *)
Says(text, b) ==
    /\ text \in Seq(Int)
    /\ \A k \in 1 .. Count(text) : text[2 * k - 1] = b + k
    /\ \A k \in 1 .. Count(text) - 1 : text[2 * k] = Space
    /\ Len(text) = 2 * Count(text) /\ text # <<>> => text[Len(text)] = FullStop

-----------------------------------------------------------------------------
(* Texts.                                                                   *)

LEMMA LeastOf ==
    ASSUME NEW S \in SUBSET Nat, S # {}
    PROVE  \E i \in S : \A k \in S : i <= k
<1>1. PICK i \in S : \A k \in S : ~ (<<k, i>> \in OpToRel(<, Nat))
  BY NatLessThanWellFounded, WFMin
<1>2. \A k \in S : ~(k < i)
  BY <1>1 DEF OpToRel
<1>3. QED
  BY <1>2

LEMMA SmallestOf ==
    ASSUME NEW S \in SUBSET Nat, S # {}
    PROVE  Min(S) \in S /\ \A k \in S : Min(S) <= k
<1>1. PICK i \in S : \A k \in S : i <= k
  BY LeastOf
<1>2. QED
  BY <1>1 DEF Min

LEMMA LargestOf ==
    ASSUME NEW n \in Nat, NEW S \in SUBSET (0 .. n), S # {}
    PROVE  Max(S) \in S /\ \A k \in S : k <= Max(S)
<1> DEFINE T == {j \in 0 .. n : n - j \in S}
<1>1. \A k \in S : n - k \in T
  <2>1. \A k \in S : k \in 0 .. n /\ n - k \in 0 .. n /\ n - (n - k) = k
    OBVIOUS
  <2>2. QED
    BY <2>1
<1>2. T \in SUBSET Nat /\ T # {}
  <2>1. PICK k \in S : TRUE
    OBVIOUS
  <2>2. n - k \in T
    BY <1>1
  <2>3. \A j \in T : j \in Nat
    OBVIOUS
  <2> HIDE DEF T
  <2>4. QED
    BY <2>2, <2>3
<1>3. PICK i \in T : \A j \in T : i <= j
  BY <1>2, LeastOf
<1>4. n - i \in S /\ \A k \in S : k <= n - i
  <2>1. \A k \in S : i <= n - k /\ k \in 0 .. n
    BY <1>1, <1>3
  <2>2. QED
    BY <1>3, <2>1
<1>5. QED
  BY <1>4 DEF Max

LEMMA Halves ==
    ASSUME NEW n \in Nat
    PROVE  /\ (n + 1) \div 2 \in Nat
           /\ n = 2 * ((n + 1) \div 2) \/ n = 2 * ((n + 1) \div 2) - 1
           /\ \E k \in Nat : n = 2 * k \/ n = 2 * k + 1
  OBVIOUS

LEMMA Counted ==
    ASSUME NEW text \in Seq(Int)
    PROVE  /\ Len(text) \in Nat /\ Count(text) \in Nat
           /\ Len(text) = 2 * Count(text) \/ Len(text) = 2 * Count(text) - 1
           /\ Count(text) = 0 <=> text = <<>>
  BY Halves DEF Count

(* What stands at a place of such a text.                                   *)
LEMMA Places ==
    ASSUME NEW b \in Nat, NEW text, Says(text, b), NEW i \in 1 .. Len(text)
    PROVE  \/ \E k \in 1 .. Count(text) : i = 2 * k - 1 /\ text[i] = b + k
           \/ \E k \in 1 .. Count(text) - 1 : i = 2 * k /\ text[i] = Space
           \/ i = Len(text) /\ i = 2 * Count(text) /\ text[i] = FullStop
<1>1. Len(text) \in Nat /\ Count(text) \in Nat
      /\ (Len(text) = 2 * Count(text) \/ Len(text) = 2 * Count(text) - 1)
  BY Counted DEF Says
<1>2. PICK k \in Nat : i = 2 * k \/ i = 2 * k + 1
  <2>1. i \in Nat
    BY <1>1
  <2>2. QED
    BY <2>1, Halves
<1>3. CASE i = 2 * k + 1
  <2>1. k + 1 \in 1 .. Count(text) /\ i = 2 * (k + 1) - 1
    BY <1>1, <1>3
  <2>2. QED
    BY <2>1 DEF Says
<1>4. CASE i = 2 * k /\ k < Count(text)
  <2>1. k \in 1 .. Count(text) - 1
    BY <1>1, <1>4
  <2>2. QED
    BY <1>4, <2>1 DEF Says
<1>5. CASE i = 2 * k /\ k >= Count(text)
  <2>1. i = Len(text) /\ i = 2 * Count(text) /\ text # <<>>
    BY <1>1, <1>5
  <2>2. QED
    BY <2>1 DEF Says
<1>6. QED
  BY <1>1, <1>2, <1>3, <1>4, <1>5

(* It begins with a word and does not end with a space.                     *)
LEMMA Ends ==
    ASSUME NEW b \in Nat, NEW text, Says(text, b), text # <<>>
    PROVE  Len(text) \in Nat \ {0} /\ text[1] # Space /\ text[Len(text)] # Space
<1>1. Len(text) \in Nat \ {0} /\ Count(text) \in Nat
      /\ (Len(text) = 2 * Count(text) \/ Len(text) = 2 * Count(text) - 1)
  BY Counted DEF Says
<1>2. text[1] # Space
  <2>1. 1 \in 1 .. Count(text) /\ 2 * 1 - 1 = 1
    BY <1>1
  <2>2. text[1] = b + 1
    BY <2>1 DEF Says
  <2>3. QED
    BY <2>2 DEF Space
<1>3. text[Len(text)] # Space
  <2>1. CASE Len(text) = 2 * Count(text)
    BY <2>1 DEF Says, Space, FullStop
  <2>2. CASE Len(text) = 2 * Count(text) - 1
    <3>1. Count(text) \in 1 .. Count(text)
      BY <1>1, <2>2
    <3>2. text[Len(text)] = b + Count(text)
      BY <2>2, <3>1 DEF Says
    <3>3. QED
      BY <1>1, <2>2, <3>2 DEF Space
  <2>3. QED
    BY <1>1, <2>1, <2>2
<1>4. QED
  BY <1>1, <1>2, <1>3

(* What strip() leaves of a text with at most one space at its front and    *)
(* none at its end.                                                         *)
LEMMA Stripped ==
    ASSUME NEW text \in Seq(Int), NEW k \in {1, 2}, k <= Len(text),
           text[k] # Space, k = 2 => text[1] = Space, text[Len(text)] # Space
    PROVE  Strip(text) = SubSeq(text, k, Len(text))
<1> DEFINE ink == {i \in DOMAIN text : text[i] # Space}
<1>1. Len(text) \in Nat /\ DOMAIN text = 1 .. Len(text)
  OBVIOUS
<1>2. /\ ink \in SUBSET Nat /\ ink \in SUBSET (0 .. Len(text))
      /\ k \in ink /\ Len(text) \in ink /\ \A i \in ink : i >= k /\ i <= Len(text)
  BY <1>1
<1>3. Strip(text) = SubSeq(text, Min(ink), Max(ink))
  BY <1>2 DEF Strip
<1> HIDE DEF ink
<1>4. Min(ink) = k
  <2>1. Min(ink) \in ink /\ Min(ink) <= k
    BY <1>2, SmallestOf
  <2>2. Min(ink) \in Nat
    BY <1>2, <2>1
  <2>3. QED
    BY <1>2, <2>1, <2>2
<1>5. Max(ink) = Len(text)
  <2>1. Max(ink) \in ink /\ Len(text) <= Max(ink)
    BY <1>1, <1>2, LargestOf
  <2>2. Max(ink) \in Nat /\ Max(ink) <= Len(text)
    BY <1>2, <2>1
  <2>3. QED
    BY <1>1, <2>1, <2>2
<1>6. QED
  BY <1>3, <1>4, <1>5

LEMMA NothingStripped == Strip(<<>>) = <<>>
  BY DEF Strip

LEMMA SaidStripped ==
    ASSUME NEW b \in Nat, NEW text, Says(text, b)
    PROVE  Strip(text) = text
<1>1. CASE text = <<>>
  BY <1>1, NothingStripped
<1>2. CASE text # <<>>
  <2>1. Len(text) \in Nat \ {0} /\ text[1] # Space /\ text[Len(text)] # Space
    BY <1>2, Ends
  <2>2. text \in Seq(Int) /\ 1 \in {1, 2} /\ 1 <= Len(text) /\ 1 # 2
    BY <2>1 DEF Says
  <2>3. Strip(text) = SubSeq(text, 1, Len(text))
    BY <2>1, <2>2, Stripped
  <2>4. QED
    BY <2>2, <2>3, SubSeqFull
<1>3. QED
  BY <1>1, <1>2

(* The recogniser's text of words that follow each other.                   *)
LEMMA Recognised ==
    ASSUME NEW b \in Nat, NEW c \in Nat, NEW text \in Hypotheses([i \in 1 .. c |-> b + i])
    PROVE  Says(text, b) /\ Count(text) = c
<1> DEFINE ws == [i \in 1 .. c |-> b + i]
           e(i) == IF i % 2 = 1 THEN ws[(i + 1) \div 2] ELSE Space
           n == 2 * c - 1
           plain == [i \in 1 .. n |-> e(i)]
<1>1. Len(ws) = c /\ (ws = <<>> <=> c = 0)
  OBVIOUS
<1>2. text \in IF c = 0 THEN {<<>>} ELSE {plain, Append(plain, FullStop)}
  BY <1>1 DEF Hypotheses
<1>3. CASE c = 0
  <2>1. text = <<>>
    BY <1>2, <1>3
  <2>2. text \in Seq(Int) /\ Len(text) = 0 /\ Count(text) = 0
    BY <2>1 DEF Count
  <2>3. QED
    BY <1>3, <2>1, <2>2 DEF Says
<1>4. CASE c # 0
  <2>1. \A i \in 1 .. n : e(i) \in Int
    <3>1. \A i \in 1 .. n : (i + 1) \div 2 \in 1 .. c
      BY <1>4
    <3>2. Space \in Int
      BY DEF Space
    <3>3. QED
      BY <3>1, <3>2
  <2>2. n \in Nat
    BY <1>4
  <2>3. \A k \in 1 .. c : 2 * k - 1 \in 1 .. n /\ e(2 * k - 1) = b + k
    <3>1. \A k \in 1 .. c : 2 * k - 1 \in 1 .. n /\ (2 * k - 1) % 2 = 1
                            /\ ((2 * k - 1) + 1) \div 2 = k
      BY <1>4
    <3>2. \A k \in 1 .. c : ws[k] = b + k
      OBVIOUS
    <3>3. QED
      BY <3>1, <3>2
  <2>4. \A k \in 1 .. c - 1 : 2 * k \in 1 .. n /\ e(2 * k) = Space
    <3>1. \A k \in 1 .. c - 1 : 2 * k \in 1 .. n /\ (2 * k) % 2 # 1
      BY <1>4
    <3>2. QED
      BY <3>1
  <2> HIDE DEF e, n
  <2>5. /\ plain \in Seq(Int) /\ Len(plain) = n
        /\ \A i \in 1 .. n : plain[i] = e(i)
    BY <2>1, <2>2
  <2>6. FullStop \in Int
    BY DEF FullStop
  <2> HIDE DEF plain
  <2>7. /\ Append(plain, FullStop) \in Seq(Int) /\ Len(Append(plain, FullStop)) = n + 1
        /\ \A i \in 1 .. n : Append(plain, FullStop)[i] = e(i)
        /\ Append(plain, FullStop)[n + 1] = FullStop
    BY <2>5, <2>6, AppendProperties
  <2>8. /\ text \in Seq(Int) /\ Len(text) \in {n, n + 1}
        /\ \A i \in 1 .. n : text[i] = e(i)
        /\ Len(text) = n + 1 => text[Len(text)] = FullStop
    <3>1. CASE text = plain
      BY <2>2, <2>5, <3>1
    <3>2. CASE text = Append(plain, FullStop)
      BY <2>7, <3>2
    <3>3. QED
      BY <1>2, <1>4, <3>1, <3>2
  <2>9. Count(text) = c
    BY <2>8 DEF Count, n
  <2>10. Len(text) = 2 * c => Len(text) = n + 1
    BY DEF n
  <2>11. QED
    BY <2>3, <2>4, <2>8, <2>9, <2>10 DEF Says
<1>5. QED
  BY <1>3, <1>4

-----------------------------------------------------------------------------
(* The words of a text.                                                     *)

LEMMA Nothing == Words(<<>>) = <<>> /\ Words(<<FullStop>>) = <<>>
<1>1. ASSUME NEW text, {i \in DOMAIN text : text[i] > 0} = {} PROVE Words(text) = <<>>
  <2> DEFINE at == {i \in DOMAIN text : text[i] > 0}
  <2>1. Cardinality(at) = 0
    BY <1>1, FS_EmptySet
  <2> HIDE DEF at
  <2>2. [n \in 1 .. Cardinality(at) |-> text[Nth(at, n)]] = <<>>
    BY <2>1
  <2>3. QED
    BY <2>2 DEF Words, at
<1>2. {i \in DOMAIN <<>> : <<>>[i] > 0} = {}
  OBVIOUS
<1>3. {i \in DOMAIN <<FullStop>> : <<FullStop>>[i] > 0} = {}
  BY DEF FullStop
<1>4. QED
  BY <1>1, <1>2, <1>3

(* n places, the k-th of which is 2 * k - 1.                                *)
LEMMA OddPlaces ==
    ASSUME NEW n \in Nat
    PROVE  Cardinality({2 * k - 1 : k \in 1 .. n}) = n
<1> DEFINE S == {2 * k - 1 : k \in 1 .. n}
           f == [k \in 1 .. n |-> 2 * k - 1]
<1>1. f \in [1 .. n -> S] /\ \A i, j \in 1 .. n : f[i] = f[j] => i = j
  OBVIOUS
<1>2. \A s \in S : \E k \in 1 .. n : f[k] = s
  OBVIOUS
<1>3. f \in Bijection(1 .. n, S)
  BY <1>1, <1>2 DEF Bijection, Injection, Surjection, IsInjective
<1>4. QED
  BY <1>3, FS_CountingElements DEF ExistsBijection

LEMMA SaidWords ==
    ASSUME NEW b \in Nat, NEW text, Says(text, b)
    PROVE  Words(text) = [k \in 1 .. Count(text) |-> b + k]
<1> DEFINE c == Count(text)
           at == {i \in DOMAIN text : text[i] > 0}
<1>1. /\ c \in Nat /\ Len(text) \in Nat /\ DOMAIN text = 1 .. Len(text)
      /\ Len(text) = 2 * c \/ Len(text) = 2 * c - 1
  BY Counted DEF Says
<1>2. at = {2 * k - 1 : k \in 1 .. c}
  <2>1. \A k \in 1 .. c : 2 * k - 1 \in 1 .. Len(text) /\ text[2 * k - 1] = b + k
    BY <1>1 DEF Says
  <2>2. \A k \in 1 .. c : 2 * k - 1 \in at
    BY <1>1, <2>1
  <2>3. ASSUME NEW i \in at PROVE \E k \in 1 .. c : i = 2 * k - 1
    <3>1. i \in 1 .. Len(text) /\ text[i] > 0
      BY <1>1
    <3>2. QED
      BY <3>1, Places DEF Space, FullStop
  <2>4. QED
    BY <2>2, <2>3
<1>2a. c \in Nat
  BY <1>1
<1> HIDE DEF c, at
<1>3. Cardinality(at) = c
  BY <1>1, <1>2, OddPlaces
<1>4. ASSUME NEW n \in 1 .. c PROVE text[Nth(at, n)] = b + n
  <2>1. ASSUME NEW k \in 1 .. c PROVE Cardinality({j \in at : j <= 2 * k - 1}) = k
    <3>1. {j \in at : j <= 2 * k - 1} = {2 * i - 1 : i \in 1 .. k}
      <4>1. c \in Nat /\ k \in Nat /\ k <= c
        BY <1>2a
      <4>2. \A i \in 1 .. c : 2 * i - 1 <= 2 * k - 1 <=> i \in 1 .. k
        BY <4>1
      <4>3. \A i \in 1 .. k : i \in 1 .. c
        BY <4>1
      <4>4. QED
        BY <1>2, <4>2, <4>3
    <3>2. k \in Nat
      BY <1>2a
    <3>3. QED
      BY <3>1, <3>2, OddPlaces
  <2>2. 2 * n - 1 \in at /\ Cardinality({j \in at : j <= 2 * n - 1}) = n
    BY <1>2, <2>1
  <2>3. \A i \in at : Cardinality({j \in at : j <= i}) = n => i = 2 * n - 1
    BY <1>2, <2>1
  <2>4. Nth(at, n) = 2 * n - 1
    BY <2>2, <2>3 DEF Nth
  <2>5. QED
    BY <2>4 DEF Says, c
<1>5. Words(text) = [n \in 1 .. c |-> text[Nth(at, n)]]
  BY <1>3 DEF Words, at
<1>6. QED
  BY <1>4, <1>5 DEF c

-----------------------------------------------------------------------------
(* The committer.                                                           *)

(* A result of the recogniser.                                              *)
Result == [uid : Nat, final : BOOLEAN, text : Seq(Int)]

(* An utterance whose words follow the first b: what has been committed of  *)
(* it is where its text begins.                                             *)
Utterance ==
    [prefix : Seq(Int), text : Seq(Int), wordPrefix : Seq(Int),
     unsent : BOOLEAN, stable : BOOLEAN, revisions : Nat]

Grows(u, b) ==
    /\ Says(u.prefix, b) /\ Says(u.text, b)
    /\ Count(u.prefix) <= Count(u.text)

(* The committed prefix agrees with the text up to a full stop at most, so  *)
(* the committer always takes the rest of the text and never all of it.     *)
LEMMA UncommittedRest ==
    ASSUME NEW b \in Nat, NEW u \in Utterance, Grows(u, b)
    PROVE  UncommittedText(u) = SubSeq(u.text, Len(u.prefix) + 1, Len(u.text))
<1> DEFINE p == u.prefix
           t == u.text
           alike == {n \in 0 .. Len(p) : IsPrefix(SubSeq(p, 1, n), t)}
           a == Count(p)
           n == IF p = <<>> THEN 0 ELSE 2 * a - 1
<1>1. /\ p \in Seq(Int) /\ t \in Seq(Int) /\ Len(p) \in Nat /\ Len(t) \in Nat
      /\ a \in Nat /\ (a = 0 <=> p = <<>>)
      /\ Len(p) = 2 * a \/ Len(p) = 2 * a - 1
      /\ Len(t) = 2 * Count(t) \/ Len(t) = 2 * Count(t) - 1
      /\ Count(t) \in Nat /\ a <= Count(t)
  BY Counted DEF Grows, Says
<1>2. n \in 0 .. Len(p) /\ n <= Len(t) /\ (4 * Len(p)) \div 5 <= n
  <2>1. ASSUME NEW x \in Nat, NEW y \in Nat, x <= y + 1, y > 0 \/ x = 0
        PROVE  (4 * x) \div 5 <= y
    BY <2>1
  <2> HIDE DEF p, t, a
  <2>2. CASE p = <<>>
    BY <1>1, <2>1, <2>2
  <2>3. CASE p # <<>>
    <3>1. a \in Nat /\ a > 0 /\ n = 2 * a - 1 /\ n \in Nat /\ n > 0
      BY <1>1, <2>3
    <3>2. Len(p) \in Nat /\ Len(p) <= n + 1 /\ n <= Len(p)
      BY <1>1, <3>1
    <3>3. n <= Len(t)
      BY <1>1, <3>1
    <3>4. (4 * Len(p)) \div 5 <= n
      BY <2>1, <3>1, <3>2
    <3>5. QED
      BY <3>1, <3>2, <3>3, <3>4
  <2>4. QED
    BY <2>2, <2>3
<1>3. IsPrefix(SubSeq(p, 1, n), t)
  <2>1. ASSUME NEW i \in 1 .. n PROVE p[i] = t[i]
    <3>1. i \in 1 .. Len(p) /\ i < 2 * a
      BY <1>1, <1>2
    <3>2. Says(p, b) /\ Says(t, b)
      BY DEF Grows
    <3>3. CASE \E k \in 1 .. a : i = 2 * k - 1 /\ p[i] = b + k
      <4>1. PICK k \in 1 .. a : i = 2 * k - 1 /\ p[i] = b + k
        BY <3>3
      <4>2. k \in 1 .. Count(t)
        BY <1>1
      <4>3. QED
        BY <3>2, <4>1, <4>2 DEF Says
    <3>4. CASE \E k \in 1 .. a - 1 : i = 2 * k /\ p[i] = Space
      <4>1. PICK k \in 1 .. a - 1 : i = 2 * k /\ p[i] = Space
        BY <3>4
      <4>2. k \in 1 .. Count(t) - 1
        BY <1>1
      <4>3. QED
        BY <3>2, <4>1, <4>2 DEF Says
    <3>5. QED
      BY <3>1, <3>2, <3>3, <3>4, Places
  <2> HIDE DEF n, p, t
  <2>2. n \in Nat /\ \A i \in 1 .. n : p[i] \in Int /\ t[i] \in Int
    <3>1. Len(p) \in Nat /\ Len(t) \in Nat
      BY <1>1
    <3>2. n \in Nat /\ \A i \in 1 .. n : i \in 1 .. Len(p) /\ i \in 1 .. Len(t)
      BY <1>2, <3>1
    <3>3. p \in Seq(Int) /\ t \in Seq(Int)
      BY <1>1
    <3>4. QED
      BY <3>2, <3>3
  <2>3. /\ SubSeq(p, 1, n) \in Seq(Int) /\ Len(SubSeq(p, 1, n)) = n
        /\ SubSeq(t, 1, n) \in Seq(Int) /\ Len(SubSeq(t, 1, n)) = n
        /\ \A i \in 1 .. n : SubSeq(p, 1, n)[i] = p[i] /\ SubSeq(t, 1, n)[i] = t[i]
    BY <2>2, SubSeqProperties
  <2>4. SubSeq(p, 1, n) = SubSeq(t, 1, n)
    BY <2>1, <2>3, SeqEqual
  <2>5. SubSeq(SubSeq(p, 1, n), 1, n) = SubSeq(p, 1, n)
    BY <2>3, SubSeqFull
  <2>6. QED
    BY <1>1, <1>2, <2>3, <2>4, <2>5 DEF IsPrefix
<1>4. n \in alike /\ alike \in SUBSET (0 .. Len(p))
  BY <1>2, <1>3
<1> HIDE DEF n, alike, p, t
<1>5. Max(alike) \in alike /\ n <= Max(alike)
  BY <1>1, <1>4, LargestOf
<1>6. Max(alike) \in 0 .. Len(p)
  BY <1>4, <1>5
<1>7. Max(alike) >= (4 * Len(p)) \div 5
  BY <1>1, <1>2, <1>5, <1>6
<1>8. QED
  BY <1>7 DEF UncommittedText, alike, p, t

(* A phrase that is the end of the text, behind the prefix and at most a    *)
(* space, is found there and nowhere else: the prefix becomes the text.     *)
LEMMA MarkedToEnd ==
    ASSUME NEW u \in Utterance, NEW s \in Nat,
           s \in {Len(u.prefix) + 1, Len(u.prefix) + 2}, s <= Len(u.text),
           s = Len(u.prefix) + 2 => u.text[s - 1] = Space,
           u.text[s] # Space
    PROVE  MarkCommitted(u, SubSeq(u.text, s, Len(u.text))).prefix = u.text
<1> DEFINE t == u.text
           piece == SubSeq(t, s, Len(t))
           q == Len(u.prefix)
           L == Len(t)
           found == Occurrences(t, piece, q)
<1>1. t \in Seq(Int) /\ q \in Nat /\ L \in Nat
  BY DEF Utterance
<1>2. t \in Seq(Int) /\ \A i \in 1 .. L : t[i] \in Int
  BY <1>1
<1>N. q \in Nat /\ L \in Nat
  BY <1>1
<1>P. piece = SubSeq(t, s, L)
  OBVIOUS
<1> HIDE DEF t, q, L, piece
<1>3. (s = q + 1 \/ s = q + 2) /\ s <= L /\ s >= 1
  <2>1. s \in {q + 1, q + 2} /\ s <= L
    BY DEF q, L, t
  <2>2. QED
    BY <1>N, <2>1
<1>4. \A i \in s .. L : t[i] \in Int
  <2>1. \A i \in s .. L : i \in 1 .. L
    BY <1>N, <1>3
  <2>2. QED
    BY <1>2, <2>1
<1>5. piece = SubSeq(t, s, L)
  BY <1>P
<1>6. piece \in Seq(Int) /\ Len(piece) = L - s + 1 /\ piece[1] = t[s]
  <2>1. s \in Int /\ L \in Int /\ 1 \in 1 .. L - s + 1 /\ s + 1 - 1 = s
    BY <1>N, <1>3
  <2>2. /\ SubSeq(t, s, L) \in Seq(Int)
        /\ Len(SubSeq(t, s, L)) = IF s <= L THEN L - s + 1 ELSE 0
        /\ \A i \in 1 .. L - s + 1 : SubSeq(t, s, L)[i] = t[s + i - 1]
    <3>1. s \in Int /\ L \in Int
      BY <2>1
    <3> HIDE DEF Utterance
    <3>2. QED
      BY <1>4, <3>1, SubSeqProperties
  <2>3. SubSeq(t, s, L)[1] = t[s]
    BY <2>1, <2>2
  <2>4. Len(SubSeq(t, s, L)) = L - s + 1
    BY <1>3, <2>2
  <2>5. QED
    BY <1>5, <2>2, <2>3, <2>4
<1>7. L - Len(piece) + 1 = s /\ s + Len(piece) - 1 = L
  <2>1. Len(piece) = L - s + 1
    BY <1>6
  <2>2. QED
    BY <1>N, <2>1
<1>8. found = {i \in q + 1 .. s : SubSeq(t, i, i + Len(piece) - 1) = piece}
  BY <1>7 DEF Occurrences, L
<1>9. s \in found
  <2>1. s \in q + 1 .. s
    BY <1>N, <1>3
  <2>2. QED
    BY <1>5, <1>7, <1>8, <2>1
<1>10. ASSUME NEW i \in found PROVE i = s
  <2>1. i \in q + 1 .. s /\ SubSeq(t, i, i + Len(piece) - 1) = piece
    BY <1>8
  <2>2. CASE s = q + 2 /\ i = q + 1
    <3>1. i \in Int /\ i = s - 1 /\ L - 1 \in Int /\ i <= L - 1 /\ i >= 1
      BY <1>N, <1>3, <2>2
    <3>0. i + Len(piece) - 1 = L - 1
      <4>1. Len(piece) = L - s + 1
        BY <1>6
      <4>2. QED
        BY <1>N, <3>1, <4>1
    <3>2. \A j \in i .. L - 1 : t[j] \in Int
      <4>1. \A j \in i .. L - 1 : j \in 1 .. L
        BY <1>N, <3>1
      <4>2. QED
        BY <1>2, <4>1
    <3>3. \A j \in 1 .. (L - 1) - i + 1 : SubSeq(t, i, L - 1)[j] = t[i + j - 1]
      BY <3>1, <3>2, SubSeqProperties
    <3>4. 1 \in 1 .. (L - 1) - i + 1 /\ i + 1 - 1 = i
      BY <1>N, <3>1
    <3>5. piece[1] = t[i]
      <4>1. SubSeq(t, i, L - 1)[1] = t[i]
        BY <3>3, <3>4
      <4>2. QED
        BY <2>1, <3>0, <4>1
    <3>6. t[s - 1] = Space /\ s - 1 = i /\ t[s] # Space
      BY <3>1, <2>2 DEF t, q
    <3>7. QED
      BY <1>6, <3>5, <3>6
  <2>3. CASE ~(s = q + 2 /\ i = q + 1)
    <3>1. i \in q + 1 .. s
      BY <2>1
    <3>2. QED
      BY <1>N, <1>3, <2>3, <3>1
  <2>4. QED
    BY <2>2, <2>3
<1>11. found # {} /\ Min(found) = s
  <2>1. found # {}
    BY <1>9
  <2>2. found = {s}
    BY <1>9, <1>10
  <2> HIDE DEF found
  <2>3. found \in SUBSET Nat
    BY <2>2
  <2>4. Min(found) \in found
    BY <2>1, <2>3, SmallestOf
  <2>5. QED
    BY <2>1, <2>2, <2>4
<1>12. MarkCommitted(u, piece).prefix = SubSeq(t, 1, Min(found) + Len(piece) - 1)
  BY <1>11 DEF MarkCommitted, Utterance, t, q
<1>13. SubSeq(t, 1, L) = t
  BY <1>2, SubSeqFull DEF L
<1>14. QED
  BY <1>7, <1>11, <1>12, <1>13 DEF t, piece

(* What the committer takes from an utterance: the words after those that   *)
(* have been committed, after which all of the text has been.               *)
LEMMA PhraseOf ==
    ASSUME NEW b \in Nat, NEW u \in Utterance, Grows(u, b),
           NEW piece, piece = Strip(UncommittedText(u))
    PROVE  /\ Words(piece) = [k \in 1 .. Count(u.text) - Count(u.prefix) |->
                                  b + Count(u.prefix) + k]
           /\ piece # <<>> => MarkCommitted(u, piece).prefix = u.text
<1> DEFINE t == u.text
           q == Len(u.prefix)
           L == Len(t)
           a == Count(u.prefix)
           m == Count(t)
           rest == SubSeq(t, q + 1, L)
<1>1. /\ t \in Seq(Int) /\ q \in Nat /\ L \in Nat /\ a \in Nat /\ m \in Nat
      /\ a <= m
  BY Counted DEF Grows, Says
<1>2. (q = 2 * a \/ q = 2 * a - 1) /\ (L = 2 * m \/ L = 2 * m - 1)
  BY Counted DEF Grows, Says
<1>3. Says(t, b)
  BY DEF Grows
<1>4. piece = Strip(rest)
  BY UncommittedRest
<1>5. \A i \in 1 .. L : t[i] \in Int
  BY <1>1
<1>6. t # <<>> => t[L] # Space
  BY <1>3, Ends
<1>7. L > 0 => t # <<>>
  OBVIOUS
<1>N. q \in Nat /\ L \in Nat /\ a \in Nat /\ m \in Nat /\ a <= m
  BY <1>1
<1> HIDE DEF t, q, L, a, m
<1>8. \A s \in 1 .. L : /\ SubSeq(t, s, L) \in Seq(Int) /\ Len(SubSeq(t, s, L)) = L - s + 1
                        /\ \A i \in 1 .. L - s + 1 : SubSeq(t, s, L)[i] = t[s + i - 1]
  <2>1. SUFFICES ASSUME NEW s \in 1 .. L
                 PROVE  /\ SubSeq(t, s, L) \in Seq(Int) /\ Len(SubSeq(t, s, L)) = L - s + 1
                        /\ \A i \in 1 .. L - s + 1 : SubSeq(t, s, L)[i] = t[s + i - 1]
    OBVIOUS
  <2>2. s \in Int /\ L \in Int /\ s <= L /\ \A i \in s .. L : t[i] \in Int
    BY <1>N, <1>5
  <2>3. QED
    BY <2>2, SubSeqProperties
<1>9. CASE q + 1 > L
  <2>1. a = m
    BY <1>N, <1>2, <1>9
  <2>2. rest = <<>>
    BY <1>N, <1>9, SubSeqEmpty
  <2>3. piece = <<>> /\ Words(piece) = <<>>
    BY <1>4, <2>2, NothingStripped, Nothing
  <2>4. 1 .. m - a = {}
    BY <1>N, <2>1
  <2>5. [k \in 1 .. m - a |-> b + a + k] = <<>>
    BY <2>4
  <2>6. QED
    BY <2>3, <2>5 DEF a, m, t
<1>10. CASE q + 1 <= L /\ a < m
  <2> DEFINE s == 2 * a + 1
             k == s - q
  <2>1. /\ s \in 1 .. L /\ s \in Nat /\ k \in {1, 2} /\ q + 1 \in 1 .. L
        /\ k <= L - (q + 1) + 1 /\ (q + 1) + k - 1 = s
        /\ s \in {q + 1, q + 2} /\ s <= L
    BY <1>N, <1>2, <1>10
  <2>2. t[s] = b + a + 1 /\ t[s] # Space
    <3>1. a + 1 \in 1 .. m /\ 2 * (a + 1) - 1 = s
      BY <1>N, <1>10
    <3>2. t[s] = b + (a + 1)
      BY <1>3, <3>1 DEF Says, m
    <3>3. QED
      BY <1>N, <3>2 DEF Space
  <2>3. s = q + 2 => t[s - 1] = Space
    <3>1. SUFFICES ASSUME s = q + 2 PROVE t[s - 1] = Space
      OBVIOUS
    <3>2. a \in 1 .. m - 1 /\ s - 1 = 2 * a
      BY <1>N, <1>2, <1>10, <3>1
    <3>3. QED
      BY <1>3, <3>2 DEF Says, m
  <2>4. piece = SubSeq(t, s, L)
    <3>1. /\ rest \in Seq(Int) /\ Len(rest) = L - (q + 1) + 1
          /\ \A i \in 1 .. L - (q + 1) + 1 : rest[i] = t[(q + 1) + i - 1]
      BY <1>8, <2>1
    <3>2. rest[k] = t[s] /\ k <= Len(rest)
      BY <1>N, <2>1, <3>1
    <3>3. k = 2 => rest[1] = Space
      <4>1. SUFFICES ASSUME k = 2 PROVE rest[1] = Space
        OBVIOUS
      <4>2. s = q + 2 /\ 1 \in 1 .. L - (q + 1) + 1 /\ (q + 1) + 1 - 1 = s - 1
        BY <1>N, <2>1, <4>1
      <4>3. QED
        BY <2>3, <3>1, <4>2
    <3>4. rest[Len(rest)] # Space
      <4>0. Len(rest) = L - (q + 1) + 1
        BY <3>1
      <4>1. /\ Len(rest) \in 1 .. L - (q + 1) + 1 /\ (q + 1) + Len(rest) - 1 = L
            /\ L > 0
        BY <1>N, <1>10, <4>0
      <4>2. QED
        BY <1>6, <1>7, <3>1, <4>1
    <3> HIDE DEF rest, k, s
    <3>5. piece = SubSeq(rest, k, Len(rest))
      BY <1>4, <2>1, <2>2, <3>1, <3>2, <3>3, <3>4, Stripped
    <3>6. SubSeq(rest, k, Len(rest)) = SubSeq(t, s, L)
      <4>0. /\ Len(rest) = L - (q + 1) + 1 /\ Len(rest) \in Nat /\ k <= Len(rest)
            /\ (q + 1) + k - 1 = s /\ k \in {1, 2} /\ k \in Nat /\ s \in Nat
        BY <1>N, <2>1, <3>1, <3>2
      <4>1. /\ k \in 1 .. Len(rest) /\ Len(rest) \in 1 .. Len(rest) /\ Len(rest) \in Nat
            /\ \A i \in k .. Len(rest) : i \in 1 .. Len(rest)
            /\ Len(rest) - k + 1 = L - s + 1
        BY <1>N, <4>0
      <4>2. \A i \in k .. Len(rest) : rest[i] \in Int
        BY <3>1, <4>1
      <4>3. /\ SubSeq(rest, k, Len(rest)) \in Seq(Int)
            /\ Len(SubSeq(rest, k, Len(rest))) = L - s + 1
            /\ \A i \in 1 .. Len(rest) - k + 1 :
                  SubSeq(rest, k, Len(rest))[i] = rest[k + i - 1]
        <5>1. k \in Int /\ Len(rest) \in Int /\ k <= Len(rest)
          BY <2>1, <3>2, <4>1
        <5>2. QED
          BY <4>1, <4>2, <5>1, SubSeqProperties
      <4>4. ASSUME NEW i \in 1 .. L - s + 1
            PROVE  SubSeq(rest, k, Len(rest))[i] = SubSeq(t, s, L)[i]
        <5>1. k + i - 1 \in 1 .. L - (q + 1) + 1 /\ (q + 1) + (k + i - 1) - 1 = s + i - 1
          BY <1>N, <2>1, <4>1, <3>1
        <5>2. SubSeq(rest, k, Len(rest))[i] = rest[k + i - 1]
          BY <4>1, <4>3
        <5>3. rest[k + i - 1] = t[s + i - 1]
          BY <3>1, <5>1
        <5>4. SubSeq(t, s, L)[i] = t[s + i - 1]
          BY <1>8, <2>1
        <5>5. QED
          BY <5>2, <5>3, <5>4
      <4>5. SubSeq(t, s, L) \in Seq(Int) /\ Len(SubSeq(t, s, L)) = L - s + 1
        BY <1>8, <2>1
      <4>6. QED
        BY <4>3, <4>4, <4>5, SeqEqual
    <3>7. QED
      BY <3>5, <3>6
  <2> HIDE DEF s, k
  <2>5. piece \in Seq(Int) /\ Len(piece) = L - s + 1
        /\ \A i \in 1 .. L - s + 1 : piece[i] = t[s + i - 1]
    BY <1>8, <2>1, <2>4
  <2>6. Count(piece) = m - a /\ L - s + 1 = L - 2 * a
    BY <1>N, <1>2, <2>5 DEF Count, s
  <2>7. Says(piece, b + a)
    <3>1. ASSUME NEW i \in 1 .. m - a PROVE piece[2 * i - 1] = b + a + i
      <4>1. /\ 2 * i - 1 \in 1 .. L - s + 1 /\ s + (2 * i - 1) - 1 = 2 * (a + i) - 1
            /\ a + i \in 1 .. m
        BY <1>N, <1>2 DEF s
      <4>2. piece[2 * i - 1] = t[2 * (a + i) - 1]
        BY <2>5, <4>1
      <4>3. t[2 * (a + i) - 1] = b + (a + i)
        BY <1>3, <4>1 DEF Says, m
      <4>4. QED
        BY <1>N, <4>2, <4>3
    <3>2. ASSUME NEW i \in 1 .. m - a - 1 PROVE piece[2 * i] = Space
      <4>1. /\ 2 * i \in 1 .. L - s + 1 /\ s + 2 * i - 1 = 2 * (a + i)
            /\ a + i \in 1 .. m - 1
        BY <1>N, <1>2 DEF s
      <4>2. piece[2 * i] = t[2 * (a + i)]
        BY <2>5, <4>1
      <4>3. QED
        BY <1>3, <4>1, <4>2 DEF Says, m
    <3>3. ASSUME Len(piece) = 2 * (m - a) PROVE piece[Len(piece)] = FullStop
      <4>1. L = 2 * m /\ Len(piece) \in 1 .. L - s + 1 /\ s + Len(piece) - 1 = L /\ L > 0
        BY <1>N, <1>2, <1>10, <2>5, <2>6, <3>3 DEF s
      <4>2. piece[Len(piece)] = t[L]
        BY <2>5, <4>1
      <4>3. QED
        BY <1>3, <1>7, <4>1, <4>2 DEF Says, m, L
    <3>4. QED
      BY <2>5, <2>6, <3>1, <3>2, <3>3 DEF Says
  <2>8. Words(piece) = [i \in 1 .. m - a |-> b + a + i]
    BY <1>N, <2>6, <2>7, SaidWords
  <2>9. MarkCommitted(u, piece).prefix = t
    <3>1. s \in Nat /\ s \in {Len(u.prefix) + 1, Len(u.prefix) + 2} /\ s <= Len(u.text)
      BY <2>1 DEF t, q, L
    <3>2. s = Len(u.prefix) + 2 => u.text[s - 1] = Space
      BY <2>3 DEF t, q
    <3>3. u.text[s] # Space /\ piece = SubSeq(u.text, s, Len(u.text))
      BY <2>2, <2>4 DEF t, L
    <3>4. MarkCommitted(u, SubSeq(u.text, s, Len(u.text))).prefix = u.text
      BY <3>1, <3>2, <3>3, MarkedToEnd
    <3>5. QED
      BY <3>3, <3>4 DEF t
  <2>10. QED
    BY <2>8, <2>9 DEF t, a, m
<1>11. CASE q + 1 <= L /\ a = m
  <2>1. q + 1 = L /\ L = 2 * m /\ L \in 1 .. L /\ L > 0 /\ L - L + 1 = 1 /\ L + 1 - 1 = L
    BY <1>N, <1>2, <1>11
  <2>2. t[L] = FullStop
    BY <1>3, <1>7, <2>1 DEF Says, m, L
  <2>3. /\ rest \in Seq(Int) /\ Len(rest) = 1 /\ rest[1] = FullStop
    <3>1. rest = SubSeq(t, L, L)
      BY <2>1
    <3>2. QED
      <4>1. /\ SubSeq(t, L, L) \in Seq(Int) /\ Len(SubSeq(t, L, L)) = 1
            /\ \A i \in 1 .. 1 : SubSeq(t, L, L)[i] = t[L + i - 1]
        BY <1>8, <2>1
      <4>2. SubSeq(t, L, L)[1] = t[L]
        BY <2>1, <4>1
      <4>3. QED
        BY <2>2, <3>1, <4>1, <4>2
  <2> HIDE DEF rest
  <2>4. rest = <<FullStop>>
    BY <2>3
  <2>5. piece = rest
    <3>1. rest[1] # Space /\ rest[Len(rest)] # Space
      BY <2>3 DEF FullStop, Space
    <3>0. 1 \in {1, 2} /\ 1 <= Len(rest) /\ 1 # 2
      BY <2>3
    <3>2. Strip(rest) = SubSeq(rest, 1, Len(rest))
      BY <2>3, <3>0, <3>1, Stripped
    <3>3. QED
      BY <1>4, <2>3, <3>2, SubSeqFull
  <2>6. Words(piece) = <<>>
    BY <2>4, <2>5, Nothing
  <2>7. [k \in 1 .. m - a |-> b + a + k] = <<>>
    <3>1. 1 .. m - a = {}
      BY <1>N, <1>11
    <3>2. QED
      BY <3>1
  <2>8. MarkCommitted(u, piece).prefix = t
    <3>1. t[L] # Space /\ L \in {q + 1, q + 2} /\ L # q + 2 /\ L \in Nat /\ L <= L
      BY <1>N, <2>1, <2>2 DEF FullStop, Space
    <3>2. piece = SubSeq(t, L, L)
      BY <2>1, <2>5 DEF rest
    <3>3. /\ L \in {Len(u.prefix) + 1, Len(u.prefix) + 2} /\ L <= Len(u.text)
          /\ L # Len(u.prefix) + 2
      BY <3>1 DEF q, L, t
    <3>4. u.text[L] # Space /\ piece = SubSeq(u.text, L, Len(u.text))
      BY <3>1, <3>2 DEF t, L
    <3>5. L \in Nat /\ (L = Len(u.prefix) + 2 => u.text[L - 1] = Space)
      BY <3>1, <3>3
    <3>6. MarkCommitted(u, SubSeq(u.text, L, Len(u.text))).prefix = u.text
      BY <3>3, <3>4, <3>5, MarkedToEnd
    <3>7. QED
      BY <3>4, <3>6 DEF t
  <2>9. QED
    BY <2>6, <2>7, <2>8 DEF t, a, m
<1>12. QED
  BY <1>N, <1>9, <1>10, <1>11

(* The first words of a text are a text.                                    *)
LEMMA Prefixed ==
    ASSUME NEW text \in Seq(Int), NEW n \in Nat
    PROVE  WordPrefix(text, n) \in Seq(Int)
<1> DEFINE ends == {i \in DOMAIN text :
                      text[i] # Space /\ (i = Len(text) \/ text[i + 1] = Space)}
           nth == {i \in ends : Cardinality({j \in ends : j <= i}) = n}
<1>1. Len(text) \in Nat /\ \A i \in 1 .. Len(text) : text[i] \in Int
  OBVIOUS
<1>2. nth \subseteq 1 .. Len(text)
  OBVIOUS
<1>3. WordPrefix(text, n) = IF nth = {} THEN <<>> ELSE SubSeq(text, 1, Max(nth))
  BY DEF WordPrefix
<1> HIDE DEF nth, ends
<1>4. CASE nth # {}
  <2>1. nth \in SUBSET (0 .. Len(text))
    BY <1>1, <1>2
  <2>2. Max(nth) \in nth
    BY <1>1, <1>4, <2>1, LargestOf
  <2>3. Max(nth) \in Int /\ \A i \in 1 .. Max(nth) : i \in 1 .. Len(text)
    <3>1. Len(text) \in Nat /\ Max(nth) \in 1 .. Len(text)
      BY <1>1, <1>2, <2>2
    <3>2. QED
      BY <3>1
  <2>4. \A i \in 1 .. Max(nth) : text[i] \in Int
    BY <1>1, <2>3
  <2>5. SubSeq(text, 1, Max(nth)) \in Seq(Int)
    BY <2>3, <2>4, SubSeqProperties
  <2>6. QED
    BY <1>3, <1>4, <2>5
<1>5. <<>> \in Seq(Int)
  OBVIOUS
<1>6. QED
  BY <1>3, <1>4, <1>5

(* A hypothesis that is not shorter takes the place of the text.            *)
LEMMA Updated ==
    ASSUME NEW b \in Nat, NEW u \in Utterance, Grows(u, b),
           NEW text, Says(text, b), Count(u.text) <= Count(text)
    PROVE  /\ Update(u, text) \in Utterance /\ Grows(Update(u, text), b)
           /\ Update(u, text).text = text /\ Update(u, text).prefix = u.prefix
<1> DEFINE first == WordPrefix(text, StableWordCount)
           same == first # <<>> /\ first = u.wordPrefix
           revisions == IF same THEN Min({u.revisions + 1, StableRevisions}) ELSE 0
<1>1. StableWordCount \in Nat /\ StableRevisions \in Nat
  BY CommitterAssumption
<1>2. text \in Seq(Int) /\ Strip(text) = text
  BY SaidStripped DEF Says
<1>3. first \in Seq(Int)
  BY <1>1, <1>2, Prefixed
<1>4. revisions \in Nat
  <2> DEFINE two == {u.revisions + 1, StableRevisions}
  <2>1. two \in SUBSET Nat /\ two # {}
    BY <1>1 DEF Utterance
  <2> HIDE DEF two
  <2>2. Min(two) \in Nat
    BY <2>1, SmallestOf
  <2>3. QED
    BY <2>2 DEF two
<1>5. Update(u, text) =
        [u EXCEPT !.text = text, !.unsent = @ \/ text # <<>>, !.wordPrefix = first,
                  !.revisions = revisions, !.stable = same]
  BY <1>2 DEF Update
<1>6. same \in BOOLEAN /\ (u.unsent \/ text # <<>>) \in BOOLEAN
  OBVIOUS
<1> HIDE DEF revisions, same, first
<1>7. /\ Update(u, text) \in Utterance
      /\ Update(u, text).text = text /\ Update(u, text).prefix = u.prefix
  BY <1>2, <1>3, <1>4, <1>5, <1>6 DEF Utterance
<1>8. Count(u.prefix) \in Nat /\ Count(u.text) \in Nat /\ Count(text) \in Nat
  BY Counted DEF Grows, Says
<1>9. QED
  BY <1>7, <1>8 DEF Grows

(* When something is committed, all of the text has been.                   *)
LEMMA Marked ==
    ASSUME NEW b \in Nat, NEW u \in Utterance, Grows(u, b),
           NEW piece, piece = Strip(UncommittedText(u)), piece # <<>>
    PROVE  /\ MarkCommitted(u, piece) \in Utterance /\ Grows(MarkCommitted(u, piece), b)
           /\ MarkCommitted(u, piece).text = u.text
           /\ MarkCommitted(u, piece).prefix = u.text
<1>1. MarkCommitted(u, piece).prefix = u.text
  BY PhraseOf
<1>2. \E p : MarkCommitted(u, piece) =
               [u EXCEPT !.prefix = p, !.unsent = FALSE, !.stable = FALSE, !.revisions = 0]
  BY DEF MarkCommitted
<1>3. /\ MarkCommitted(u, piece) \in Utterance
      /\ MarkCommitted(u, piece).text = u.text
  <2>1. PICK p : MarkCommitted(u, piece) =
               [u EXCEPT !.prefix = p, !.unsent = FALSE, !.stable = FALSE, !.revisions = 0]
    BY <1>2
  <2>2. ASSUME NEW v, v = [u EXCEPT !.prefix = p, !.unsent = FALSE, !.stable = FALSE,
                                    !.revisions = 0]
        PROVE  v.prefix = p /\ v.text = u.text /\ (p \in Seq(Int) => v \in Utterance)
    BY <2>2 DEF Utterance
  <2>3. u.text \in Seq(Int)
    BY DEF Utterance
  <2>4. QED
    BY <1>1, <2>1, <2>2, <2>3
<1>4. Count(u.text) \in Nat
  BY Counted DEF Grows, Says
<1>5. QED
  BY <1>1, <1>3, <1>4 DEF Grows

(* A new utterance has said nothing.                                        *)
LEMMA Fresh ==
    ASSUME NEW b \in Nat
    PROVE  /\ FreshUtterance \in Utterance /\ Grows(FreshUtterance, b)
           /\ Count(FreshUtterance.text) = 0 /\ Count(FreshUtterance.prefix) = 0
<1>1. <<>> \in Seq(Int) /\ Count(<<>>) = 0
  BY DEF Count
<1>2. Says(<<>>, b)
  BY <1>1 DEF Says
<1>3. QED
  BY <1>1, <1>2 DEF FreshUtterance, Utterance, Grows

(* The n words after the first b.                                           *)
WordsAfter(b, n) == [k \in 1 .. n |-> b + k]

(* What a result does to the committer that has the utterance of that       *)
(* result open, or none.                                                    *)
EventResult(u, b, e, r) ==
    LET v == UtteranceOf(r.utterances, e.uid)
    IN  /\ e.final =>
             /\ DOMAIN r.utterances = {}
             /\ Words(r.phrase)
                  = WordsAfter(b + Count(u.prefix), Count(e.text) - Count(u.prefix))
        /\ ~e.final =>
             /\ DOMAIN r.utterances \subseteq {e.uid}
             /\ v \in Utterance /\ Grows(v, b) /\ Count(v.text) = Count(e.text)
             /\ Count(u.prefix) <= Count(v.prefix)
             /\ Words(r.phrase)
                  = WordsAfter(b + Count(u.prefix), Count(v.prefix) - Count(u.prefix))

LEMMA OnEvent ==
    ASSUME NEW utts, NEW b \in Nat, NEW e \in Result, NEW due \in BOOLEAN,
           DOMAIN utts \subseteq {e.uid}, UtteranceOf(utts, e.uid) \in Utterance,
           Grows(UtteranceOf(utts, e.uid), b), Says(e.text, b),
           Count(UtteranceOf(utts, e.uid).text) <= Count(e.text)
    PROVE  EventResult(UtteranceOf(utts, e.uid), b, e, OnTranscriptEvent(utts, e, due))
<1> DEFINE u == UtteranceOf(utts, e.uid)
           r == OnTranscriptEvent(utts, e, due)
           v == UtteranceOf(r.utterances, e.uid)
<1>0. u \in Utterance /\ Grows(u, b) /\ Count(u.text) <= Count(e.text)
  OBVIOUS
<1> SUFFICES EventResult(u, b, e, r)
  OBVIOUS
<1> DEFINE w == Update(u, e.text)
           piece == Strip(UncommittedText(w))
           commits == e.final \/ ReadyToCommit(u, w, due)
<1>1. /\ w \in Utterance /\ Grows(w, b) /\ w.text = e.text /\ w.prefix = u.prefix
  BY <1>0, Updated
<1>2. r = Outcome(utts, e, w, commits)
  BY DEF OnTranscriptEvent
<1>3. commits => e.final \/ piece # <<>>
  BY DEF ReadyToCommit
<1>4. e.final \in BOOLEAN /\ (e.final => commits)
  BY DEF Result
<1> HIDE DEF w, commits, u, r
<1>5. r.phrase = IF commits THEN piece ELSE <<>>
  BY <1>2 DEF Outcome
<1>6. /\ Words(piece) = WordsAfter(b + Count(u.prefix), Count(e.text) - Count(u.prefix))
      /\ piece # <<>> => MarkCommitted(w, piece) \in Utterance
                          /\ Grows(MarkCommitted(w, piece), b)
                          /\ MarkCommitted(w, piece).text = e.text
                          /\ MarkCommitted(w, piece).prefix = e.text
  BY <1>1, PhraseOf, Marked DEF WordsAfter
<1>7. Count(u.prefix) \in Nat /\ Count(e.text) \in Nat /\ Count(u.prefix) <= Count(e.text)
  <2>1. Count(w.prefix) \in Nat /\ Count(w.text) \in Nat /\ Count(w.prefix) <= Count(w.text)
    BY <1>1, Counted DEF Grows, Says
  <2>2. QED
    BY <1>1, <2>1
<1>8. CASE e.final
  <2>1. r.utterances = PopUtterance(utts, e.uid)
    BY <1>2, <1>8 DEF Outcome
  <2>2. DOMAIN r.utterances = {}
    BY <2>1 DEF PopUtterance
  <2>3. QED
    BY <1>4, <1>5, <1>6, <1>8, <2>2 DEF EventResult
<1>9. CASE ~e.final
  <2> DEFINE x == IF commits THEN MarkCommitted(w, piece) ELSE w
  <2>1. r.utterances = SetUtterance(utts, e.uid, x)
    BY <1>2, <1>9 DEF Outcome
  <2>2. DOMAIN r.utterances \subseteq {e.uid} /\ v = x
    <3> HIDE DEF x
    <3>1. DOMAIN r.utterances = DOMAIN utts \cup {e.uid} /\ r.utterances[e.uid] = x
      BY <2>1 DEF SetUtterance
    <3>2. QED
      BY <3>1 DEF UtteranceOf
  <2>3. CASE commits
    <3>1. piece # <<>>
      BY <1>3, <1>9, <2>3
    <3>2. v = MarkCommitted(w, piece) /\ r.phrase = piece
      BY <1>5, <2>2, <2>3
    <3>3. v \in Utterance /\ Grows(v, b) /\ v.text = e.text /\ v.prefix = e.text
      BY <1>6, <3>1, <3>2
    <3>4. QED
      BY <1>6, <1>7, <1>9, <2>2, <3>2, <3>3 DEF EventResult
  <2>4. CASE ~commits
    <3>1. v = w /\ r.phrase = <<>>
      BY <1>5, <2>2, <2>4
    <3>2. Words(r.phrase) = <<>>
      BY <3>1, Nothing
    <3>3. Count(v.prefix) = Count(u.prefix) /\ Count(v.text) = Count(e.text)
      BY <1>1, <3>1
    <3>4. 1 .. Count(v.prefix) - Count(u.prefix) = {}
      BY <1>7, <3>3
    <3>5. Words(r.phrase) = WordsAfter(b + Count(u.prefix), Count(v.prefix) - Count(u.prefix))
      BY <3>2, <3>4 DEF WordsAfter
    <3>6. QED
      BY <1>1, <1>7, <1>9, <2>2, <3>1, <3>3, <3>5 DEF EventResult
  <2>5. QED
    BY <2>3, <2>4
<1>10. QED
  BY <1>4, <1>8, <1>9

(* What is joined from no sequence and from one.                            *)
LEMMA Flattened ==
    ASSUME NEW s
    PROVE  FlattenSeq(<<>>) = <<>> /\ FlattenSeq(<<s>>) = s
<1>1. FlattenSeq(<<>>) = <<>>
  BY DEF FlattenSeq
<1>2. FlattenSeq(<<s>>) = s
  <2> DEFINE one == <<s>>
             g == [i \in 1 .. 1 |-> s]
             Is(f) == f = [i \in 1 .. Len(one) |->
                             IF i = 1 THEN one[i] ELSE f[i - 1] \o one[i]]
             h == CHOOSE f : Is(f)
  <2>1. Len(one) = 1 /\ one[1] = s
    OBVIOUS
  <2>2. Is(g)
    BY <2>1
  <2>3. Is(h)
    BY <2>2
  <2>4. h[1] = s
    BY <2>1, <2>3
  <2>5. FlattenSeq(one) = h[1]
    BY <2>1 DEF FlattenSeq
  <2>6. QED
    BY <2>4, <2>5
<1>3. QED
  BY <1>1, <1>2

(* flush_all() commits what the open utterance has left, if there is one.   *)
LEMMA Flushed ==
    ASSUME NEW utts, NEW f \in Nat, NEW b \in Nat, DOMAIN utts \subseteq {f},
           UtteranceOf(utts, f) \in Utterance, Grows(UtteranceOf(utts, f), b)
    PROVE  \E c \in Nat : Words(FlushAll(utts)) =
                             WordsAfter(b + Count(UtteranceOf(utts, f).prefix), c)
<1> DEFINE u == UtteranceOf(utts, f)
<1>0. u \in Utterance /\ Grows(u, b)
  OBVIOUS
<1> SUFFICES \E c \in Nat : Words(FlushAll(utts)) = WordsAfter(b + Count(u.prefix), c)
  OBVIOUS
<1> HIDE DEF u
<1>1. CASE DOMAIN utts = {}
  <2>1. Cardinality(DOMAIN utts) = 0
    BY <1>1, FS_EmptySet
  <2>2. FlushAll(utts) = FlattenSeq([i \in 1 .. 0 |->
            Strip(UncommittedText(utts[Nth(DOMAIN utts, i)]))])
    BY <2>1 DEF FlushAll
  <2>3. [i \in 1 .. 0 |-> Strip(UncommittedText(utts[Nth(DOMAIN utts, i)]))] = <<>>
    OBVIOUS
  <2>4. Words(FlushAll(utts)) = <<>>
    BY <2>2, <2>3, Flattened, Nothing
  <2>5. WordsAfter(b + Count(u.prefix), 0) = <<>>
    BY DEF WordsAfter
  <2>6. QED
    BY <2>4, <2>5
<1>2. CASE DOMAIN utts = {f}
  <2> DEFINE piece == Strip(UncommittedText(u))
  <2>1. u = utts[f]
    BY <1>2 DEF UtteranceOf, u
  <2>2. Cardinality({f}) = 1
    BY FS_Singleton
  <2>3. Nth({f}, 1) = f
    <3>1. {j \in {f} : j <= f} = {f}
      OBVIOUS
    <3>2. Cardinality({j \in {f} : j <= f}) = 1
      BY <2>2, <3>1
    <3>3. QED
      BY <3>2 DEF Nth
  <2>4. FlushAll(utts) = FlattenSeq([i \in 1 .. 1 |->
            Strip(UncommittedText(utts[Nth({f}, i)]))])
    BY <1>2, <2>2 DEF FlushAll
  <2> HIDE DEF piece
  <2>5. [i \in 1 .. 1 |-> Strip(UncommittedText(utts[Nth({f}, i)]))] = <<piece>>
    <3>1. \A i \in 1 .. 1 : Strip(UncommittedText(utts[Nth({f}, i)])) = piece
      <4>1. \A i \in 1 .. 1 : i = 1
        OBVIOUS
      <4>2. QED
        BY <2>1, <2>3, <4>1 DEF piece
    <3>2. QED
      BY <3>1
  <2>6. FlushAll(utts) = piece
    BY <2>4, <2>5, Flattened
  <2>7. Words(piece) = WordsAfter(b + Count(u.prefix), Count(u.text) - Count(u.prefix))
    BY <1>0, PhraseOf DEF piece, WordsAfter
  <2>8. Count(u.text) - Count(u.prefix) \in Nat
    <3>1. Count(u.text) \in Nat /\ Count(u.prefix) \in Nat /\ Count(u.prefix) <= Count(u.text)
      BY <1>0, Counted DEF Grows, Says
    <3>2. QED
      BY <3>1
  <2>9. QED
    BY <2>6, <2>7, <2>8
<1>3. QED
  BY <1>1, <1>2
-----------------------------------------------------------------------------
(* The results on their way.                                                *)

(* The utterance of the i-th result in a queue and the words in it; behind  *)
(* the queue, the utterance x that is being spoken and the h words of it    *)
(* that the next decode hears at least.                                     *)
UidAt(q, x, i) == IF i \in 1 .. Len(q) THEN q[i].uid ELSE x
CountAt(q, h, i) == IF i \in 1 .. Len(q) THEN Count(q[i].text) ELSE h

(* A result e says the words after the base of its utterance; what comes    *)
(* next is of the next utterance, which begins where e ends, if e is final, *)
(* else of the same one and not shorter.                                    *)
Linked(e, next, count, base) ==
    /\ Says(e.text, base[e.uid])
    /\ e.final => next = e.uid + 1 /\ base[next] = base[e.uid] + Count(e.text)
    /\ ~e.final => next = e.uid /\ Count(e.text) <= count

Chain(q, x, h, base) ==
    /\ q \in Seq(Result) /\ x \in Nat /\ h \in Nat /\ base \in [Nat -> Nat]
    /\ \A i \in 1 .. Len(q) :
          q[i].uid <= x /\ Linked(q[i], UidAt(q, x, i + 1), CountAt(q, h, i + 1), base)

LEMMA Entry ==
    ASSUME NEW q \in Seq(Result), NEW i \in 1 .. Len(q)
    PROVE  q[i] \in Result /\ q[i].uid \in Nat /\ q[i].text \in Seq(Int)
<1>1. q[i] \in Result
  OBVIOUS
<1>2. QED
  BY <1>1 DEF Result

LEMMA Appended ==
    ASSUME NEW q \in Seq(Result), NEW e \in Result
    PROVE  /\ Len(q) + 1 \in 1 .. Len(Append(q, e)) /\ Append(q, e)[Len(q) + 1] = e
           /\ \A i \in 1 .. Len(q) : i \in 1 .. Len(Append(q, e)) /\ Append(q, e)[i] = q[i]
<1>1. /\ Len(q) \in Nat /\ Len(Append(q, e)) = Len(q) + 1 /\ Append(q, e)[Len(q) + 1] = e
      /\ \A i \in 1 .. Len(q) : Append(q, e)[i] = q[i]
  BY AppendProperties
<1>2. QED
  BY <1>1

LEMMA Cut ==
    ASSUME NEW n \in Nat, NEW i \in 1 .. n + 1
    PROVE  i \in 1 .. n \/ i = n + 1
  OBVIOUS

LEMMA Following ==
    ASSUME NEW n \in Nat, NEW i \in 1 .. n
    PROVE  i + 1 \in 1 .. n + 1
  OBVIOUS

LEMMA Within ==
    ASSUME NEW i \in Nat, NEW j \in Nat, NEW k \in Nat, i <= j, j <= k
    PROVE  i \in 0 .. j /\ i <= k
  OBVIOUS

LEMMA Behind ==
    ASSUME NEW q, NEW x, NEW h, Len(q) \in Nat
    PROVE  UidAt(q, x, Len(q) + 1) = x /\ CountAt(q, h, Len(q) + 1) = h
  BY DEF UidAt, CountAt

LEMMA ChainEntry ==
    ASSUME NEW q, NEW x, NEW h, NEW base, Chain(q, x, h, base), NEW i \in 1 .. Len(q) + 1
    PROVE  UidAt(q, x, i) \in 0 .. x /\ CountAt(q, h, i) \in Nat
<1>1. Len(q) \in Nat /\ x \in Nat /\ h \in Nat
  BY DEF Chain
<1>2. CASE i \in 1 .. Len(q)
  <2>1. q[i].uid <= x
    BY <1>2 DEF Chain
  <2>2. q[i].uid \in Nat /\ q[i].text \in Seq(Int)
    BY <1>2, Entry DEF Chain
  <2>3. Count(q[i].text) \in Nat
    BY <2>2, Counted
  <2>4. UidAt(q, x, i) = q[i].uid /\ CountAt(q, h, i) = Count(q[i].text)
    BY <1>2 DEF UidAt, CountAt
  <2>5. QED
    BY <1>1, <2>1, <2>2, <2>3, <2>4
<1>3. CASE i \notin 1 .. Len(q)
  BY <1>1, <1>3 DEF UidAt, CountAt
<1>4. QED
  BY <1>2, <1>3

LEMMA Uids ==
    ASSUME NEW q, NEW x, NEW h, NEW base, Chain(q, x, h, base), NEW i \in 1 .. Len(q)
    PROVE  q[i].uid \in 0 .. x
<1>1. x \in Nat /\ q \in Seq(Result) /\ q[i].uid <= x
  BY DEF Chain
<1>2. q[i].uid \in Nat
  BY <1>1, Entry
<1>3. QED
  BY <1>1, <1>2

(* The first result is taken from the queue.                                *)
LEMMA ChainTail ==
    ASSUME NEW q, NEW x, NEW h, NEW base, Chain(q, x, h, base), q # <<>>
    PROVE  /\ Chain(Tail(q), x, h, base)
           /\ UidAt(Tail(q), x, 1) = UidAt(q, x, 2)
           /\ CountAt(Tail(q), h, 1) = CountAt(q, h, 2)
<1> DEFINE p == Tail(q)
<1>1. q \in Seq(Result) /\ x \in Nat /\ h \in Nat /\ base \in [Nat -> Nat]
  BY DEF Chain
<1>2. /\ p \in Seq(Result) /\ Len(q) \in Nat /\ Len(q) > 0 /\ Len(p) = Len(q) - 1
      /\ \A i \in 1 .. Len(p) : p[i] = q[i + 1]
  BY <1>1, HeadTailProperties
<1> HIDE DEF p
<1>3. ASSUME NEW i \in 1 .. Len(p) + 1
      PROVE  UidAt(p, x, i) = UidAt(q, x, i + 1) /\ CountAt(p, h, i) = CountAt(q, h, i + 1)
  <2>1. i \in 1 .. Len(p) <=> i + 1 \in 1 .. Len(q)
    BY <1>2
  <2>2. QED
    BY <1>2, <2>1 DEF UidAt, CountAt
<1>4. ASSUME NEW i \in 1 .. Len(p)
      PROVE  p[i].uid <= x /\ Linked(p[i], UidAt(p, x, i + 1), CountAt(p, h, i + 1), base)
  <2>1. i + 1 \in 1 .. Len(q) /\ i + 1 \in 1 .. Len(p) + 1 /\ p[i] = q[i + 1]
    BY <1>2
  <2>2. /\ UidAt(p, x, i + 1) = UidAt(q, x, (i + 1) + 1)
        /\ CountAt(p, h, i + 1) = CountAt(q, h, (i + 1) + 1)
    BY <1>3, <2>1
  <2>3. QED
    BY <2>1, <2>2 DEF Chain
<1>5. 1 \in 1 .. Len(p) + 1 /\ 1 + 1 = 2
  BY <1>2
<1>6. QED
  BY <1>1, <1>2, <1>3, <1>4, <1>5 DEF Chain, p

(* More is said.                                                            *)
LEMMA ChainLonger ==
    ASSUME NEW q, NEW x, NEW h, NEW base, Chain(q, x, h, base), NEW g \in Nat, h <= g
    PROVE  /\ Chain(q, x, g, base)
           /\ CountAt(q, h, 1) <= CountAt(q, g, 1)
<1>1. Len(q) \in Nat /\ h \in Nat
  BY DEF Chain
<1>2. ASSUME NEW i \in 1 .. Len(q) + 1 PROVE CountAt(q, h, i) <= CountAt(q, g, i)
  <2>1. CountAt(q, h, i) \in Nat
    BY ChainEntry
  <2>2. QED
    BY <1>1, <2>1 DEF CountAt
<1>3. ASSUME NEW i \in 1 .. Len(q)
      PROVE  Linked(q[i], UidAt(q, x, i + 1), CountAt(q, g, i + 1), base)
  <2>1. i + 1 \in 1 .. Len(q) + 1
    BY <1>1
  <2>2. CountAt(q, h, i + 1) \in Nat /\ CountAt(q, h, i + 1) <= CountAt(q, g, i + 1)
    BY <1>2, <2>1, ChainEntry
  <2>3. CountAt(q, g, i + 1) \in Nat
    <3>1. CASE i + 1 \in 1 .. Len(q)
      BY <2>2, <3>1 DEF CountAt
    <3>2. CASE i + 1 \notin 1 .. Len(q)
      BY <3>2 DEF CountAt
    <3>3. QED
      BY <3>1, <3>2
  <2>4. Count(q[i].text) \in Nat
    <3>1. q[i].text \in Seq(Int)
      BY Entry DEF Chain
    <3>2. QED
      BY <3>1, Counted
  <2>5. Linked(q[i], UidAt(q, x, i + 1), CountAt(q, h, i + 1), base)
    BY DEF Chain
  <2>6. Count(q[i].text) <= CountAt(q, h, i + 1) => Count(q[i].text) <= CountAt(q, g, i + 1)
    BY <2>2, <2>3, <2>4
  <2>7. QED
    BY <2>5, <2>6 DEF Linked
<1>4. 1 \in 1 .. Len(q) + 1
  BY <1>1
<1>5. QED
  BY <1>2, <1>3, <1>4 DEF Chain

(* A result e of the utterance being spoken is put into the queue.  If it   *)
(* is final, the next utterance begins behind it.                           *)
LEMMA ChainAppend ==
    ASSUME NEW q, NEW x, NEW h, NEW base, Chain(q, x, h, base),
           NEW e \in Result, e.uid = x, Count(e.text) = h, Says(e.text, base[x]),
           NEW y \in Nat, NEW g \in Nat, NEW after \in [Nat -> Nat],
           \A z \in 0 .. x : after[z] = base[z],
           e.final => y = x + 1 /\ after[y] = base[x] + h,
           ~e.final => y = x /\ h <= g
    PROVE  /\ Chain(Append(q, e), y, g, after)
           /\ UidAt(Append(q, e), y, 1) = UidAt(q, x, 1)
           /\ CountAt(Append(q, e), g, 1) = CountAt(q, h, 1)
<1> DEFINE p == Append(q, e)
<1>1. q \in Seq(Result) /\ x \in Nat /\ h \in Nat /\ Len(q) \in Nat
  BY DEF Chain
<1>N. Len(q) \in Nat /\ x \in Nat /\ h \in Nat
  BY <1>1
<1>2. /\ p \in Seq(Result) /\ Len(p) = Len(q) + 1
      /\ \A i \in 1 .. Len(q) : p[i] = q[i]
      /\ p[Len(q) + 1] = e
  BY <1>1, AppendProperties
<1> HIDE DEF p
<1>3. ASSUME NEW i \in 1 .. Len(q) + 1
      PROVE  UidAt(p, y, i) = UidAt(q, x, i) /\ CountAt(p, g, i) = CountAt(q, h, i)
  <2>1. CASE i \in 1 .. Len(q)
    <3>1. i \in 1 .. Len(p) /\ p[i] = q[i]
      BY <1>N, <1>2, <2>1
    <3>2. QED
      BY <2>1, <3>1 DEF UidAt, CountAt
  <2>2. CASE i = Len(q) + 1
    <3>1. i \in 1 .. Len(p) /\ p[i] = e /\ i \notin 1 .. Len(q)
      BY <1>N, <1>2, <2>2
    <3>2. QED
      BY <3>1 DEF UidAt, CountAt
  <2>3. QED
    BY <1>N, <2>1, <2>2, Cut
<1>4. x <= y
  <2>2. CASE e.final
    <3>1. y = x + 1
      BY <2>2
    <3>2. QED
      BY <1>N, <3>1
  <2>3. CASE ~e.final
    <3>1. y = x
      BY <2>3
    <3>2. QED
      BY <1>N, <3>1
  <2>4. QED
    BY <2>2, <2>3
<1>5. ASSUME NEW i \in 1 .. Len(p)
      PROVE  p[i].uid <= y /\ Linked(p[i], UidAt(p, y, i + 1), CountAt(p, g, i + 1), after)
  <2>1. CASE i \in 1 .. Len(q)
    <3>1. i + 1 \in 1 .. Len(q) + 1 /\ p[i] = q[i]
      BY <1>N, <1>2, <2>1, Following
    <3>2. Linked(q[i], UidAt(q, x, i + 1), CountAt(q, h, i + 1), base) /\ q[i].uid <= x
      BY <2>1 DEF Chain
    <3>3. UidAt(q, x, i + 1) \in 0 .. x
      BY <3>1, ChainEntry
    <3>4. q[i].uid \in Nat
      BY <1>1, <2>1, Entry
    <3>5. after[q[i].uid] = base[q[i].uid] /\ after[UidAt(q, x, i + 1)] = base[UidAt(q, x, i + 1)]
      <4>1. q[i].uid \in 0 .. x
        BY <1>N, <1>4, <3>2, <3>4, Within
      <4>2. QED
        BY <3>3, <4>1
    <3>6. q[i].uid <= y
      BY <1>N, <1>4, <3>2, <3>4, Within
    <3>7. QED
      BY <1>3, <3>1, <3>2, <3>5, <3>6 DEF Linked
  <2>2. CASE i = Len(q) + 1
    <3>1. p[i] = e /\ i = Len(p) /\ Len(p) \in Nat
      BY <1>N, <1>2, <2>2
    <3>2. UidAt(p, y, i + 1) = y /\ CountAt(p, g, i + 1) = g
      BY <3>1, Behind
    <3>3. after[x] = base[x]
      BY <1>N
    <3>4. QED
      BY <1>4, <3>1, <3>2, <3>3 DEF Linked
  <2>3. i \in 1 .. Len(q) + 1
    BY <1>2
  <2>4. QED
    BY <1>N, <2>1, <2>2, <2>3, Cut
<1>6. 1 \in 1 .. Len(q) + 1
  BY <1>N
<1>7. QED
  BY <1>2, <1>3, <1>5, <1>6 DEF Chain, p

(* The same for a final result.                                             *)
LEMMA ChainFinal ==
    ASSUME NEW q, NEW x, NEW h, NEW base, Chain(q, x, h, base),
           NEW e \in Result, e.final, e.uid = x, Count(e.text) = h, Says(e.text, base[x]),
           NEW g \in Nat, NEW after \in [Nat -> Nat],
           \A z \in 0 .. x : after[z] = base[z], after[x + 1] = base[x] + h
    PROVE  /\ Chain(Append(q, e), x + 1, g, after)
           /\ UidAt(Append(q, e), x + 1, 1) = UidAt(q, x, 1)
           /\ CountAt(Append(q, e), g, 1) = CountAt(q, h, 1)
<1> DEFINE y == x + 1
<1>0. x \in Nat
  BY DEF Chain
<1>1. y \in Nat
  BY <1>0
<1>2. y = x + 1 /\ after[y] = base[x] + h
  OBVIOUS
<1> HIDE DEF y
<1>3. e.final => y = x + 1 /\ after[y] = base[x] + h
  BY <1>2
<1>4. ~e.final => y = x /\ h <= g
  OBVIOUS
<1>5. /\ Chain(Append(q, e), y, g, after)
      /\ UidAt(Append(q, e), y, 1) = UidAt(q, x, 1)
      /\ CountAt(Append(q, e), g, 1) = CountAt(q, h, 1)
  BY <1>1, <1>3, <1>4, ChainAppend
<1>6. QED
  BY <1>2, <1>5
-----------------------------------------------------------------------------
(* The invariant.                                                           *)

(* The committer has the utterance f open, or none; it has handed over what *)
(* is before the base b of f and the prefix of f.                           *)
Committing(utts, done, f, count, b) ==
    /\ DOMAIN utts \subseteq {f}
    /\ UtteranceOf(utts, f) \in Utterance
    /\ Grows(UtteranceOf(utts, f), b)
    /\ Count(UtteranceOf(utts, f).text) <= count
    /\ done = [i \in 1 .. b + Count(UtteranceOf(utts, f).prefix) |-> i]

(* A word before the end of the last utterance is in a final result or      *)
(* before the base b of the utterance the committer is at.                  *)
Covered(q, b, base, w) ==
    \/ w <= b
    \/ \E i \in 1 .. Len(q) :
          /\ q[i].final
          /\ base[q[i].uid] < w /\ w <= base[q[i].uid] + Count(q[i].text)

(* The words that the next decode hears at least.                           *)
WordsHeard == IF infer.pc = "decoding" THEN Len(infer.words) ELSE spoken - start

Buffer ==
    /\ {spoken, start, held, uid} \subseteq Nat
    /\ start <= spoken

(* While the pipeline runs only the capture loop is in endpoint(); it       *)
(* pushes nothing meanwhile, and no partial decode overtakes the final one. *)
Decodes ==
    /\ DOMAIN endpoint = EndpointCaller
    /\ endpoint["stop"].pc = "none"
    /\ loop # "endpoint" => endpoint["loop"].pc = "none"
    /\ endpoint["loop"].pc = "decoding" =>
          /\ infer.pc = "none"
          /\ endpoint["loop"].uid = uid
          /\ endpoint["loop"].words = [i \in 1 .. spoken - start |-> start + i]
    /\ infer.pc = "decoding" =>
          /\ infer.uid = uid
          /\ Len(infer.words) \in 0 .. spoken - start
          /\ infer.words = [i \in 1 .. Len(infer.words) |-> start + i]

Told(base) ==
    LET first == UidAt(event_queue, uid, 1)
    IN  /\ Chain(event_queue, uid, WordsHeard, base)
        /\ base[uid] = start
        /\ Committing(utterances, committed, first,
                      CountAt(event_queue, WordsHeard, 1), base[first])
        /\ \A w \in 1 .. start : Covered(event_queue, base[first], base, w)

StreamInv ==
    IF running THEN Buffer /\ Decodes /\ \E base \in [Nat -> Nat] : Told(base)
    ELSE \E n \in Nat : committed = [i \in 1 .. n |-> i]

(* Every utterance fits the audio that the recogniser keeps.                *)
Fits == spoken - start <= Window

(* What a decode of such an utterance gets: all that was said of it.        *)
LEMMA WholeSnapshot ==
    ASSUME Buffer, Fits, NEW pc
    PROVE  Snapshot(pc) = [pc |-> pc, uid |-> uid,
                           words |-> [i \in 1 .. spoken - start |-> start + i]]
<1> DEFINE two == {start, spoken - Window}
<1>1. /\ start \in Int /\ spoken - Window \in Int /\ start >= spoken - Window
      /\ start \in Nat /\ spoken \in Nat
  BY StreamAssumption DEF Buffer, Fits
<1>2. start \in two /\ \A y \in two : start >= y
  BY <1>1
<1>3. Max(two) = start
  <2>1. \A x \in two : (\A y \in two : x >= y) => x = start
    BY <1>1
  <2> HIDE DEF two
  <2>2. QED
    BY <1>2, <2>1 DEF Max
<1>4. QED
  BY <1>3 DEF Snapshot

LEMMA Hearing ==
    ASSUME Buffer, Decodes
    PROVE  WordsHeard \in Nat /\ WordsHeard <= spoken - start
<1>1. spoken - start \in Nat
  BY DEF Buffer
<1>2. CASE infer.pc = "decoding"
  <2>1. Len(infer.words) \in 0 .. spoken - start
    BY <1>2 DEF Decodes
  <2>2. QED
    BY <1>1, <1>2, <2>1 DEF WordsHeard
<1>3. QED
  BY <1>1, <1>2 DEF WordsHeard

(* The loop enters or leaves endpoint().                                    *)
LEMMA LoopsEndpoint ==
    ASSUME DOMAIN endpoint = EndpointCaller, NEW x, endpoint' = [endpoint EXCEPT !["loop"] = x]
    PROVE  /\ DOMAIN endpoint' = EndpointCaller
           /\ endpoint'["loop"] = x /\ endpoint'["stop"] = endpoint["stop"]
  BY DEF EndpointCaller

(* A step that puts no result into the queue and takes none leaves what is  *)
(* told as it was.                                                          *)
LEMMA Kept ==
    ASSUME NEW base \in [Nat -> Nat], Told(base),
           UNCHANGED <<event_queue, utterances, committed, uid, start>>,
           WordsHeard' \in Nat, WordsHeard <= WordsHeard'
    PROVE  Told(base)'
<1> DEFINE q == event_queue
           first == UidAt(q, uid, 1)
           h == WordsHeard
           g == WordsHeard'
<1>1. Chain(q, uid, h, base) /\ base[uid] = start
  BY DEF Told
<1>2. Committing(utterances, committed, first, CountAt(q, h, 1), base[first])
  BY DEF Told
<1>3. \A w \in 1 .. start : Covered(q, base[first], base, w)
  BY DEF Told
<1>4. Chain(q, uid, g, base) /\ CountAt(q, h, 1) <= CountAt(q, g, 1)
  BY <1>1, ChainLonger
<1>5. CountAt(q, h, 1) \in Nat /\ CountAt(q, g, 1) \in Nat
  <2>1. 1 \in 1 .. Len(q) + 1
    BY <1>1 DEF Chain
  <2>2. QED
    BY <1>1, <1>4, <2>1, ChainEntry
<1>6. Count(UtteranceOf(utterances, first).text) <= CountAt(q, g, 1)
  <2>1. Count(UtteranceOf(utterances, first).text) \in Nat
    BY <1>2, Counted DEF Committing, Utterance
  <2>2. QED
    BY <1>2, <1>4, <1>5, <2>1 DEF Committing
<1>7. Committing(utterances, committed, first, CountAt(q, g, 1), base[first])
  BY <1>2, <1>6 DEF Committing
<1>8. QED
  BY <1>1, <1>3, <1>4, <1>7 DEF Told

-----------------------------------------------------------------------------
(* The steps of the audio and of the recogniser, while the pipeline runs.   *)

(* What a step does that puts no result into the queue.                     *)
QueuesNothing == Buffer' /\ Decodes' /\ WordsHeard <= WordsHeard'

LEMMA FrameQuiet ==
    ASSUME Buffer, Decodes, running, NEW n \in {0, 1}, NEW due \in BOOLEAN, Frame(n, due)
    PROVE  QueuesNothing
<1>1. /\ spoken' = spoken + n /\ loop = "reading" /\ loop' = "reading"
      /\ UNCHANGED <<held, start, uid, endpoint>>
      /\ infer' = infer \/ (infer.pc = "none" /\ infer'.pc = "created")
  BY DEF Frame, GetFrame, PushAudio, Idle
<1>2. /\ spoken \in Nat /\ start \in Nat /\ held \in Nat /\ uid \in Nat /\ start <= spoken
      /\ n \in Nat
  BY DEF Buffer
<1>3. Buffer' /\ spoken - start <= spoken' - start /\ spoken - start \in Nat
  BY <1>1, <1>2 DEF Buffer
<1>4. CASE infer' = infer
  <2>1. infer.pc = "decoding" => Len(infer.words) \in 0 .. spoken' - start
    BY <1>1, <1>2 DEF Decodes
  <2>2. Decodes'
    BY <1>1, <1>4, <2>1 DEF Decodes
  <2>3. WordsHeard \in Nat
    BY Hearing
  <2>4. WordsHeard <= WordsHeard'
    BY <1>1, <1>3, <1>4, <2>3 DEF WordsHeard
  <2>5. QED
    BY <1>3, <2>2, <2>4 DEF QueuesNothing
<1>5. CASE infer.pc = "none" /\ infer'.pc = "created"
  <2>1. Decodes'
    BY <1>1, <1>5 DEF Decodes
  <2>2. WordsHeard <= WordsHeard'
    BY <1>1, <1>3, <1>5 DEF WordsHeard
  <2>3. QED
    BY <1>3, <2>1, <2>2 DEF QueuesNothing
<1>6. QED
  BY <1>1, <1>4, <1>5

LEMMA SpeechEndQuiet ==
    ASSUME Buffer, Decodes, Fits, running, NEW n \in {0, 1}, SpeechEnd(n)
    PROVE  QueuesNothing
<1> DEFINE x == IF infer.pc = "none" THEN Snapshot("decoding")
                ELSE [Idle EXCEPT !.pc = "waiting"]
<1>1. /\ held' = n /\ loop' = "endpoint" /\ UNCHANGED <<spoken, start, uid, infer>>
      /\ endpoint' = [endpoint EXCEPT !["loop"] = x]
  BY DEF SpeechEnd, EnterEndpoint
<1>2. Buffer' /\ WordsHeard' = WordsHeard /\ WordsHeard \in Nat
  BY <1>1, Hearing DEF Buffer, WordsHeard
<1>3. Snapshot("decoding") = [pc |-> "decoding", uid |-> uid,
                              words |-> [i \in 1 .. spoken - start |-> start + i]]
  BY WholeSnapshot
<1>4. x.pc = "decoding" => /\ infer.pc = "none" /\ x.uid = uid
                           /\ x.words = [i \in 1 .. spoken - start |-> start + i]
  <2>1. CASE infer.pc = "none"
    <3>1. x = [pc |-> "decoding", uid |-> uid,
               words |-> [i \in 1 .. spoken - start |-> start + i]]
      BY <1>3, <2>1
    <3> HIDE DEF x
    <3>2. QED
      BY <2>1, <3>1
  <2>2. CASE infer.pc # "none"
    <3>1. x.pc = "waiting"
      BY <2>2 DEF Idle
    <3>2. QED
      BY <3>1
  <2>3. QED
    BY <2>1, <2>2
<1> HIDE DEF x
<1>5. DOMAIN endpoint' = EndpointCaller /\ endpoint'["loop"] = x
      /\ endpoint'["stop"] = endpoint["stop"]
  BY <1>1, LoopsEndpoint DEF Decodes
<1>6. Decodes'
  BY <1>1, <1>4, <1>5 DEF Decodes
<1>7. QED
  BY <1>2, <1>6 DEF QueuesNothing

LEMMA EndpointDecodesQuiet ==
    ASSUME Buffer, Decodes, Fits, running, EndpointDecodes("loop")
    PROVE  QueuesNothing
<1> DEFINE x == Snapshot("decoding")
<1>1. /\ endpoint["loop"].pc = "waiting" /\ infer.pc = "none"
      /\ endpoint' = [endpoint EXCEPT !["loop"] = x]
      /\ UNCHANGED <<held, spoken, start, uid, infer, loop>>
  BY DEF EndpointDecodes, capture
<1>2. Buffer' /\ WordsHeard' = WordsHeard /\ WordsHeard \in Nat
  BY <1>1, Hearing DEF Buffer, WordsHeard
<1>3. x = [pc |-> "decoding", uid |-> uid,
           words |-> [i \in 1 .. spoken - start |-> start + i]]
  BY WholeSnapshot
<1> HIDE DEF x
<1>4. x.uid = uid /\ x.words = [i \in 1 .. spoken - start |-> start + i]
  BY <1>3
<1>5. DOMAIN endpoint' = EndpointCaller /\ endpoint'["loop"] = x
      /\ endpoint'["stop"] = endpoint["stop"]
  BY <1>1, LoopsEndpoint DEF Decodes
<1>6. loop = "endpoint"
  BY <1>1 DEF Decodes
<1>7. Decodes'
  BY <1>1, <1>4, <1>5, <1>6 DEF Decodes
<1>8. QED
  BY <1>2, <1>7 DEF QueuesNothing

LEMMA EndpointFailsQuiet ==
    ASSUME Buffer, Decodes, running, EndpointFails("loop")
    PROVE  QueuesNothing
<1>1. PICK due \in BOOLEAN : LeaveEndpoint("loop", due)
  BY DEF EndpointFails
<1>2. /\ endpoint["loop"].pc = "decoding" /\ UNCHANGED <<start, uid>>
      /\ spoken' = spoken + held /\ held' = 0
      /\ endpoint' = [endpoint EXCEPT !["loop"] = Idle]
      /\ infer' = infer \/ (infer.pc = "none" /\ infer'.pc = "created")
  BY <1>1 DEF EndpointFails, LeaveEndpoint, PushAudio, Idle
<1>3. /\ DOMAIN endpoint' = EndpointCaller /\ endpoint'["loop"] = Idle
      /\ endpoint'["stop"] = endpoint["stop"]
  BY <1>2, LoopsEndpoint DEF Decodes
<1>4. spoken \in Nat /\ start \in Nat /\ held \in Nat /\ uid \in Nat /\ start <= spoken
  BY DEF Buffer
<1>5. Buffer' /\ spoken - start <= spoken' - start /\ spoken - start \in Nat
  BY <1>2, <1>4 DEF Buffer
<1>6. infer.pc = "none"
  BY <1>2 DEF Decodes
<1>7. infer'.pc # "decoding" /\ endpoint'["loop"].pc = "none"
  BY <1>2, <1>3, <1>6 DEF Idle
<1>8. Decodes'
  BY <1>3, <1>7 DEF Decodes
<1>9. WordsHeard <= WordsHeard'
  BY <1>2, <1>5, <1>6, <1>7 DEF WordsHeard
<1>10. QED
  BY <1>5, <1>8, <1>9 DEF QueuesNothing

LEMMA InferStartsQuiet ==
    ASSUME Buffer, Decodes, Fits, running, InferStarts
    PROVE  QueuesNothing
<1>1. /\ infer.pc = "created" /\ infer' = Snapshot("decoding")
      /\ UNCHANGED <<held, spoken, start, uid, endpoint, loop>>
  BY DEF InferStarts, capture
<1>2. infer' = [pc |-> "decoding", uid |-> uid,
                words |-> [i \in 1 .. spoken - start |-> start + i]]
  BY <1>1, WholeSnapshot
<1>3. Buffer' /\ spoken - start \in Nat
  BY <1>1 DEF Buffer
<1>4. /\ infer'.pc = "decoding" /\ infer'.uid = uid
      /\ infer'.words = [i \in 1 .. spoken - start |-> start + i]
      /\ Len(infer'.words) = spoken - start
  BY <1>2, <1>3
<1>5. endpoint["loop"].pc # "decoding"
  BY <1>1 DEF Decodes
<1>6. Len(infer'.words) \in 0 .. spoken - start
  BY <1>3, <1>4
<1>7. Decodes'
  BY <1>1, <1>4, <1>5, <1>6 DEF Decodes
<1>8. WordsHeard <= WordsHeard'
  BY <1>1, <1>3, <1>4 DEF WordsHeard
<1>9. QED
  BY <1>3, <1>7, <1>8 DEF QueuesNothing

LEMMA InferFailsQuiet ==
    ASSUME Buffer, Decodes, running, InferFails
    PROVE  QueuesNothing
<1> DEFINE x == IF endpoint["loop"].pc = "waiting" THEN Idle ELSE endpoint["loop"]
<1>1. endpoint["stop"].pc # "waiting"
  BY DEF Decodes
<1>2. /\ infer.pc = "decoding" /\ infer' = Idle /\ UNCHANGED <<start, uid>>
      /\ endpoint' = [endpoint EXCEPT !["loop"] = x]
      /\ loop' = IF endpoint["loop"].pc # "waiting" THEN loop ELSE "reading"
      /\ (spoken' = spoken /\ held' = held) \/ (spoken' = spoken + held /\ held' = 0)
  BY <1>1 DEF InferFails
<1>3. endpoint["loop"].pc # "decoding"
  BY <1>2 DEF Decodes
<1>4. x.pc # "decoding" /\ (loop' # "endpoint" => x.pc = "none")
  BY <1>2, <1>3 DEF Decodes, Idle
<1> HIDE DEF x
<1>5. /\ DOMAIN endpoint' = EndpointCaller /\ endpoint'["loop"] = x
      /\ endpoint'["stop"] = endpoint["stop"]
  BY <1>2, LoopsEndpoint DEF Decodes
<1>6. infer'.pc = "none"
  BY <1>2 DEF Idle
<1>7. Decodes'
  BY <1>4, <1>5, <1>6 DEF Decodes
<1>8. spoken \in Nat /\ start \in Nat /\ held \in Nat /\ uid \in Nat /\ start <= spoken
  BY DEF Buffer
<1>9. Buffer' /\ spoken - start <= spoken' - start
  BY <1>2, <1>8 DEF Buffer
<1>10. WordsHeard <= WordsHeard'
  <2>1. WordsHeard \in Nat /\ WordsHeard <= spoken - start
    BY Hearing
  <2>2. WordsHeard' = spoken' - start
    BY <1>2, <1>6 DEF WordsHeard
  <2>3. spoken - start \in Nat /\ spoken' - start \in Int
    BY <1>2, <1>8
  <2>4. QED
    BY <1>9, <2>1, <2>2, <2>3
<1>11. QED
  BY <1>7, <1>9, <1>10 DEF QueuesNothing

-----------------------------------------------------------------------------
(* The steps that put a result into the queue.                              *)

LEMMA InferDoneTells ==
    ASSUME Buffer, Decodes, running, NEW base \in [Nat -> Nat], Told(base), InferDone
    PROVE  Buffer' /\ Decodes' /\ Told(base)'
<1> DEFINE c == Len(infer.words)
           g == spoken - start
<1>1. PICK text \in Hypotheses(infer.words) :
         event_queue' = IF text = <<>> THEN event_queue
                        ELSE Append(event_queue,
                                    [uid |-> infer.uid, final |-> FALSE, text |-> text])
  BY DEF InferDone
<1>2. /\ infer.pc = "decoding" /\ infer' = Idle
      /\ UNCHANGED <<held, spoken, start, uid, endpoint, loop, utterances, committed>>
  BY DEF InferDone, capture
<1>3. infer.uid = uid /\ c \in 0 .. g /\ infer.words = [i \in 1 .. c |-> start + i]
  BY <1>2 DEF Decodes
<1>4. /\ {spoken, start, held, uid} \subseteq Nat /\ start <= spoken
      /\ start \in Nat /\ uid \in Nat /\ g \in Nat /\ c \in Nat /\ c <= g
  <2>1. /\ {spoken, start, held, uid} \subseteq Nat /\ start <= spoken
        /\ spoken \in Nat /\ start \in Nat /\ uid \in Nat
    BY DEF Buffer
  <2>2. g \in Nat
    BY <2>1
  <2>3. c \in 0 .. g
    BY <1>3
  <2> HIDE DEF c, g
  <2>4. c \in Nat /\ c <= g
    BY <2>2, <2>3
  <2>5. QED
    BY <2>1, <2>2, <2>4
<1>5. Buffer'
  BY <1>2 DEF Buffer
<1>6. infer'.pc = "none"
  BY <1>2 DEF Idle
<1>7. Decodes'
  BY <1>2, <1>6 DEF Decodes
<1>8. WordsHeard = c /\ WordsHeard' = g
  BY <1>2, <1>6 DEF WordsHeard
<1> HIDE DEF c, g
<1>9. Says(text, start) /\ Count(text) = c
  BY <1>3, <1>4, Recognised
<1>10. CASE text = <<>>
  <2>1. event_queue' = event_queue
    BY <1>1, <1>10
  <2>2. WordsHeard' \in Nat /\ WordsHeard <= WordsHeard'
    BY <1>4, <1>8
  <2>3. Told(base)'
    BY <1>2, <2>1, <2>2, Kept
  <2>4. QED
    BY <1>5, <1>7, <2>3
<1>11. CASE text # <<>>
  <2> DEFINE e == [uid |-> uid, final |-> FALSE, text |-> text]
             q == event_queue
             p == Append(q, e)
             first == UidAt(q, uid, 1)
  <2>1. event_queue' = p
    BY <1>1, <1>3, <1>11
  <2>2. e \in Result /\ e.uid = uid /\ e.text = text /\ ~e.final
    BY <1>4, <1>9 DEF Result, Says
  <2>3. Chain(q, uid, c, base) /\ base[uid] = start
    BY <1>8 DEF Told
  <2>4. Committing(utterances, committed, first, CountAt(q, c, 1), base[first])
    BY <1>8 DEF Told
  <2>5. \A w \in 1 .. start : Covered(q, base[first], base, w)
    BY DEF Told
  <2> HIDE DEF e, first
  <2>6. Chain(p, uid, g, base)
        /\ UidAt(p, uid, 1) = UidAt(q, uid, 1) /\ CountAt(p, g, 1) = CountAt(q, c, 1)
    <3>1. \A z \in 0 .. uid : base[z] = base[z]
      OBVIOUS
    <3>2. Says(e.text, base[uid]) /\ Count(e.text) = c
      BY <1>9, <2>2, <2>3
    <3>3. QED
      BY <1>4, <2>2, <2>3, <3>1, <3>2, ChainAppend
  <2>7. ASSUME NEW w \in 1 .. start PROVE Covered(p, base[first], base, w)
    <3>1. Covered(q, base[first], base, w)
      BY <2>5
    <3>2. \A i \in 1 .. Len(q) : i \in 1 .. Len(p) /\ p[i] = q[i]
      <4>1. q \in Seq(Result)
        BY <2>3 DEF Chain
      <4>2. Len(q) \in Nat /\ Len(p) = Len(q) + 1 /\ \A i \in 1 .. Len(q) : p[i] = q[i]
        BY <2>2, <4>1, AppendProperties
      <4>3. QED
        BY <4>2
    <3>3. QED
      BY <3>1, <3>2 DEF Covered
  <2> HIDE DEF p, q
  <2>8. Told(base)'
    <3>1. UidAt(event_queue', uid', 1) = first
      BY <1>2, <2>1, <2>6 DEF first
    <3>2. CountAt(event_queue', WordsHeard', 1) = CountAt(q, c, 1)
      BY <1>8, <2>1, <2>6
    <3>3. Chain(event_queue', uid', WordsHeard', base)
      BY <1>2, <1>8, <2>1, <2>6
    <3>4. \A w \in 1 .. start' : Covered(event_queue', base[first], base, w)
      BY <1>2, <2>1, <2>7
    <3>5. base[uid'] = start'
      BY <1>2, <2>3
    <3>6. Committing(utterances', committed', first,
                     CountAt(event_queue', WordsHeard', 1), base[first])
      BY <1>2, <2>4, <3>2
    <3>7. QED
      BY <3>1, <3>3, <3>4, <3>5, <3>6 DEF Told
  <2>9. QED
    BY <1>5, <1>7, <2>8
<1>12. QED
  BY <1>10, <1>11

LEMMA EndpointDoneTells ==
    ASSUME Buffer, Decodes, running, NEW base \in [Nat -> Nat], Told(base),
           EndpointDone("loop")
    PROVE  Buffer' /\ Decodes' /\ \E after \in [Nat -> Nat] : Told(after)'
<1> DEFINE h == spoken - start
           y == uid + 1
           g == spoken' - start'
<1>1. PICK text \in Hypotheses(endpoint["loop"].words) :
         event_queue' = Append(event_queue, [uid |-> endpoint["loop"].uid,
                                             final |-> TRUE, text |-> text])
  BY DEF EndpointDone
<1>2. /\ endpoint["loop"].pc = "decoding" /\ start' = spoken /\ uid' = y
      /\ spoken' = spoken + held /\ held' = 0
      /\ endpoint' = [endpoint EXCEPT !["loop"] = Idle]
      /\ UNCHANGED <<infer, utterances, committed>>
  BY DEF EndpointDone, LeaveEndpoint, PushAudio
<1>3. /\ infer.pc = "none" /\ endpoint["loop"].uid = uid
      /\ endpoint["loop"].words = [i \in 1 .. h |-> start + i]
  BY <1>2 DEF Decodes
<1>4. /\ spoken \in Nat /\ start \in Nat /\ held \in Nat /\ uid \in Nat /\ start <= spoken
  BY DEF Buffer
<1>5. Buffer' /\ h \in Nat /\ y \in Nat /\ g \in Nat /\ start + h = spoken
  BY <1>2, <1>4 DEF Buffer
<1>6. /\ DOMAIN endpoint' = EndpointCaller /\ endpoint'["loop"] = Idle
      /\ endpoint'["stop"] = endpoint["stop"]
  BY <1>2, LoopsEndpoint DEF Decodes
<1>7. Decodes'
  BY <1>2, <1>3, <1>6 DEF Decodes, Idle
<1>8. WordsHeard = h /\ WordsHeard' = g
  BY <1>2, <1>3 DEF WordsHeard
<1>9. PICK after \in [Nat -> Nat] :
         after[y] = spoken /\ \A z \in 0 .. uid : after[z] = base[z]
  <2> DEFINE f == [base EXCEPT ![y] = spoken]
  <2>1. \A z \in 0 .. uid : z \in Nat /\ z # y
    BY <1>4
  <2>2. f \in [Nat -> Nat] /\ f[y] = spoken /\ \A z \in 0 .. uid : f[z] = base[z]
    BY <1>4, <1>5, <2>1
  <2> HIDE DEF f
  <2>3. QED
    BY <2>2
<1> HIDE DEF h, y, g
<1>10. Says(text, start) /\ Count(text) = h
  BY <1>3, <1>4, <1>5, Recognised
<1> DEFINE e == [uid |-> uid, final |-> TRUE, text |-> text]
           q == event_queue
           p == Append(q, e)
           first == UidAt(q, uid, 1)
<1>11. event_queue' = p
  BY <1>1, <1>3
<1>12. e \in Result /\ e.uid = uid /\ e.text = text /\ e.final
  BY <1>4, <1>10 DEF Result, Says
<1>13. Chain(q, uid, h, base) /\ base[uid] = start
  BY <1>8 DEF Told
<1>14. Committing(utterances, committed, first, CountAt(q, h, 1), base[first])
  BY <1>8 DEF Told
<1>15. \A w \in 1 .. start : Covered(q, base[first], base, w)
  BY DEF Told
<1>16. first \in 0 .. uid
  <2>1. 1 \in 1 .. Len(q) + 1
    BY <1>13 DEF Chain
  <2>2. QED
    BY <1>13, <2>1, ChainEntry
<1> HIDE DEF e, first
<1>17. Chain(p, y, g, after)
       /\ UidAt(p, y, 1) = UidAt(q, uid, 1) /\ CountAt(p, g, 1) = CountAt(q, h, 1)
  <2>1. Says(e.text, base[uid]) /\ Count(e.text) = h
    BY <1>10, <1>12, <1>13
  <2>2. y = uid + 1 /\ after[y] = base[uid] + h
    BY <1>5, <1>9, <1>13 DEF y
  <2>3. after[uid + 1] = base[uid] + h
    BY <2>2
  <2>4. \A z \in 0 .. uid : after[z] = base[z]
    BY <1>9
  <2>5. e \in Result /\ e.uid = uid /\ e.final /\ g \in Nat /\ after \in [Nat -> Nat]
    BY <1>5, <1>9, <1>12
  <2>6. Chain(q, uid, h, base)
    BY <1>13
  <2> HIDE DEF q
  <2>7. /\ Chain(Append(q, e), uid + 1, g, after)
        /\ UidAt(Append(q, e), uid + 1, 1) = UidAt(q, uid, 1)
        /\ CountAt(Append(q, e), g, 1) = CountAt(q, h, 1)
    BY <2>1, <2>3, <2>4, <2>5, <2>6, ChainFinal
  <2>8. QED
    BY <2>2, <2>7
<1>18. /\ Len(q) + 1 \in 1 .. Len(p) /\ p[Len(q) + 1] = e
       /\ \A i \in 1 .. Len(q) : i \in 1 .. Len(p) /\ p[i] = q[i]
  <2>1. q \in Seq(Result)
    BY <1>13 DEF Chain
  <2> HIDE DEF q
  <2>2. QED
    BY <1>12, <2>1, Appended
<1>19. after[first] = base[first] /\ after[uid] = start
  BY <1>4, <1>9, <1>13, <1>16
<1>20. ASSUME NEW w \in 1 .. spoken PROVE Covered(p, after[first], after, w)
  <2>1. CASE w \in 1 .. start
    <3>1. Covered(q, base[first], base, w)
      BY <1>15, <2>1
    <3>2. CASE w <= base[first]
      BY <1>19, <3>2 DEF Covered
    <3>3. CASE \E i \in 1 .. Len(q) : /\ q[i].final
                                      /\ base[q[i].uid] < w
                                      /\ w <= base[q[i].uid] + Count(q[i].text)
      <4>1. PICK i \in 1 .. Len(q) : /\ q[i].final
                                     /\ base[q[i].uid] < w
                                     /\ w <= base[q[i].uid] + Count(q[i].text)
        BY <3>3
      <4>3. q[i].uid \in 0 .. uid
        BY <1>13, Uids
      <4>4. after[q[i].uid] = base[q[i].uid]
        BY <1>9, <4>3
      <4>5. QED
        BY <1>18, <4>1, <4>4 DEF Covered
    <3>4. QED
      BY <3>1, <3>2, <3>3 DEF Covered
  <2>2. CASE w \notin 1 .. start
    <3>1. start < w /\ w <= start + h
      BY <1>4, <1>5, <2>2
    <3>2. /\ p[Len(q) + 1].final /\ after[p[Len(q) + 1].uid] = start
          /\ Count(p[Len(q) + 1].text) = h
      BY <1>10, <1>12, <1>18, <1>19
    <3>3. QED
      BY <1>18, <3>1, <3>2 DEF Covered
  <2>3. QED
    BY <2>1, <2>2
<1> HIDE DEF p, q
<1>21. Told(after)'
  <2>1. UidAt(event_queue', uid', 1) = first
    BY <1>2, <1>11, <1>17 DEF first
  <2>2. CountAt(event_queue', WordsHeard', 1) = CountAt(q, h, 1)
    BY <1>8, <1>11, <1>17
  <2>3. Chain(event_queue', uid', WordsHeard', after)
    BY <1>2, <1>8, <1>11, <1>17
  <2>4. \A w \in 1 .. start' : Covered(event_queue', after[first], after, w)
    BY <1>2, <1>11, <1>20
  <2>5. after[uid'] = start'
    BY <1>2, <1>9
  <2>6. Committing(utterances', committed', first,
                   CountAt(event_queue', WordsHeard', 1), after[first])
    BY <1>2, <1>14, <1>19, <2>2
  <2>7. QED
    BY <2>1, <2>3, <2>4, <2>5, <2>6 DEF Told
<1>22. QED
  BY <1>5, <1>7, <1>9, <1>21

-----------------------------------------------------------------------------
(* The event loop takes a result.                                           *)

LEMMA Spare ==
    ASSUME NEW j \in Nat, NEW k \in Nat, NEW m \in Nat, j <= m
    PROVE  m - j \in Nat /\ k + m = k + j + (m - j) /\ k <= k + m
  OBVIOUS

LEMMA Joined ==
    ASSUME NEW n \in Nat, NEW c \in Nat
    PROVE  [i \in 1 .. n |-> i] \o WordsAfter(n, c) = [i \in 1 .. n + c |-> i]
<1> DEFINE s == [i \in 1 .. n |-> i]
           t == [k \in 1 .. c |-> n + k]
           r == [i \in 1 .. n + c |-> i]
<1>1. s \in Seq(Nat) /\ t \in Seq(Nat) /\ r \in Seq(Nat)
      /\ Len(s) = n /\ Len(t) = c /\ Len(r) = n + c
  OBVIOUS
<1>2. /\ \A i \in 1 .. n : s[i] = i
      /\ \A i \in 1 .. c : t[i] = n + i
      /\ \A i \in 1 .. n + c : r[i] = i
  OBVIOUS
<1> HIDE DEF s, t, r
<1>3. /\ s \o t \in Seq(Nat) /\ Len(s \o t) = n + c
      /\ \A i \in 1 .. n + c : (s \o t)[i] = IF i <= n THEN s[i] ELSE t[i - n]
  BY <1>1, ConcatProperties
<1>4. ASSUME NEW i \in 1 .. n + c PROVE (s \o t)[i] = r[i]
  <2>1. CASE i <= n
    <3>1. i \in 1 .. n
      BY <2>1
    <3>2. QED
      BY <1>2, <1>3, <2>1, <3>1
  <2>2. CASE ~(i <= n)
    <3>1. i - n \in 1 .. c /\ n + (i - n) = i
      BY <2>2
    <3>2. QED
      BY <1>2, <1>3, <2>2, <3>1
  <2>3. QED
    BY <2>1, <2>2
<1>5. s \o t = r
  BY <1>1, <1>3, <1>4, SeqEqual
<1>6. QED
  BY <1>5 DEF s, t, r, WordsAfter

(* A word is covered as well when the first result is behind the committer. *)
LEMMA CoveredTail ==
    ASSUME NEW q \in Seq(Result), q # <<>>, NEW b \in Nat, NEW base, NEW w \in Nat,
           NEW d \in Nat, b <= d, Covered(q, b, base, w),
           q[1].final => d = base[q[1].uid] + Count(q[1].text)
    PROVE  Covered(Tail(q), d, base, w)
<1> DEFINE p == Tail(q)
<1>1. /\ Len(q) \in Nat /\ Len(q) > 0 /\ Len(p) = Len(q) - 1
      /\ \A i \in 1 .. Len(p) : p[i] = q[i + 1]
  BY HeadTailProperties
<1> HIDE DEF p
<1>2. CASE w <= b
  <2>1. w <= d
    BY <1>2
  <2>2. QED
    BY <2>1 DEF Covered
<1>3. CASE \E i \in 1 .. Len(q) : /\ q[i].final
                                  /\ base[q[i].uid] < w
                                  /\ w <= base[q[i].uid] + Count(q[i].text)
  <2>1. PICK i \in 1 .. Len(q) : /\ q[i].final
                                 /\ base[q[i].uid] < w
                                 /\ w <= base[q[i].uid] + Count(q[i].text)
    BY <1>3
  <2>2. CASE i = 1
    BY <2>1, <2>2 DEF Covered
  <2>3. CASE i # 1
    <3>1. i - 1 \in 1 .. Len(p) /\ (i - 1) + 1 = i
      BY <1>1, <2>3
    <3>2. p[i - 1] = q[i]
      BY <1>1, <3>1
    <3>3. QED
      BY <2>1, <3>1, <3>2 DEF Covered, p
  <2>4. QED
    BY <2>2, <2>3
<1>4. QED
  BY <1>2, <1>3 DEF Covered

LEMMA AsrEventTells ==
    ASSUME Buffer, Decodes, running, NEW base \in [Nat -> Nat], Told(base),
           NEW due \in BOOLEAN, AsrEvent(due)
    PROVE  Buffer' /\ Decodes' /\ Told(base)'
<1> DEFINE q == event_queue
           p == Tail(q)
           h == WordsHeard
           e == Head(q)
           b == base[e.uid]
           u == UtteranceOf(utterances, e.uid)
           r == OnTranscriptEvent(utterances, e, due)
           next == UidAt(q, uid, 2)
<1>1. /\ q # <<>> /\ event_queue' = p /\ utterances' = r.utterances
      /\ committed' = committed \o Words(r.phrase)
      /\ UNCHANGED <<held, spoken, start, uid, infer, endpoint, loop>>
  BY DEF AsrEvent, Commit, capture
<1>2. Buffer' /\ Decodes' /\ WordsHeard' = h
  BY <1>1 DEF Buffer, Decodes, WordsHeard
<1>3. Chain(q, uid, h, base) /\ base[uid] = start
  BY DEF Told
<1>4. q \in Seq(Result) /\ h \in Nat /\ uid \in Nat
  BY <1>3 DEF Chain
<1>5. e = q[1] /\ 1 \in 1 .. Len(q) /\ 2 \in 1 .. Len(q) + 1 /\ 1 + 1 = 2
  <2>1. Len(q) \in Nat /\ Len(q) > 0 /\ Head(q) = q[1]
    BY <1>1, <1>4, HeadTailProperties
  <2> HIDE DEF q
  <2>2. QED
    BY <2>1
<1>6. UidAt(q, uid, 1) = e.uid /\ CountAt(q, h, 1) = Count(e.text)
  BY <1>5 DEF UidAt, CountAt
<1>7. e \in Result /\ e.uid \in Nat /\ e.text \in Seq(Int) /\ e.final \in BOOLEAN
  BY <1>4, <1>5, Entry DEF Result
<1>8. Linked(e, next, CountAt(q, h, 2), base)
  BY <1>3, <1>5 DEF Chain
<1>9. /\ Chain(p, uid, h, base) /\ UidAt(p, uid, 1) = next
      /\ CountAt(p, h, 1) = CountAt(q, h, 2)
  BY <1>1, <1>3, ChainTail
<1>10. /\ DOMAIN utterances \subseteq {e.uid} /\ u \in Utterance /\ Grows(u, b)
       /\ Count(u.text) <= Count(e.text)
       /\ committed = [i \in 1 .. b + Count(u.prefix) |-> i]
  BY <1>6 DEF Told, Committing
<1>11. \A w \in 1 .. start : Covered(q, b, base, w)
  BY <1>6 DEF Told
<1>12. Says(e.text, b)
  BY <1>8 DEF Linked
<1>13. b \in Nat /\ Count(e.text) \in Nat /\ Count(u.prefix) \in Nat /\ Count(u.text) \in Nat
       /\ Count(u.prefix) <= Count(u.text)
  BY <1>7, <1>10, Counted DEF Grows, Says
<1>14. next \in Nat /\ CountAt(q, h, 2) \in Nat
  BY <1>3, <1>4, <1>5, ChainEntry
<1> HIDE DEF q, p, h, e, b, u, r, next
<1>E. EventResult(u, b, e, r)
  <2>1. b \in Nat
    BY <1>13
  <2>2. QED
    BY <1>7, <1>10, <1>12, <2>1, OnEvent DEF u, r
<1>15. start \in Nat
  BY DEF Buffer
<1>16. \E v \in Utterance :
          /\ v = UtteranceOf(r.utterances, next)
          /\ DOMAIN r.utterances \subseteq {next}
          /\ Grows(v, base[next])
          /\ Count(v.text) <= CountAt(q, h, 2)
          /\ \E c \in Nat : /\ Words(r.phrase) = WordsAfter(b + Count(u.prefix), c)
                            /\ base[next] + Count(v.prefix) = b + Count(u.prefix) + c
          /\ b <= base[next]
          /\ e.final => base[next] = b + Count(e.text)
  <2> DEFINE v == UtteranceOf(r.utterances, next)
  <2>1. CASE e.final
    <3>1. next = e.uid + 1 /\ base[next] = b + Count(e.text)
      BY <1>8, <2>1 DEF Linked, b
    <3>2. /\ DOMAIN r.utterances = {}
          /\ Words(r.phrase) = WordsAfter(b + Count(u.prefix), Count(e.text) - Count(u.prefix))
      BY <1>E, <2>1 DEF EventResult
    <3>3. v = FreshUtterance
      BY <3>2 DEF UtteranceOf
    <3>4. base[next] \in Nat
      BY <1>14
    <3> HIDE DEF v
    <3>5. v \in Utterance /\ Grows(v, base[next]) /\ Count(v.text) = 0 /\ Count(v.prefix) = 0
      BY <3>3, <3>4, Fresh
    <3>6. /\ Count(e.text) - Count(u.prefix) \in Nat
          /\ base[next] + 0 = b + Count(u.prefix) + (Count(e.text) - Count(u.prefix))
          /\ b <= base[next] /\ 0 <= CountAt(q, h, 2)
      <4>1. Count(u.prefix) \in Nat /\ Count(e.text) \in Nat /\ b \in Nat
            /\ Count(u.prefix) <= Count(e.text)
        <5>1. \A i, j, k \in Nat : i <= j /\ j <= k => i <= k
          OBVIOUS
        <5>2. QED
          BY <1>10, <1>13, <5>1
      <4>2. CountAt(q, h, 2) \in Nat
        BY <1>14
      <4>3. /\ Count(e.text) - Count(u.prefix) \in Nat /\ b <= b + Count(e.text)
            /\ b + Count(e.text) = b + Count(u.prefix) + (Count(e.text) - Count(u.prefix))
        BY <4>1, Spare
      <4>4. 0 <= CountAt(q, h, 2)
        BY <4>2
      <4>5. base[next] + 0 = base[next]
        BY <3>4
      <4>6. QED
        BY <3>1, <4>3, <4>4, <4>5
    <3>7. QED
      BY <3>1, <3>2, <3>5, <3>6 DEF v
  <2>2. CASE ~e.final
    <3>1. next = e.uid /\ Count(e.text) <= CountAt(q, h, 2) /\ base[next] = b
      BY <1>8, <2>2 DEF Linked, b
    <3>2. /\ DOMAIN r.utterances \subseteq {e.uid}
          /\ v \in Utterance /\ Grows(v, b) /\ Count(v.text) = Count(e.text)
          /\ Count(u.prefix) <= Count(v.prefix)
          /\ Words(r.phrase) = WordsAfter(b + Count(u.prefix), Count(v.prefix) - Count(u.prefix))
      BY <1>E, <2>2, <3>1 DEF EventResult
    <3> HIDE DEF v
    <3>3. Count(v.prefix) \in Nat
      BY <3>2, Counted DEF Utterance
    <3>4. /\ Count(v.prefix) - Count(u.prefix) \in Nat /\ b <= base[next]
          /\ base[next] + Count(v.prefix)
               = b + Count(u.prefix) + (Count(v.prefix) - Count(u.prefix))
      <4>1. Count(u.prefix) \in Nat /\ b \in Nat /\ Count(u.prefix) <= Count(v.prefix)
        BY <1>13, <3>2
      <4>2. /\ Count(v.prefix) - Count(u.prefix) \in Nat
            /\ b + Count(v.prefix) = b + Count(u.prefix) + (Count(v.prefix) - Count(u.prefix))
        BY <3>3, <4>1, Spare
      <4>3. b <= b
        BY <4>1
      <4>4. QED
        BY <3>1, <4>2, <4>3
    <3>5. QED
      BY <2>2, <3>1, <3>2, <3>4 DEF v
  <2>3. QED
    BY <1>7, <2>1, <2>2
<1>17. PICK v \in Utterance :
          /\ v = UtteranceOf(r.utterances, next)
          /\ DOMAIN r.utterances \subseteq {next}
          /\ Grows(v, base[next])
          /\ Count(v.text) <= CountAt(q, h, 2)
          /\ \E c \in Nat : /\ Words(r.phrase) = WordsAfter(b + Count(u.prefix), c)
                            /\ base[next] + Count(v.prefix) = b + Count(u.prefix) + c
          /\ b <= base[next]
          /\ e.final => base[next] = b + Count(e.text)
  BY <1>16
<1>18. committed' = [i \in 1 .. base[next] + Count(v.prefix) |-> i]
  <2>1. PICK c \in Nat : /\ Words(r.phrase) = WordsAfter(b + Count(u.prefix), c)
                         /\ base[next] + Count(v.prefix) = b + Count(u.prefix) + c
    BY <1>17
  <2> DEFINE n == b + Count(u.prefix)
  <2>2. n \in Nat
    BY <1>13
  <2>3. committed = [i \in 1 .. n |-> i] /\ Words(r.phrase) = WordsAfter(n, c)
    BY <1>10, <2>1
  <2>4. base[next] + Count(v.prefix) = n + c
    BY <2>1
  <2> HIDE DEF n
  <2>5. [i \in 1 .. n |-> i] \o WordsAfter(n, c) = [i \in 1 .. n + c |-> i]
    BY <2>2, Joined
  <2>6. QED
    BY <1>1, <2>3, <2>4, <2>5
<1>19. Committing(utterances', committed', next, CountAt(p, h, 1), base[next])
  BY <1>1, <1>9, <1>17, <1>18 DEF Committing
<1>20. \A w \in 1 .. start : Covered(p, base[next], base, w)
  <2>1. SUFFICES ASSUME NEW w \in 1 .. start PROVE Covered(p, base[next], base, w)
    OBVIOUS
  <2>2. Covered(q, b, base, w) /\ w \in Nat
    BY <1>11, <1>15
  <2>3. q[1].final => base[next] = base[q[1].uid] + Count(q[1].text)
    BY <1>5, <1>17 DEF b
  <2>4. base[next] \in Nat /\ b <= base[next]
    BY <1>14, <1>17
  <2>5. QED
    BY <1>1, <1>4, <1>13, <2>2, <2>3, <2>4, CoveredTail DEF p
<1>21. Told(base)'
  <2>1. UidAt(event_queue', uid', 1) = next
    BY <1>1, <1>9
  <2>2. CountAt(event_queue', WordsHeard', 1) = CountAt(p, h, 1)
    BY <1>1, <1>2
  <2>3. Chain(event_queue', uid', WordsHeard', base)
    BY <1>1, <1>2, <1>9
  <2>4. \A w \in 1 .. start' : Covered(event_queue', base[next], base, w)
    BY <1>1, <1>20
  <2>5. base[uid'] = start'
    BY <1>1, <1>3
  <2>6. Committing(utterances', committed', next,
                   CountAt(event_queue', WordsHeard', 1), base[next])
    BY <1>19, <2>2
  <2>7. QED
    BY <2>1, <2>3, <2>4, <2>5, <2>6 DEF Told
<1>22. QED
  BY <1>2, <1>21

(* What has been committed so far.                                          *)
LEMMA ToldCommitted ==
    ASSUME NEW base \in [Nat -> Nat], Told(base)
    PROVE  \E n \in Nat : committed = [i \in 1 .. n |-> i]
<1> DEFINE first == UidAt(event_queue, uid, 1)
           u == UtteranceOf(utterances, first)
           n == base[first] + Count(u.prefix)
<1>1. Chain(event_queue, uid, WordsHeard, base)
  BY DEF Told
<1>2. u \in Utterance /\ committed = [i \in 1 .. n |-> i]
  BY DEF Told, Committing
<1>3. first \in Nat
  <2>1. 1 \in 1 .. Len(event_queue) + 1 /\ uid \in Nat
    BY <1>1 DEF Chain
  <2>2. first \in 0 .. uid
    BY <1>1, <2>1, ChainEntry
  <2>3. QED
    BY <2>1, <2>2
<1> HIDE DEF first, u
<1>4. base[first] \in Nat /\ Count(u.prefix) \in Nat
  BY <1>2, <1>3, Counted DEF Utterance
<1>5. n \in Nat
  BY <1>4
<1>6. QED
  BY <1>2, <1>5

(* stop() flushes what the committer has left, which comes next.            *)
LEMMA StopFlushes ==
    ASSUME Buffer, NEW base \in [Nat -> Nat], Told(base), PipelineStop
    PROVE  \E n \in Nat : committed' = [i \in 1 .. n |-> i]
<1> DEFINE q == event_queue
           h == WordsHeard
           first == UidAt(q, uid, 1)
           u == UtteranceOf(utterances, first)
           n == base[first] + Count(u.prefix)
<1>1. committed' = committed \o Words(FlushAll(utterances))
  BY DEF PipelineStop, Commit
<1>2. Chain(q, uid, h, base)
  BY DEF Told
<1>3. /\ DOMAIN utterances \subseteq {first} /\ u \in Utterance /\ Grows(u, base[first])
      /\ committed = [i \in 1 .. n |-> i]
  BY DEF Told, Committing
<1>4. first \in Nat
  <2>1. 1 \in 1 .. Len(q) + 1 /\ uid \in Nat
    BY <1>2 DEF Chain
  <2>2. first \in 0 .. uid
    BY <1>2, <2>1, ChainEntry
  <2>3. QED
    BY <2>1, <2>2
<1> HIDE DEF first, u
<1>5. base[first] \in Nat /\ Count(u.prefix) \in Nat
  BY <1>3, <1>4, Counted DEF Utterance
<1>6. PICK c \in Nat : Words(FlushAll(utterances)) =
                         WordsAfter(base[first] + Count(u.prefix), c)
  <2>1. /\ DOMAIN utterances \subseteq {first} /\ UtteranceOf(utterances, first) \in Utterance
        /\ Grows(UtteranceOf(utterances, first), base[first])
    BY <1>3 DEF u
  <2>2. base[first] \in Nat
    BY <1>5
  <2>3. QED
    BY <1>4, <2>1, <2>2, Flushed DEF u
<1>7. n \in Nat
  BY <1>5
<1>8. Words(FlushAll(utterances)) = WordsAfter(n, c)
  BY <1>6
<1> HIDE DEF n
<1>9. committed' = [i \in 1 .. n + c |-> i]
  BY <1>1, <1>3, <1>7, <1>8, Joined
<1>10. n + c \in Nat
  BY <1>7
<1>11. QED
  BY <1>9, <1>10

-----------------------------------------------------------------------------
(* The invariant holds.                                                     *)

LEMMA WordOf ==
    ASSUME NEW b \in Nat, NEW text, Says(text, b), NEW w \in Nat,
           b < w, w <= b + Count(text)
    PROVE  \E j \in DOMAIN text : text[j] = w
<1> DEFINE k == w - b
<1>1. text \in Seq(Int)
  BY DEF Says
<1>2. DOMAIN text = 1 .. Len(text)
  BY <1>1
<1>3. /\ Count(text) \in Nat /\ Len(text) \in Nat
      /\ Len(text) = 2 * Count(text) \/ Len(text) = 2 * Count(text) - 1
  BY <1>1, Counted
<1>4. k \in 1 .. Count(text) /\ b + k = w
  BY <1>3
<1> HIDE DEF k
<1>5. text[2 * k - 1] = w
  BY <1>4 DEF Says
<1>6. 2 * k - 1 \in 1 .. Len(text)
  BY <1>3, <1>4
<1>7. QED
  BY <1>2, <1>5, <1>6

LEMMA StreamInvInit ==
    ASSUME StreamInit
    PROVE  StreamInv
<1>1. /\ held = 0 /\ spoken = 0 /\ start = 0 /\ uid = 0 /\ infer = Idle
      /\ endpoint = [c \in EndpointCaller |-> Idle]
      /\ event_queue = <<>> /\ utterances = <<>> /\ committed = <<>>
  BY DEF StreamInit
<1>2. \A n \in Nat : n = 0 => committed = [i \in 1 .. n |-> i]
  BY <1>1
<1>3. Buffer
  BY <1>1 DEF Buffer
<1>4. Decodes
  BY <1>1 DEF Decodes, EndpointCaller, Idle
<1>5. PICK base \in [Nat -> Nat] : \A n \in Nat : base[n] = 0
  <2>1. [n \in Nat |-> 0] \in [Nat -> Nat]
    OBVIOUS
  <2>2. QED
    BY <2>1
<1>6. WordsHeard = 0
  BY <1>1 DEF WordsHeard, Idle
<1>7. UidAt(event_queue, uid, 1) = 0 /\ CountAt(event_queue, WordsHeard, 1) = 0
  BY <1>1, <1>6 DEF UidAt, CountAt
<1>8. Chain(event_queue, uid, WordsHeard, base)
  BY <1>1, <1>6 DEF Chain
<1>9. Committing(utterances, committed, 0, 0, 0)
  <2>1. UtteranceOf(utterances, 0) = FreshUtterance /\ DOMAIN utterances \subseteq {0}
    BY <1>1 DEF UtteranceOf
  <2>2. /\ FreshUtterance \in Utterance /\ Grows(FreshUtterance, 0)
        /\ Count(FreshUtterance.text) = 0 /\ Count(FreshUtterance.prefix) = 0
    BY Fresh
  <2>3. committed = [i \in 1 .. 0 + Count(UtteranceOf(utterances, 0).prefix) |-> i]
    BY <1>2, <2>1, <2>2
  <2>4. QED
    BY <2>1, <2>2, <2>3 DEF Committing
<1>10. Told(base)
  BY <1>1, <1>5, <1>7, <1>8, <1>9 DEF Told
<1>11. QED
  BY <1>2, <1>3, <1>4, <1>10, ToldCommitted DEF StreamInv

(* Once the pipeline is stopped it stays so and nothing is committed.       *)
LEMMA StaysSilent ==
    ASSUME ~running, StreamNext
    PROVE  ~running' /\ committed' = committed
<1>1. ASSUME NEW n \in {0, 1}, NEW due \in BOOLEAN, Frame(n, due)
      PROVE  ~running' /\ committed' = committed
  BY <1>1 DEF Frame
<1>2. CASE Captured
  BY <1>2 DEF Captured
<1>3. CASE NoFrame
  BY <1>3 DEF NoFrame
<1>4. ASSUME NEW n \in {0, 1}, SpeechEnd(n)
      PROVE  ~running' /\ committed' = committed
  BY <1>4 DEF SpeechEnd
<1>5. ASSUME NEW c \in EndpointCaller, EndpointStep(c)
      PROVE  ~running' /\ committed' = committed
  <2>1. CASE EndpointDecodes(c)
    BY <2>1 DEF EndpointDecodes
  <2>2. CASE EndpointDone(c)
    BY <2>2 DEF EndpointDone
  <2>3. CASE EndpointFails(c)
    BY <2>3 DEF EndpointFails
  <2>4. QED
    BY <1>5, <2>1, <2>2, <2>3 DEF EndpointStep
<1>6. CASE InferStep
  BY <1>6 DEF InferStep, InferStarts, InferDone, InferFails
<1>7. ASSUME NEW due \in BOOLEAN, AsrEvent(due)
      PROVE  ~running' /\ committed' = committed
  BY <1>7 DEF AsrEvent
<1>8. CASE PipelineStop
  BY <1>8 DEF PipelineStop
<1>9. QED
  BY <1>1, <1>2, <1>3, <1>4, <1>5, <1>6, <1>7, <1>8 DEF StreamNext

(* Only stop() ends the running of a pipeline.                              *)
LEMMA StaysRunning ==
    ASSUME running, StreamNext, ~PipelineStop
    PROVE  running'
<1>1. ASSUME NEW n \in {0, 1}, NEW due \in BOOLEAN, Frame(n, due) PROVE running'
  BY <1>1 DEF Frame
<1>2. CASE Captured
  BY <1>2 DEF Captured
<1>3. CASE NoFrame
  BY <1>3 DEF NoFrame
<1>4. ASSUME NEW n \in {0, 1}, SpeechEnd(n) PROVE running'
  BY <1>4 DEF SpeechEnd
<1>5. ASSUME NEW c \in EndpointCaller, EndpointStep(c) PROVE running'
  <2>1. CASE EndpointDecodes(c)
    BY <2>1 DEF EndpointDecodes
  <2>2. CASE EndpointDone(c)
    BY <2>2 DEF EndpointDone
  <2>3. CASE EndpointFails(c)
    BY <2>3 DEF EndpointFails
  <2>4. QED
    BY <1>5, <2>1, <2>2, <2>3 DEF EndpointStep
<1>6. CASE InferStep
  BY <1>6 DEF InferStep, InferStarts, InferDone, InferFails
<1>7. ASSUME NEW due \in BOOLEAN, AsrEvent(due) PROVE running'
  BY <1>7 DEF AsrEvent
<1>8. QED
  BY <1>1, <1>2, <1>3, <1>4, <1>5, <1>6, <1>7 DEF StreamNext

(* While the pipeline runs, what is told stays true.                        *)
LEMMA RunningStep ==
    ASSUME Buffer, Decodes, Fits, running, NEW base \in [Nat -> Nat], Told(base), StreamNext
    PROVE  \/ /\ running' /\ Buffer' /\ Decodes'
              /\ \E after \in [Nat -> Nat] : Told(after)'
           \/ PipelineStop
<1>1. ASSUME QueuesNothing, UNCHANGED <<event_queue, utterances, committed, uid, start>>
      PROVE  Buffer' /\ Decodes' /\ Told(base)'
  <2>1. Buffer' /\ Decodes' /\ WordsHeard <= WordsHeard'
    BY <1>1 DEF QueuesNothing
  <2>2. WordsHeard' \in Nat
    <3>1. spoken' - start' \in Nat
      BY <2>1 DEF Buffer
    <3>2. infer'.pc = "decoding" => Len(infer'.words) \in 0 .. spoken' - start'
      BY <2>1 DEF Decodes
    <3>3. QED
      BY <3>1, <3>2 DEF WordsHeard
  <2>3. QED
    BY <1>1, <2>1, <2>2, Kept
<1>2. ASSUME NEW n \in {0, 1}, NEW due \in BOOLEAN, Frame(n, due)
      PROVE  QueuesNothing /\ UNCHANGED <<event_queue, utterances, committed, uid, start>>
  BY <1>2, FrameQuiet DEF Frame
<1>3. CASE Captured
  <2>1. UNCHANGED <<held, spoken, start, uid, infer, endpoint, loop>>
    BY <1>3 DEF Captured
  <2>2. Buffer' /\ Decodes' /\ WordsHeard' = WordsHeard
    BY <2>1 DEF Buffer, Decodes, WordsHeard
  <2>3. WordsHeard \in Nat
    BY Hearing
  <2>4. QueuesNothing
    BY <2>2, <2>3 DEF QueuesNothing
  <2>5. QED
    BY <1>1, <1>3, <2>4 DEF Captured
<1>4. CASE NoFrame
  BY <1>4 DEF NoFrame
<1>5. ASSUME NEW n \in {0, 1}, SpeechEnd(n)
      PROVE  QueuesNothing /\ UNCHANGED <<event_queue, utterances, committed, uid, start>>
  BY <1>5, SpeechEndQuiet DEF SpeechEnd
<1>6. ASSUME NEW c \in EndpointCaller, EndpointStep(c)
      PROVE  Buffer' /\ Decodes' /\ \E after \in [Nat -> Nat] : Told(after)'
  <2>1. c = "loop"
    BY <1>6 DEF EndpointCaller, EndpointStep, EndpointDecodes, EndpointDone, EndpointFails,
                Decodes
  <2>2. CASE EndpointDecodes("loop")
    <3>1. QueuesNothing
      BY <2>2, EndpointDecodesQuiet
    <3>2. QED
      BY <1>1, <2>2, <3>1 DEF EndpointDecodes
  <2>3. CASE EndpointDone("loop")
    BY <2>3, EndpointDoneTells
  <2>4. CASE EndpointFails("loop")
    <3>1. QueuesNothing
      BY <2>4, EndpointFailsQuiet
    <3>2. QED
      BY <1>1, <2>4, <3>1 DEF EndpointFails
  <2>5. QED
    BY <1>6, <2>1, <2>2, <2>3, <2>4 DEF EndpointStep
<1>7. CASE InferStarts
  <2>1. QueuesNothing
    BY <1>7, InferStartsQuiet
  <2>2. QED
    BY <1>1, <1>7, <2>1 DEF InferStarts
<1>8. CASE InferDone
  <2>1. Buffer' /\ Decodes' /\ Told(base)'
    BY <1>8, InferDoneTells
  <2>2. running'
    BY <1>8 DEF InferDone
  <2>3. QED
    BY <2>1, <2>2
<1>9. CASE InferFails
  <2>1. QueuesNothing
    BY <1>9, InferFailsQuiet
  <2>2. QED
    BY <1>1, <1>9, <2>1 DEF InferFails
<1>10. ASSUME NEW due \in BOOLEAN, AsrEvent(due)
       PROVE  Buffer' /\ Decodes' /\ Told(base)'
  BY <1>10, AsrEventTells
<1>11. CASE ~PipelineStop
  <2>1. running'
    BY <1>11, StaysRunning
  <2>2. Buffer' /\ Decodes' /\ \E after \in [Nat -> Nat] : Told(after)'
    BY <1>1, <1>2, <1>3, <1>4, <1>5, <1>6, <1>7, <1>8, <1>9, <1>10, <1>11
       DEF StreamNext, InferStep
  <2>3. QED
    BY <2>1, <2>2
<1>12. QED
  BY <1>11

LEMMA StreamInvStep ==
    ASSUME StreamInv, Fits, [StreamNext]_streamVars
    PROVE  StreamInv'
<1>1. CASE UNCHANGED streamVars
  BY <1>1 DEF StreamInv, streamVars, capture, Buffer, Decodes, Told, WordsHeard
<1>2. CASE StreamNext /\ ~running
  <2>1. ~running' /\ committed' = committed
    BY <1>2, StaysSilent
  <2>2. \E n \in Nat : committed = [i \in 1 .. n |-> i]
    BY <1>2 DEF StreamInv
  <2>3. QED
    BY <2>1, <2>2 DEF StreamInv
<1>3. CASE StreamNext /\ running
  <2>1. PICK base \in [Nat -> Nat] : Told(base)
    BY <1>3 DEF StreamInv
  <2>2. Buffer /\ Decodes
    BY <1>3 DEF StreamInv
  <2>3. CASE running' /\ Buffer' /\ Decodes' /\ \E after \in [Nat -> Nat] : Told(after)'
    BY <2>3 DEF StreamInv
  <2>4. CASE PipelineStop
    <3>1. \E n \in Nat : committed' = [i \in 1 .. n |-> i]
      BY <2>1, <2>2, <2>4, StopFlushes
    <3>2. ~running'
      BY <2>4 DEF PipelineStop
    <3>3. QED
      BY <3>1, <3>2 DEF StreamInv
  <2>5. QED
    BY <1>3, <2>1, <2>2, <2>3, <2>4, RunningStep
<1>4. QED
  BY <1>1, <1>2, <1>3

LEMMA StreamInvAlways == StreamSpec /\ []Fits => []StreamInv
<1>1. StreamInit => StreamInv
  BY StreamInvInit
<1>2. StreamInv /\ Fits /\ [StreamNext]_streamVars => StreamInv'
  BY StreamInvStep
<1>3. QED
  BY <1>1, <1>2, PTL DEF StreamSpec

(* If no utterance is longer than the audio that the recogniser keeps,      *)
(* every word is handed to translation at most once and in the order it was *)
(* said, for any window, thresholds and bounds.                             *)
THEOREM WordsAreInOrder == StreamSpec /\ []Fits => []SpokenInOrder
<1>1. StreamInv => \E n \in Nat : committed = [i \in 1 .. n |-> i]
  BY ToldCommitted DEF StreamInv
<1>2. StreamInv => SpokenInOrder
  BY <1>1 DEF SpokenInOrder
<1>3. QED
  BY <1>2, StreamInvAlways, PTL

(* In particular no word is said twice: what breaks "no repeated sentences" *)
(* is an utterance longer than the audio kept, if words are heard right.    *)
THEOREM NoWordIsRepeated == StreamSpec /\ []Fits => []NoWordTwice
<1>1. SpokenInOrder => NoWordTwice
  BY DEF SpokenInOrder, NoWordTwice
<1>2. QED
  BY <1>1, WordsAreInOrder, PTL

(* Nor is a word lost between the buffer of the recogniser and translation  *)
(* while the pipeline runs.                                                 *)
THEOREM WordsAreKept == StreamSpec /\ []Fits => []NoWordIsLost
<1>1. StreamInv => NoWordIsLost
  <2>1. SUFFICES ASSUME StreamInv, running, NEW w \in 1 .. start
                 PROVE  \/ \E i \in DOMAIN committed : committed[i] = w
                        \/ \E i \in DOMAIN event_queue :
                              /\ event_queue[i].final
                              /\ \E j \in DOMAIN event_queue[i].text :
                                    event_queue[i].text[j] = w
    BY DEF NoWordIsLost
  <2>2. PICK base \in [Nat -> Nat] : Told(base)
    BY <2>1 DEF StreamInv
  <2>3. start \in Nat
    BY <2>1 DEF StreamInv, Buffer
  <2> DEFINE q == event_queue
             first == UidAt(q, uid, 1)
             u == UtteranceOf(utterances, first)
  <2>4. Chain(q, uid, WordsHeard, base) /\ Covered(q, base[first], base, w)
    BY <2>1, <2>2 DEF Told
  <2>5. committed = [i \in 1 .. base[first] + Count(u.prefix) |-> i] /\ u \in Utterance
    BY <2>2 DEF Told, Committing
  <2>6. q \in Seq(Result) /\ uid \in Nat /\ Len(q) \in Nat
    BY <2>4 DEF Chain
  <2>7. base[first] \in Nat
    <3>1. 1 \in 1 .. Len(q) + 1
      BY <2>6
    <3>2. first \in 0 .. uid
      BY <2>4, <3>1, ChainEntry
    <3>3. QED
      BY <2>6, <3>2
  <2>8. Count(u.prefix) \in Nat
    BY <2>5, Counted DEF Utterance
  <2> HIDE DEF first, u
  <2>9. CASE w <= base[first]
    <3>1. w \in 1 .. base[first] + Count(u.prefix)
      BY <2>3, <2>7, <2>8, <2>9
    <3>2. w \in DOMAIN committed /\ committed[w] = w
      BY <2>5, <3>1
    <3>3. QED
      BY <3>2
  <2>10. CASE \E i \in 1 .. Len(q) : /\ q[i].final
                                     /\ base[q[i].uid] < w
                                     /\ w <= base[q[i].uid] + Count(q[i].text)
    <3>1. PICK i \in 1 .. Len(q) : /\ q[i].final
                                   /\ base[q[i].uid] < w
                                   /\ w <= base[q[i].uid] + Count(q[i].text)
      BY <2>10
    <3> DEFINE text == q[i].text
               b == base[q[i].uid]
    <3>2. Says(text, b)
      BY <2>4 DEF Chain, Linked
    <3>3. b \in Nat
      BY <2>6, Entry
    <3>4. w \in Nat /\ b < w /\ w <= b + Count(text)
      BY <2>3, <3>1
    <3> HIDE DEF text, b
    <3>5. \E j \in DOMAIN text : text[j] = w
      BY <3>2, <3>3, <3>4, WordOf
    <3>6. i \in DOMAIN event_queue /\ q[i].final
      BY <2>6, <3>1
    <3>7. QED
      BY <3>5, <3>6 DEF text
  <2>11. QED
    BY <2>4, <2>9, <2>10 DEF Covered
<1>2. QED
  BY <1>1, StreamInvAlways, PTL

(* After stop() has flushed the committer nothing is handed to translation  *)
(* any more, for any window, thresholds and bounds.                         *)
THEOREM StopIsSilent == StreamSpec => SilentAfterStop
<1>1. [StreamNext]_streamVars => [~running => committed' = committed]_streamVars
  BY StaysSilent
<1>2. QED
  BY <1>1, PTL DEF StreamSpec, SilentAfterStop
=============================================================================
