----------------------------- MODULE Conversation -----------------------------
(***************************************************************************)
(* DuplexOrchestrator (duplex_orchestrator.py) with the phrase tasks of its *)
(* pipelines (_translate_and_synthesize) and the AudioPlaybackEngine they   *)
(* share, the model that its two ParakeetTdtV3AsrAdapter share, and the     *)
(* DegradedModeScheduler, whose watchdog changes the mode when speech comes *)
(* too late.  start, stop and set_mode are called by the HTTP handlers, the *)
(* strategy manager, the idle task and the watchdog, without a common lock. *)
(*                                                                         *)
(* The two directions are alike and one pipeline stands for both; pipelines *)
(* are numbered, since every start makes a new one.  What a pipeline        *)
(* commits, and when, is SpeechStream: here any running pipeline may commit *)
(* a phrase.  set_tts_mode and set_language_pair are set_mode with another  *)
(* field, and left out where the watchdog calls set_tts_mode behind it.     *)
(* The optional diarizer is left out.  A watchdog that outlives its          *)
(* cancellation stands for the next one, too.                               *)
(*                                                                         *)
(* queue holds the chunks of the playback queue, at most Capacity, and      *)
(* behind them those of the tasks that are blocked in put(): taking one out *)
(* lets the first of them in.                                               *)
(***************************************************************************)
EXTENDS Integers, Sequences, FiniteSets

CONSTANTS
    Caller,     \* calls that can be under way at once
    Watchdog,   \* the one that is the watchdog's
    Capacity,   \* AudioPlaybackEngine._queue.maxsize
    Phrases,    \* bound: phrases committed in a behaviour
    MaxChunks,  \* bound: chunks of a phrase
    MaxStarts   \* bound: pipelines made

ASSUME ConversationAssumption ==
    /\ Watchdog \in Caller
    /\ {Capacity, Phrases, MaxChunks, MaxStarts} \subseteq Nat \ {0}
    /\ Phrases <= Capacity      \* a drain wakes one blocked task per chunk

Mode == {"full_duplex", "captions_only"}

\* asr_adapter_en and asr_adapter_ro.
Ear == {"en", "ro"}

\* The latency p95 of the last utterances: above max_p95_ms, below target_p95_ms,
\* or neither.
Latency == {"slow", "fast", "fair"}

VARIABLES
    active,     \* orchestrator._is_active
    mode,       \* orchestrator.mode
    current,    \* orchestrator's pipeline, 0: None
    asr,        \* per recogniser: _loaded, and whether it holds the model
    refs,       \* ParakeetTdtV3AsrAdapter._shared_refcount
    mt,         \* the translator is loaded
    voice,      \* ManifestTtsAdapter._loaded
    op,         \* per caller: the await its call is suspended in
    pipeline,   \* the pipelines made: synthesize_audio and _is_running
    phrase,     \* per phrase: its task, pipeline and chunks received so far
    engine,     \* playback: _is_running, a consumer task, times started
    queue,      \* chunks queued for playback and blocked behind the queue
    watch,      \* the watchdog task: off, on, cancelled, dead
    tier,       \* scheduler.current_tier
    p95,        \* what get_summary says
    heard,      \* observer: per phrase, chunks played
    trouble     \* observer: the worst that has happened to calls, see Worst

vars == <<active, mode, current, asr, refs, mt, voice, op, pipeline, phrase,
          engine, queue, watch, tier, p95, heard, trouble>>

ears     == <<asr, refs>>
models   == <<asr, refs, mt, voice>>
ladder   == <<watch, tier, p95>>
playback == <<engine, queue>>
speech   == <<phrase, heard>>

NoCall == [pc |-> "none", set |-> FALSE, mode |-> "full_duplex", of |-> 0]
NoPhrase == [pc |-> "none", of |-> 0, chunks |-> 0]

Made == Len(pipeline)

\* Calls ran one after another and well (0); a load raised, a call was cancelled
\* or a phrase task loaded the translator again (1); calls overlapped (2).
Worst(n) == trouble' = IF n > trouble THEN n ELSE trouble

Quiet == \A c \in Caller : op[c] = NoCall

\* The task of phrase p is blocked in put().
Blocked(p) == \E i \in Capacity + 1 .. Len(queue) : queue[i].phrase = p

-----------------------------------------------------------------------------
Init ==
    /\ active = FALSE /\ mode = "full_duplex" /\ current = 0
    /\ asr = [e \in Ear |-> [loaded |-> FALSE, holds |-> FALSE]] /\ refs = 0
    /\ mt = FALSE /\ voice = FALSE
    /\ watch = "off" /\ tier = "balanced" /\ p95 \in Latency
    /\ op = [c \in Caller |-> NoCall]
    /\ pipeline = <<>>
    /\ phrase = [p \in 1 .. Phrases |-> NoPhrase]
    /\ engine = [running |-> FALSE, consumer |-> FALSE, run |-> 0]
    /\ queue = <<>>
    /\ heard = [p \in 1 .. Phrases |-> 0]
    /\ trouble = 0

-----------------------------------------------------------------------------
(* AudioPlaybackEngine                                                      *)

\* A drain that takes nothing out.
Drained_Nothing(q) == q

\* _drain_queue: the chunks of the tasks it wakes land in the queue.
Drained(q) == SubSeq(q, Capacity + 1, Len(q))

\* start without _drain_queue.
StartPlayback_NotDrained ==
    /\ engine' = [running |-> TRUE, consumer |-> TRUE,
                  run |-> IF engine.running THEN engine.run ELSE engine.run + 1]
    /\ queue' = queue

\* start
StartPlayback ==
    IF engine.running THEN UNCHANGED playback
    ELSE /\ engine' = [running |-> TRUE, consumer |-> TRUE,
                       run |-> engine.run + 1]
         /\ queue' = Drained(queue)

\* stop up to the wait for the cancelled consumer, and the rest.
BeginHalt == engine' = [engine EXCEPT !.running = FALSE, !.consumer = FALSE]
EndHalt == queue' = Drained(queue)

\* The consumer plays a chunk.
Play ==
    /\ engine.consumer
    /\ queue # <<>>
    /\ queue' = Tail(queue)
    /\ heard' = [heard EXCEPT ![Head(queue).phrase] = @ + 1]
    /\ UNCHANGED <<active, mode, current, models, op, pipeline, phrase, engine,
                   ladder, trouble>>

-----------------------------------------------------------------------------
(* Phrase tasks                                                             *)

\* _on_phrase_committed creates the task of the next phrase.
CreateTask(g) ==
    \E p \in 1 .. Phrases :
        /\ phrase[p] = NoPhrase
        /\ \A q \in 1 .. p - 1 : phrase[q] # NoPhrase
        /\ phrase' = [phrase EXCEPT ![p] = [pc |-> "created", of |-> g,
                                            chunks |-> 0]]

\* A task runs as soon as the event loop does: before anything that a call
\* waits for comes back.
NoNewTask == \A p \in 1 .. Phrases : phrase[p].pc # "created"

PhraseCommitted(g) ==
    /\ pipeline[g].running
    /\ CreateTask(g)
    /\ UNCHANGED <<active, mode, current, models, op, pipeline, playback, ladder,
                   heard, trouble>>

\* translate: it loads a translator that was unloaded.
TranslateBegins(p) ==
    /\ phrase[p].pc = "created"
    /\ phrase' = [phrase EXCEPT ![p].pc = IF mt THEN "translating" ELSE "loading"]
    /\ UNCHANGED <<active, mode, current, models, op, pipeline, playback, ladder,
                   heard, trouble>>

TranslatorLoaded(p) ==
    /\ phrase[p].pc = "loading"
    /\ mt' = TRUE
    /\ Worst(1)
    /\ phrase' = [phrase EXCEPT ![p].pc = "translating"]
    /\ UNCHANGED <<active, mode, current, ears, voice, op, pipeline, playback,
                   ladder, heard>>

\* The tokenizer a translation ends with is there: unload() takes it away and
\* load() sets it before it is done.
Tokenizer ==
    \/ mt
    \/ \E c \in Caller : op[c].pc = "load_mt"
    \/ \E p \in 1 .. Phrases : phrase[p].pc = "loading"

\* The translation is there: it is spoken if the task's own pipeline speaks
\* and the TTS adapter is loaded.
Translated(p) ==
    /\ phrase[p].pc = "translating"
    /\ Tokenizer
    /\ pipeline[phrase[p].of].synth
    /\ voice
    /\ phrase' = [phrase EXCEPT ![p].pc = "speaking"]
    /\ UNCHANGED <<active, mode, current, models, op, pipeline, playback, ladder,
                   heard, trouble>>

\* The next chunk of speech comes while the queue is full and is dropped.
ChunkArrives_DropsWhenFull(p) ==
    /\ phrase[p].pc = "speaking" /\ ~Blocked(p)
    /\ phrase[p].chunks < MaxChunks
    /\ phrase' = [phrase EXCEPT ![p].chunks = @ + 1]
    /\ queue' = IF engine.running /\ Len(queue) < Capacity
                THEN Append(queue, [phrase |-> p, run |-> engine.run])
                ELSE queue
    /\ UNCHANGED <<active, mode, current, models, op, pipeline, engine, ladder,
                   heard, trouble>>

\* The next chunk of speech comes: enqueue_chunk puts it, perhaps blocking,
\* or drops it when the engine has stopped.
ChunkArrives(p) ==
    /\ phrase[p].pc = "speaking" /\ ~Blocked(p)
    /\ phrase[p].chunks < MaxChunks
    /\ phrase' = [phrase EXCEPT ![p].chunks = @ + 1]
    /\ queue' = IF engine.running
                THEN Append(queue, [phrase |-> p, run |-> engine.run])
                ELSE queue
    /\ UNCHANGED <<active, mode, current, models, op, pipeline, engine, ladder,
                   heard, trouble>>

\* record_utterance after the last chunk: the window of latencies moves.
Recorded(p) ==
    /\ phrase[p].pc = "speaking" /\ phrase[p].chunks > 0
    /\ p95' \in Latency

\* The task ends: nothing to speak, speech complete, or something raised.
PhraseDone(p) ==
    /\ phrase[p].pc \in {"loading", "translating", "speaking"} /\ ~Blocked(p)
    /\ phrase' = [phrase EXCEPT ![p].pc = "done"]
    /\ Recorded(p) \/ UNCHANGED p95
    /\ UNCHANGED <<active, mode, current, models, op, pipeline, playback, watch,
                   tier, heard, trouble>>

-----------------------------------------------------------------------------
(* The recognisers and the model they share                                 *)

\* load of recogniser e without the look at _loaded.
AsrTaken_Again(e) ==
    /\ asr' = [asr EXCEPT ![e] = [loaded |-> TRUE, holds |-> TRUE]]
    /\ refs' = refs + 1

\* load of recogniser e: _load_blocking, in a thread, loads the model or takes a
\* reference to the one that is there.
AsrTaken(e) ==
    IF asr[e].loaded THEN UNCHANGED ears
    ELSE /\ asr' = [asr EXCEPT ![e] = [loaded |-> TRUE, holds |-> TRUE]]
         /\ refs' = refs + 1

\* It raises.
AsrRaises(e) ==
    /\ ~asr[e].loaded
    /\ asr' = [asr EXCEPT ![e].holds = FALSE]
    /\ UNCHANGED refs

\* Its caller was cancelled: the thread goes on, but load does not.
AsrAbandoned(e) ==
    /\ ~asr[e].loaded
    /\ asr' = [asr EXCEPT ![e].holds = TRUE]
    /\ refs' = refs + 1

\* start_stream loads a recogniser that an overlapping stop has unloaded.
Streams ==
    /\ asr' = [e \in Ear |-> [loaded |-> TRUE, holds |-> TRUE]]
    /\ refs' = refs + Cardinality({e \in Ear : ~asr[e].loaded})

\* unload of both: the last reference takes the model with it.
Released ==
    /\ asr' = [e \in Ear |-> [loaded |-> FALSE, holds |-> FALSE]]
    /\ refs' = LET n == Cardinality({e \in Ear : asr[e].holds})
               IN  IF n > refs THEN 0 ELSE refs - n

-----------------------------------------------------------------------------
(* start                                                                    *)

\* The call of c goes on to the await pc.
GoTo(c, pc) == op' = [op EXCEPT ![c].pc = pc]

\* The call of c raises, and the watchdog does not live through that.
Raise(c) ==
    /\ op' = [op EXCEPT ![c] = NoCall]
    /\ watch' = IF c # Watchdog THEN watch
                ELSE IF watch = "on" THEN "dead" ELSE "off"
    /\ UNCHANGED <<tier, p95>>

\* The tier that the watchdog's call of set_mode is for.
TierOf(m) == IF m = "captions_only" THEN "captions" ELSE "balanced"

\* The call of c returns.  The watchdog then assigns its tier; behind a start
\* of the cascade the scheduler is started.
Return(c) ==
    /\ op' = [op EXCEPT ![c] = NoCall]
    /\ \/ /\ c = Watchdog
          /\ tier' = TierOf(op[c].mode)
          /\ watch' = IF watch = "cancelled" THEN "off" ELSE watch
       \/ /\ c # Watchdog
          /\ watch' = IF op[c].pc = "load_mt" /\ ~op[c].set /\ watch = "off"
                      THEN "on" ELSE watch
          /\ UNCHANGED tier
    /\ UNCHANGED p95

\* A call joins others under way.
Arrive == Worst(IF Quiet THEN 0 ELSE 2)

\* A cancelled watchdog does not get past an await.
Interrupted(c) == c = Watchdog /\ watch = "cancelled"
Resumes(c) == NoNewTask /\ ~Interrupted(c)

\* start without the look at _is_active.
Start_Always(c) ==
    /\ op[c] = NoCall /\ c # Watchdog /\ Made < MaxStarts
    /\ active' = TRUE
    /\ GoTo(c, "load_en")
    /\ Arrive
    /\ UNCHANGED <<mode, current, models, pipeline, playback, ladder, speech>>

\* start up to the loading of the models.
Start(c) ==
    /\ op[c] = NoCall /\ c # Watchdog /\ Made < MaxStarts
    /\ ~active
    /\ active' = TRUE
    /\ GoTo(c, "load_en")
    /\ Arrive
    /\ UNCHANGED <<mode, current, models, pipeline, playback, ladder, speech>>

\* The recogniser that a call loads.
Loading(c) == IF op[c].pc = "load_en" THEN "en" ELSE "ro"
LoadsAsr(c) == op[c].pc \in {"load_en", "load_ro"}

AsrLoaded(c) ==
    /\ LoadsAsr(c) /\ Resumes(c)
    /\ AsrTaken(Loading(c))
    /\ GoTo(c, IF Loading(c) = "en" THEN "load_ro" ELSE "load_mt")
    /\ UNCHANGED <<active, mode, current, mt, voice, pipeline, playback, ladder,
                   speech, trouble>>

\* A pipeline that was made in the present mode, and started.
NewPipeline == [synth |-> mode # "captions_only", running |-> TRUE]

\* The last load, and the rest of start, which does not suspend: the mode is
\* read now, both engines start whatever it is, and the pipeline is started.
MtLoaded(c) ==
    /\ op[c].pc = "load_mt" /\ Resumes(c)
    /\ Made < MaxStarts
    /\ Streams
    /\ mt' = TRUE /\ voice' = TRUE
    /\ pipeline' = Append(pipeline, NewPipeline)
    /\ current' = Made + 1
    /\ StartPlayback
    /\ Return(c)
    /\ UNCHANGED <<active, mode, speech, trouble>>

\* A load raises.  The flag keeps what it is.
LoadFails(c) ==
    /\ LoadsAsr(c) \/ op[c].pc = "load_mt"
    /\ Resumes(c)
    /\ IF LoadsAsr(c) THEN AsrRaises(Loading(c)) ELSE UNCHANGED ears
    /\ Raise(c)
    /\ Worst(1)
    /\ UNCHANGED <<active, mode, current, mt, voice, pipeline, playback, speech>>

-----------------------------------------------------------------------------
(* stop and set_mode                                                        *)

\* stop up to its first await.  The pipeline's stop flushes the committer and
\* closes its stream; one that does not run does nothing.
StopCall(c, request) ==
    /\ op[c] = NoCall
    /\ active
    /\ active' = FALSE
    /\ Arrive
    /\ IF current # 0 /\ pipeline[current].running
       THEN /\ pipeline' = [pipeline EXCEPT ![current].running = FALSE]
            /\ op' = [op EXCEPT ![c] = [request EXCEPT !.pc = "close_stream",
                                                       !.of = current]]
            /\ CreateTask(current) \/ UNCHANGED phrase
            /\ UNCHANGED <<current, voice>>
       ELSE /\ op' = [op EXCEPT ![c] = [request EXCEPT !.pc = "unload"]]
            /\ current' = 0 /\ voice' = FALSE
            /\ UNCHANGED <<pipeline, phrase>>
    /\ UNCHANGED <<mode, ears, mt, playback, tier, p95, heard>>

\* scheduler.stop, before the cascade is stopped.
WatchdogStopped ==
    watch' = IF watch = "on" /\ op[Watchdog] # NoCall THEN "cancelled"
             ELSE IF watch = "cancelled" THEN watch ELSE "off"

Stop(c) ==
    /\ c # Watchdog
    /\ WatchdogStopped
    /\ StopCall(c, NoCall)

\* The cascade is stopped while the orchestrator is not active, in a set_mode.
StopInactive(c) ==
    /\ op[c] = NoCall /\ c # Watchdog
    /\ ~active
    /\ watch # "off" /\ WatchdogStopped
    /\ UNCHANGED <<active, mode, current, models, op, pipeline, playback, tier,
                   p95, speech, trouble>>

\* The pipeline is stopped: its reference goes, the unloading begins with the
\* TTS adapter.
PipelineStopped(c) ==
    /\ current' = 0 /\ voice' = FALSE
    /\ GoTo(c, "unload")

\* close_stream is done, if it had to wait at all: the playback of a pipeline
\* that speaks is stopped.
StreamClosed(c) ==
    /\ op[c].pc = "close_stream"
    /\ ~Interrupted(c)
    /\ IF pipeline[op[c].of].synth
       THEN /\ BeginHalt
            /\ IF engine.consumer
               THEN GoTo(c, "halt") /\ UNCHANGED <<current, voice, queue>>
               ELSE EndHalt /\ PipelineStopped(c)
       ELSE PipelineStopped(c) /\ UNCHANGED playback
    /\ UNCHANGED <<active, mode, ears, mt, pipeline, ladder, speech, trouble>>

\* A cancellation that comes while c waits for the consumer is lost.
Swallowed(c) ==
    /\ watch' = IF Interrupted(c) THEN "off" ELSE watch
    /\ UNCHANGED <<tier, p95>>

Halted(c) ==
    /\ op[c].pc = "halt" /\ NoNewTask
    /\ EndHalt
    /\ PipelineStopped(c)
    /\ Swallowed(c)
    /\ UNCHANGED <<active, mode, ears, mt, pipeline, engine, speech, trouble>>

\* stop returns: set_mode assigns the mode and starts again, unless another
\* call already has.
StopReturns(c) ==
    /\ mode' = IF op[c].set THEN op[c].mode ELSE mode
    /\ IF op[c].set /\ ~active
       THEN /\ active' = TRUE
            /\ op' = [op EXCEPT ![c].pc = "load_en", ![c].of = 0]
            /\ Swallowed(c)
       ELSE Return(c) /\ UNCHANGED active

\* The TTS adapter has been unloaded, the others go at once; then the playback
\* is stopped (again).
Unloaded(c) ==
    /\ op[c].pc = "unload"
    /\ ~Interrupted(c)
    /\ mt' = FALSE /\ Released
    /\ BeginHalt
    /\ IF engine.consumer
       THEN GoTo(c, "last_halt") /\ UNCHANGED <<active, mode, queue, ladder>>
       ELSE EndHalt /\ StopReturns(c)
    /\ UNCHANGED <<current, voice, pipeline, speech, trouble>>

LastHalted(c) ==
    /\ op[c].pc = "last_halt" /\ NoNewTask
    /\ EndHalt
    /\ StopReturns(c)
    /\ UNCHANGED <<current, models, pipeline, engine, speech, trouble>>

\* set_mode of a stopped orchestrator.
SetModeInactive(c, m) ==
    /\ op[c] = NoCall
    /\ ~active /\ m # mode
    /\ mode' = m
    /\ Arrive
    /\ UNCHANGED <<active, current, models, op, pipeline, playback, speech>>

\* set_mode of a running one.
SetModeActive(c, m) ==
    /\ m # mode /\ Made < MaxStarts
    /\ StopCall(c, [NoCall EXCEPT !.set = TRUE, !.mode = m])
    /\ UNCHANGED watch

SetMode(c, m) ==
    /\ c # Watchdog
    /\ SetModeActive(c, m) \/ (SetModeInactive(c, m) /\ UNCHANGED ladder)

\* The watchdog is cancelled in its set_mode, or the idle task in its stop, which
\* a request does.  The wait for the consumer swallows the cancellation; every
\* other await ends the call.
Cancelled(c) ==
    /\ NoNewTask
    /\ Interrupted(c) \/ (c # Watchdog /\ ~op[c].set)
    /\ \/ op[c].pc \in {"close_stream", "unload"} /\ UNCHANGED ears
       \/ c = Watchdog /\ op[c].pc = "load_mt" /\ UNCHANGED ears
       \/ c = Watchdog /\ LoadsAsr(c)
          /\ \/ AsrAbandoned(Loading(c)) \/ AsrRaises(Loading(c))
             \/ asr[Loading(c)].loaded /\ UNCHANGED ears
    /\ Raise(c)
    /\ Worst(1)
    /\ UNCHANGED <<active, mode, current, mt, voice, pipeline, playback, speech>>

-----------------------------------------------------------------------------
(* The watchdog                                                             *)

\* It wakes up and calls set_mode(m), which may have nothing to do.
WatchdogSets(m) ==
    \/ SetModeActive(Watchdog, m)
    \/ /\ SetModeInactive(Watchdog, m) \/
          (mode = m /\ UNCHANGED <<active, mode, current, models, op, pipeline,
                                  playback, speech, trouble>>)
       /\ tier' = TierOf(m)
       /\ UNCHANGED <<watch, p95>>

Wakes == watch = "on" /\ op[Watchdog] = NoCall

\* The step that leaves the tier as it is.
Relieve_Forgets ==
    /\ Wakes /\ p95 = "slow"
    /\ tier = "balanced"
    /\ UNCHANGED vars

Relieve ==
    /\ Wakes /\ p95 = "slow"
    /\ tier = "balanced"
    /\ tier' = "light"
    /\ UNCHANGED <<active, mode, current, models, op, pipeline, playback, watch,
                   p95, speech, trouble>>

\* _downgrade_tier to captions, and _upgrade_tier.
Downgrade == Wakes /\ p95 = "slow" /\ tier = "light" /\ WatchdogSets("captions_only")
Upgrade == Wakes /\ p95 = "fast" /\ tier = "captions" /\ WatchdogSets("full_duplex")

Watches == Relieve \/ Downgrade \/ Upgrade

-----------------------------------------------------------------------------
CallStep(c) ==
    \/ AsrLoaded(c) \/ MtLoaded(c) \/ LoadFails(c)
    \/ StreamClosed(c) \/ Halted(c) \/ Unloaded(c) \/ LastHalted(c)

PhraseStep(p) ==
    \/ TranslateBegins(p) \/ TranslatorLoaded(p) \/ Translated(p)
    \/ ChunkArrives(p) \/ PhraseDone(p)

Next ==
    \/ \E c \in Caller :
          \/ Start(c) \/ Stop(c) \/ StopInactive(c) \/ Cancelled(c) \/ CallStep(c)
          \/ \E m \in Mode : SetMode(c, m)
    \/ Watches
    \/ \E g \in 1 .. Made : PhraseCommitted(g)
    \/ \E p \in 1 .. Phrases : PhraseStep(p)
    \/ Play

\* Loads, closes and unloads end; translation and speech end; the consumer and
\* the watchdog run.
Fairness ==
    /\ \A c \in Caller : WF_vars(CallStep(c))
    /\ \A p \in 1 .. Phrases : WF_vars(PhraseStep(p))
    /\ WF_vars(Play)
    /\ WF_vars(Watches)

Spec == Init /\ [][Next]_vars /\ Fairness

-----------------------------------------------------------------------------
(* Properties                                                               *)

\* Unless calls overlap, a running pipeline is the one the orchestrator refers
\* to, so that a later stop reaches it: no pipeline captures for ever beside
\* the next one, even after loads that raised or a cancelled set_mode.
LivePipelineIsCurrent ==
    trouble < 2 =>
        \A g \in 1 .. Made : pipeline[g].running => g = current

\* Unless calls overlap, no chunk is played in a run of the
\* playback engine other than the one it was queued in, though a drain lets
\* chunks of blocked tasks into the queue of a stopped engine.
ChunksOfThisRun ==
    (engine.running /\ trouble < 2) =>
        \A i \in DOMAIN queue : queue[i].run = engine.run

\* Unless calls overlap, no chunk of a phrase is lost as long as its pipeline
\* runs: what has been synthesised is played, queued or blocked.
NoChunkIsLost ==
    trouble < 2 =>
        \A p \in 1 .. Phrases :
            (phrase[p].of # 0 /\ pipeline[phrase[p].of].running) =>
                phrase[p].chunks =
                    heard[p] + Cardinality({i \in DOMAIN queue :
                                                queue[i].phrase = p})

\* Every phrase task ends, whatever calls do: none stays blocked on the queue of
\* an engine that was stopped.
PhrasesEnd ==
    \A p \in 1 .. Phrases : phrase[p].pc = "created" ~> phrase[p].pc = "done"

\* The recognisers' model is loaded as long as one of them holds it and no
\* longer, unless calls overlap: loads that raise between the two and calls that
\* are cancelled leave no reference behind.
SharedModelIsHeld ==
    trouble < 2 => refs = Cardinality({e \in Ear : asr[e].holds})

\* While utterances come too late and the watchdog runs, the conversation comes
\* down to captions in the end, whoever else changes the mode, unless a call
\* fails or the bound on starts is reached; when the tier says that it has done
\* so, the watchdog does no more.
LoadIsShed ==
    (watch = "on" /\ p95 = "slow" /\ tier # "captions") ~>
        \/ mode = "captions_only" \/ p95 # "slow" \/ watch # "on"
        \/ trouble > 0 \/ Made = MaxStarts
=============================================================================
