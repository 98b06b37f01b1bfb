----------------------------- MODULE SpeechStream -----------------------------
(***************************************************************************)
(* One direction of the cascade up to translation: the AudioCaptureEngine   *)
(* (audio_capture.py), the capture and VAD loop and the ASR event loop of a *)
(* pipeline (inbound_pipeline.py, outbound_pipeline.py), the stream state   *)
(* of SileroVadAdapter, the stream of ParakeetTdtV3AsrAdapter, and the      *)
(* PhraseCommitter.  One behaviour is the life of one pipeline object from  *)
(* the end of start() on; every start makes new ones, but the engine and    *)
(* what is left in its queue are those of the pipeline before.              *)
(*                                                                         *)
(* Audio is the words in it, numbered as they are captured.  A frame holds *)
(* at most one; frames without a word are not counted, and may come at any *)
(* time.  When a partial decode is due is not computed from lengths:       *)
(* silence fills the buffer too, so it may be at any frame.                *)
(*                                                                         *)
(* The VAD's network is external: it may find speech in any frame, or not. *)
(* The recogniser is external.  It is taken to hear every word it is given *)
(* and to write a full stop at the end or not, anew at each decode.  What  *)
(* goes wrong here goes wrong with a perfect recogniser.                   *)
(***************************************************************************)
EXTENDS PhraseCommitter

CONSTANTS
    MinSpeech,      \* frames of speech that start an utterance (150 ms)
    MinSilence,     \* frames without it that end one (300 ms)
    Window,         \* words that fit in _max_context_s (12 s) of audio
    MaxWords,       \* bound: words captured in a behaviour
    MaxBacklog,     \* bound: words in the capture queue (the queue has none)
    MaxUtterances,  \* bound: times the utterance id is renewed
    MaxEvents,      \* bound: partial results waiting (the queue has none)
    MaxFailures     \* bound: decodes that raise

ASSUME StreamAssumption ==
    /\ {Window, MinSpeech, MinSilence} \subseteq Nat \ {0}
    /\ {MaxWords, MaxBacklog, MaxUtterances, MaxEvents, MaxFailures} \subseteq Nat

VARIABLES
    captured,   \* number of words that the engine has captured
    held,       \* words in the frame that the capture loop holds
    vad,        \* SileroVadState: in speech, frames that say otherwise
    spoken,     \* number of words pushed into the stream so far
    start,      \* words before those in state.pcm
    uid,        \* state.utterance_id
    infer,      \* state.infer_task: a partial decode and what it works on
    endpoint,   \* who is in endpoint(): the capture loop, and stop()
    event_queue, \* state.event_queue
    closed,     \* state.closed
    running,    \* pipeline._is_running
    loop,       \* _capture_and_vad_loop
    events,     \* _asr_events_loop
    utterances, \* phrase_committer._utterances
    committed,  \* observer: the words handed to translation, in order
    failures    \* decodes that have raised

capture == <<captured, held, vad>>

streamVars == <<capture, spoken, start, uid, infer, endpoint, event_queue, closed,
                running, loop, events, utterances, committed, failures>>

EndpointCaller == {"loop", "stop"}

\* create_stream_state
NewVadState == [speaking |-> FALSE, run |-> 0]

Idle == [pc |-> "none", uid |-> 0, words |-> <<>>]

\* The text of a decode: the words with spaces between them, and perhaps a
\* full stop.
Hypotheses(ws) ==
    LET text == [i \in 1 .. 2 * Len(ws) - 1 |->
                    IF i % 2 = 1 THEN ws[(i + 1) \div 2] ELSE Space]
    IN  IF ws = <<>> THEN {<<>>} ELSE {text, Append(text, FullStop)}

\* What _decode_state copies under the lock: the id and the last _max_context_s
\* of the buffer.
Snapshot(pc) ==
    LET first == Max({start, spoken - Window})
    IN  [pc    |-> pc,
         uid   |-> uid,
         words |-> [i \in 1 .. spoken - first |-> first + i]]

Commit(phrase) == committed' = committed \o Words(phrase)

-----------------------------------------------------------------------------
\* The words left in the queue by the pipeline before: the engine keeps its
\* queue, and its start does not empty it.
Leftover == 0 .. MaxBacklog

StreamInit ==
    /\ captured \in Leftover
    /\ held = 0
    /\ vad = NewVadState
    /\ spoken = 0 /\ start = 0 /\ uid = 0
    /\ infer = Idle
    /\ endpoint = [c \in EndpointCaller |-> Idle]
    /\ event_queue = <<>>
    /\ closed = FALSE /\ running = TRUE
    /\ loop = "reading" /\ events = "reading"
    /\ utterances = <<>>
    /\ committed = <<>>
    /\ failures = 0

-----------------------------------------------------------------------------
(* The capture loop                                                         *)

\* push_audio, after which the loop looks at _is_running.  A partial decode is
\* created when one is due and the last one is done.
PushAudio(n, due) ==
    /\ spoken' = spoken + n
    /\ infer' = IF due /\ infer.pc = "none"
                THEN [Idle EXCEPT !.pc = "created"] ELSE infer
    /\ loop' = IF running THEN "reading" ELSE "ended"

\* The engine is stopped after the stream is closed.
Capturing == ~closed

\* The callback of the audio device, in its own thread, puts a frame with a word
\* into the queue.
Captured ==
    /\ Capturing
    /\ captured < MaxWords
    /\ captured - spoken - held < MaxBacklog
    /\ captured' = captured + 1
    /\ UNCHANGED <<held, vad, spoken, start, uid, infer, endpoint, event_queue, closed,
                   running, loop, events, utterances, committed, failures>>

\* process_with_state: frames that say otherwise add up and frames that agree
\* begin anew; when there are enough of them the speech starts or ends.
Enough == vad.run + 1 >= IF vad.speaking THEN MinSilence ELSE MinSpeech

Heard(voice) ==
    CASE voice = vad.speaking -> [vad EXCEPT !.run = 0]
      [] voice # vad.speaking /\ ~Enough -> [vad EXCEPT !.run = @ + 1]
      [] OTHER -> [speaking |-> voice, run |-> 0]

EndsSpeech(voice) == vad.speaking /\ ~voice /\ Enough

\* get_frame: the frame at the head of the queue, with a word or without.
GetFrame(n) == loop = "reading" /\ n <= captured - spoken

\* A frame in which the VAD sees no end of speech; it raises, or it judges.
Frame(n, due) ==
    /\ GetFrame(n)
    /\ \/ UNCHANGED vad
       \/ \E voice \in BOOLEAN : ~EndsSpeech(voice) /\ vad' = Heard(voice)
    /\ PushAudio(n, due)
    /\ UNCHANGED <<captured, held, start, uid, endpoint, event_queue, closed, running,
                   events, utterances, committed, failures>>

\* get_frame times out: the loop only looks at _is_running.
NoFrame ==
    /\ loop = "reading"
    /\ ~running
    /\ loop' = "ended"
    /\ UNCHANGED <<capture, spoken, start, uid, infer, endpoint, event_queue, closed,
                   running, events, utterances, committed, failures>>

\* Without the wait for a partial decode.
EnterEndpoint_NoWait(c) ==
    endpoint' = [endpoint EXCEPT ![c] = Snapshot("decoding")]

\* endpoint(): wait for a partial decode under way, else take the final one.
EnterEndpoint(c) ==
    endpoint' = [endpoint EXCEPT ![c] = IF infer.pc = "none"
                                        THEN Snapshot("decoding")
                                        ELSE [Idle EXCEPT !.pc = "waiting"]]

\* A frame in which the VAD sees the end of speech; a word in it is pushed
\* after the endpoint.
SpeechEnd(n) ==
    /\ GetFrame(n)
    /\ EndsSpeech(FALSE)
    /\ uid < MaxUtterances
    /\ vad' = Heard(FALSE)
    /\ held' = n
    /\ loop' = "endpoint"
    /\ EnterEndpoint("loop")
    /\ UNCHANGED <<captured, spoken, start, uid, infer, event_queue, closed, running,
                   events, utterances, committed, failures>>

\* close_stream after the endpoint, and the rest of stop(): the stream is
\* closed and the partial decode and both loops are cancelled.
CloseStream ==
    /\ closed' = TRUE
    /\ infer' = Idle
    /\ endpoint' = [c \in EndpointCaller |-> Idle]
    /\ loop' = "ended" /\ events' = "ended"

\* The caller of endpoint() goes on: the capture loop pushes the frame that
\* ended the speech, stop() closes the stream.
LeaveEndpoint(c, due) ==
    \/ /\ c = "loop"
       /\ PushAudio(held, due)
       /\ held' = 0
       /\ endpoint' = [endpoint EXCEPT ![c] = Idle]
       /\ UNCHANGED <<closed, events>>
    \/ /\ c = "stop"
       /\ CloseStream
       /\ UNCHANGED <<held, spoken>>

\* The partial decode that endpoint() waited for is done.
EndpointDecodes(c) ==
    /\ endpoint[c].pc = "waiting"
    /\ infer.pc = "none"
    /\ endpoint' = [endpoint EXCEPT ![c] = Snapshot("decoding")]
    /\ UNCHANGED <<capture, spoken, start, uid, infer, event_queue, closed, running,
                   loop, events, utterances, committed, failures>>

\* The final decode: its event, then the buffer is emptied, the id renewed and
\* the task forgotten.  The frame pushed next is too little for a decode.
EndpointDone(c) ==
    /\ endpoint[c].pc = "decoding"
    /\ \E text \in Hypotheses(endpoint[c].words) :
          event_queue' = Append(event_queue, [uid |-> endpoint[c].uid,
                                              final |-> TRUE, text |-> text])
    /\ start' = spoken
    /\ uid' = uid + 1
    /\ LeaveEndpoint(c, FALSE)
    /\ UNCHANGED <<captured, vad, running, utterances, committed, failures>>

\* The final decode raises: the event and the renewal do not happen.
EndpointFails(c) ==
    /\ endpoint[c].pc = "decoding"
    /\ failures < MaxFailures
    /\ failures' = failures + 1
    /\ \E due \in BOOLEAN : LeaveEndpoint(c, due)
    /\ UNCHANGED <<captured, vad, start, uid, event_queue, running, utterances,
                   committed>>

-----------------------------------------------------------------------------
(* The partial decode                                                       *)

\* _decode_state takes its copy, or finds the stream closed.
InferStarts ==
    /\ infer.pc = "created"
    /\ Len(event_queue) < MaxEvents
    /\ infer' = Snapshot("decoding")
    /\ UNCHANGED <<capture, spoken, start, uid, endpoint, event_queue, closed, running,
                   loop, events, utterances, committed, failures>>

\* Its result; an empty one is dropped.
InferDone ==
    /\ infer.pc = "decoding"
    /\ infer' = Idle
    /\ \E text \in Hypotheses(infer.words) :
          event_queue' = IF text = <<>> THEN event_queue
                         ELSE Append(event_queue, [uid |-> infer.uid,
                                                   final |-> FALSE, text |-> text])
    /\ UNCHANGED <<capture, spoken, start, uid, endpoint, closed, running, loop,
                   events, utterances, committed, failures>>

\* It raises, and so does an endpoint() that awaits it: the capture loop logs
\* that and pushes its frame, stop() goes on to close the stream.
InferFails ==
    /\ infer.pc = "decoding"
    /\ failures < MaxFailures
    /\ failures' = failures + 1
    /\ \/ /\ endpoint["stop"].pc = "waiting"
          /\ CloseStream
          /\ UNCHANGED <<held, spoken>>
       \/ /\ endpoint["stop"].pc # "waiting"
          /\ infer' = Idle
          /\ endpoint' = [endpoint EXCEPT !["loop"] =
                              IF @.pc = "waiting" THEN Idle ELSE @]
          /\ loop' = IF endpoint["loop"].pc # "waiting" THEN loop
                     ELSE IF running THEN "reading" ELSE "ended"
          /\ IF endpoint["loop"].pc = "waiting"
             THEN spoken' = spoken + held /\ held' = 0
             ELSE UNCHANGED <<held, spoken>>
          /\ UNCHANGED <<closed, events>>
    /\ UNCHANGED <<captured, vad, start, uid, event_queue, running, utterances,
                   committed>>

-----------------------------------------------------------------------------
(* The ASR event loop and stop()                                            *)

\* Without the look at _is_running.
AsrEvent_NotStopped(due) ==
    /\ events = "reading"
    /\ event_queue # <<>>
    /\ event_queue' = Tail(event_queue)
    /\ LET r == OnTranscriptEvent(utterances, Head(event_queue), due)
       IN  /\ utterances' = r.utterances
           /\ Commit(r.phrase)
    /\ UNCHANGED <<capture, spoken, start, uid, infer, endpoint, closed, running,
                   loop, events, failures>>

\* The next event goes to the committer, unless the pipeline was stopped.
AsrEvent(due) ==
    /\ events = "reading"
    /\ event_queue # <<>>
    /\ event_queue' = Tail(event_queue)
    /\ \/ /\ running
          /\ LET r == OnTranscriptEvent(utterances, Head(event_queue), due)
             IN  /\ utterances' = r.utterances
                 /\ Commit(r.phrase)
          /\ UNCHANGED events
       \/ /\ ~running
          /\ events' = "ended"
          /\ UNCHANGED <<utterances, committed>>
    /\ UNCHANGED <<capture, spoken, start, uid, infer, endpoint, closed, running,
                   loop, failures>>

\* stop() up to its first await: what is left is committed, then close_stream
\* begins an endpoint() of its own if the buffer holds any audio.
PipelineStop ==
    /\ running
    /\ running' = FALSE
    /\ Commit(FlushAll(utterances))
    /\ utterances' = <<>>
    /\ \/ /\ EnterEndpoint("stop")
          /\ UNCHANGED <<closed, infer, loop, events>>
       \/ /\ start = spoken
          /\ CloseStream
    /\ UNCHANGED <<capture, spoken, start, uid, event_queue, failures>>

-----------------------------------------------------------------------------
EndpointStep(c) == EndpointDecodes(c) \/ EndpointDone(c) \/ EndpointFails(c)
InferStep == InferStarts \/ InferDone \/ InferFails

StreamNext ==
    \/ \E n \in {0, 1}, due \in BOOLEAN : Frame(n, due)
    \/ Captured \/ NoFrame
    \/ \E n \in {0, 1} : SpeechEnd(n)
    \/ \E c \in EndpointCaller : EndpointStep(c)
    \/ InferStep
    \/ \E due \in BOOLEAN : AsrEvent(due)
    \/ PipelineStop

\* The event loop takes an event.  AsrEvent is the one step that does, and is
\* possible whenever this is.
EventTaken ==
    /\ events = "reading"
    /\ event_queue # <<>>
    /\ event_queue' = Tail(event_queue)

\* Decodes end, by a result or by raising, and the event loop runs.
StreamFairness ==
    /\ \A c \in EndpointCaller : WF_streamVars(EndpointStep(c))
    /\ WF_streamVars(InferStep)
    /\ WF_event_queue(EventTaken)

StreamSpec == StreamInit /\ [][StreamNext]_streamVars /\ StreamFairness

-----------------------------------------------------------------------------
(* Properties                                                               *)

\* Every word is handed to translation at most once and in the order it was
\* said, whichever partial and final results overtake the audio, the commits
\* and the renewal of the utterance id (uncommitted_text, mark_committed,
\* endpoint's await of the partial decode).
SpokenInOrder ==
    \A i \in DOMAIN committed : committed[i] = i

\* As long as the pipeline runs, a word whose buffer endpoint() has emptied has
\* been handed to translation or is in a final result on its way there: neither
\* the renewal nor the committer's clean-up after a final result drops it.
NoWordIsLost ==
    running =>
        \A w \in 1 .. start :
            \/ \E i \in DOMAIN committed : committed[i] = w
            \/ \E i \in DOMAIN event_queue :
                  /\ event_queue[i].final
                  /\ \E j \in DOMAIN event_queue[i].text : event_queue[i].text[j] = w

\* After stop() has flushed the committer nothing is handed to translation any
\* more, though its close_stream makes the ASR put one more final result into
\* the queue that the event loop still reads.
SilentAfterStop == [][~running => committed' = committed]_streamVars

\* The words of an utterance whose end the VAD has reported are handed to
\* translation in the end, unless the pipeline is stopped or a decode raises.
SpeechEndIsAnswered ==
    \A w \in 1 .. MaxWords :
        (loop = "endpoint" /\ w <= spoken) ~>
            \/ \E i \in DOMAIN committed : committed[i] = w
            \/ ~running
            \/ failures > 0

\* docs/archive/REALTIME_EN_RO_CONFERENCE_TRANSLATOR_AGENT_PLAN.md:521,1595:
\* "Do not resend already-spoken text as new TTS", "No repeated sentences".
\* No word is handed to translation twice.
NoWordTwice ==
    \A i, j \in DOMAIN committed : committed[i] = committed[j] => i = j
=============================================================================
