------------------------------- MODULE TtsDrivers -------------------------------
(***************************************************************************)
(* What the drivers of a TTS worker do with a voice                         *)
(* (workers/tts_host/drivers): OmniVoice and XTTS keep what they learned     *)
(* from a recording in memory, native Higgs keeps it in a directory beside   *)
(* the recording, and the proxy sends the recording to its backend.          *)
(*                                                                         *)
(* The host holds its runtime lock for an utterance, so a worker has one     *)
(* job.  Drivers work in threads and read files that the daemon, another     *)
(* process, may replace or delete between two reads.  The clauses of an      *)
(* utterance are generated alike, and one stands for them.  A target-        *)
(* language recording, which XTTS would mix in, is left out.                 *)
(*                                                                         *)
(* VoiceProfiles says whose job it is and what becomes of the audio.         *)
(***************************************************************************)
EXTENDS Naturals, Sequences

CONSTANTS
    Driver,      \* drivers a worker may have
    Place,       \* directories with a reference.wav
    Client,      \* who can ask for an utterance
    Nobody,      \* a client that has given up
    MaxUploads,  \* bound: recordings uploaded
    Long,        \* recordings longer than _MAX_REFERENCE_SECONDS
    CacheSize,   \* prompts that XTTS keeps
    Ahead,       \* capacity of the queue of native Higgs
    Pieces       \* pieces of audio in one utterance

Upload == 1..MaxUploads
Nothing == 0

ASSUME DriverAssumption ==
    /\ Driver \subseteq {"omnivoice", "xtts", "higgs", "proxy"}
    /\ Nobody \notin Client
    /\ MaxUploads \in Nat /\ Long \subseteq Upload
    /\ {CacheSize, Ahead, Pieces} \subseteq Nat \ {0}

VARIABLES
    dir,     \* per place: the directory; here its made, ref and speaker
    worker   \* the driver: whether it is healthy and has its model; its prompts
             \* and its job

NoJob == [of |-> Nobody, at |-> Nobody, wav |-> FALSE, pc |-> "none",
          key |-> Nothing, voice |-> Nothing, given |-> 0, ahead |-> 0]

\* A worker of that driver, just started.
Fresh(k) == [kind |-> k, ready |-> FALSE, awake |-> FALSE, prompts |-> <<>>,
             job |-> NoJob]

Job == worker.job
Busy == Job.pc # "none"
Ref == dir[Job.at].ref

\* The job of a worker with driver k is at pc; it goes on with that voice.
At(k, pc) == worker.kind = k /\ Job.pc = pc
Goes(pc, voice) ==
    worker' = [worker EXCEPT !.job.pc = pc, !.job.voice = voice,
                             !.job.key = IF pc = "stream" THEN Nothing ELSE @]

-----------------------------------------------------------------------------
(* load() of each driver: XTTS and native Higgs have their model afterwards,
   the proxy has asked its backend whether it is well, and OmniVoice has noted
   that it may be asked to speak. *)
Healthy(model) == worker' = [worker EXCEPT !.ready = TRUE, !.awake = model]

XttsLoads == worker.kind = "xtts" /\ Healthy(TRUE)
HiggsLoads == worker.kind = "higgs" /\ Healthy(TRUE)
ProxyLoads == worker.kind = "proxy" /\ Healthy(FALSE)
OmniVoiceActivates == worker.kind = "omnivoice" /\ Healthy(FALSE)

(* load() of the host, asked for by the supervisor or for a driver that is not
   healthy.  When it raises there is still no driver. *)
Loads ==
    /\ ~Busy /\ ~worker.ready
    /\ XttsLoads \/ HiggsLoads \/ ProxyLoads \/ OmniVoiceActivates
    /\ UNCHANGED dir

(* OmniVoice loads its model for the first utterance. *)
Wakes ==
    /\ At("omnivoice", "start")
    /\ ~worker.awake
    /\ worker' = [worker EXCEPT !.awake = TRUE]
    /\ UNCHANGED dir

(* unload(), asked for by the idle timer of the supervisor or by a switch to
   another model: OmniVoice and XTTS drop their prompts. *)
Unloads ==
    /\ ~Busy /\ worker.ready
    /\ worker' = Fresh(worker.kind)
    /\ UNCHANGED dir

(* The host takes up an utterance. *)
Begins(c, d, wav) ==
    /\ ~Busy /\ worker.ready
    /\ worker' = [worker EXCEPT
                    !.job = [NoJob EXCEPT !.of = c, !.at = d, !.wav = wav, !.pc = "start"]]
    /\ UNCHANGED dir

(* The driver raises: the recording is gone, or the model or backend fails.
   The proxy is unhealthy after a request that its backend refused.  OmniVoice
   has all its audio before it yields any.  Higgs has made its directory. *)
Raises ==
    /\ Busy
    /\ ~At("omnivoice", "stream")
    /\ worker' = [worker EXCEPT !.job = NoJob, !.ready = ~At("proxy", "post")]
    /\ dir' = IF At("higgs", "clip") THEN [dir EXCEPT ![Job.at].made = TRUE] ELSE dir

-----------------------------------------------------------------------------
(* OmniVoice and XTTS: prompts in memory                                     *)

\* Mutant: XTTS, too, knows a recording by its path.
ConditioningKey_Mutant(u) == Nothing

(* The key of recording u, besides its path.  OmniVoice: the transcript, and a
   speaker may say the same in every recording.  XTTS: size and time of the
   file. *)
ConditioningKey(u) == IF worker.kind = "omnivoice" THEN Nothing ELSE u

IsKept(p) == p.at = Job.at /\ p.key = ConditioningKey(Ref)

\* Where the prompt of the recording is kept, if it is.
Kept == {i \in DOMAIN worker.prompts : IsKept(worker.prompts[i])}

(* It is: the job speaks with it. *)
Uses(i, prompts) ==
    worker' = [worker EXCEPT !.prompts = prompts,
                             !.job.pc = "stream",
                             !.job.voice = worker.prompts[i].voice]

(* It is not: the job goes on to read the recording. *)
Reads(prompts) ==
    worker' = [worker EXCEPT !.prompts = prompts,
                             !.job.pc = "read", !.job.key = ConditioningKey(Ref)]

(* The recording is read, and its prompt is kept behind the others. *)
Keeps(prompts) ==
    worker' = [worker EXCEPT
                 !.prompts = Append(prompts, [at |-> Job.at, key |-> Job.key, voice |-> Ref]),
                 !.job.pc = "stream", !.job.voice = Ref, !.job.key = Nothing]

(* OmniVoice keeps one prompt and forgets it before it makes another. *)
OmniVoicePrompt ==
    /\ worker.kind = "omnivoice" /\ worker.awake /\ Busy /\ Ref # Nothing
    /\ \/ Job.pc = "start" /\ \E i \in Kept : Uses(i, worker.prompts)
       \/ Job.pc = "start" /\ Kept = {} /\ Reads(<<>>)
       \/ Job.pc = "read" /\ Keeps(<<>>)
    /\ UNCHANGED dir

(* XTTS moves the prompt it uses, at i, to the end, and drops those in front
   when there are too many. *)
Latest(i) ==
    [j \in DOMAIN worker.prompts |->
        worker.prompts[IF j < i THEN j
                       ELSE IF j < Len(worker.prompts) THEN j + 1 ELSE i]]

Newest(prompts) == SubSeq(prompts, Len(prompts) - CacheSize + 2, Len(prompts))

XttsConditioning ==
    /\ worker.kind = "xtts" /\ Busy /\ Ref # Nothing
    /\ \/ Job.pc = "start" /\ \E i \in Kept : Uses(i, Latest(i))
       \/ Job.pc = "start" /\ Kept = {} /\ Reads(worker.prompts)
       \/ /\ Job.pc = "read"
          /\ Keeps(IF Len(worker.prompts) = CacheSize THEN Newest(worker.prompts)
                   ELSE worker.prompts)
    /\ UNCHANGED dir

-----------------------------------------------------------------------------
(* Native Higgs: a directory beside the recording, keyed by its content      *)

Digests ==
    /\ At("higgs", "start")
    /\ Ref # Nothing
    /\ worker' = [worker EXCEPT !.job.pc = "clip", !.job.key = Ref]
    /\ UNCHANGED dir

(* _prepare_reference_clip after the digest.  The directory is made with its
   parents, those of a profile that was deleted meanwhile included; a long
   recording is clipped unless there is a clip for the key. *)
Clips ==
    /\ At("higgs", "clip")
    /\ Ref # Nothing
    /\ IF Ref \in Long
       THEN /\ dir' = [dir EXCEPT ![Job.at].made = TRUE,
                                  ![Job.at].speaker[Job.key] = IF @ = Nothing THEN Ref ELSE @]
            /\ Goes("clipped", Nothing)
       ELSE /\ dir' = [dir EXCEPT ![Job.at].made = TRUE]
            /\ Goes("whole", Nothing)

(* The engine takes the speaker from its cache, or from the clip, or from the
   recording itself, and then leaves it in the cache. *)
Speaker == dir[Job.at].speaker[Job.key]

Generates ==
    /\ At("higgs", "clipped") \/ At("higgs", "whole")
    /\ IF Speaker # Nothing \/ Job.pc = "clipped"
       THEN /\ Speaker # Nothing
            /\ Goes("stream", Speaker)
            /\ UNCHANGED dir
       ELSE /\ Ref # Nothing
            /\ Goes("stream", Ref)
            /\ dir' = [dir EXCEPT ![Job.at].speaker[Job.key] = Ref]

(* The callback of the engine puts a piece into the queue that synthesize_pcm
   reads, and waits while it is full. *)
EngineEmits ==
    /\ At("higgs", "stream") /\ ~Job.wav
    /\ Job.given + Job.ahead < Pieces
    /\ Job.ahead < Ahead
    /\ worker' = [worker EXCEPT !.job.ahead = @ + 1]
    /\ UNCHANGED dir

-----------------------------------------------------------------------------
(* The proxy sends the recording with the request.                           *)

Encodes ==
    /\ At("proxy", "start")
    /\ Ref # Nothing
    /\ Goes("post", Ref)
    /\ UNCHANGED dir

Posted ==
    /\ At("proxy", "post")
    /\ Goes("stream", Job.voice)
    /\ UNCHANGED dir

-----------------------------------------------------------------------------
(* synthesize_pcm yields the next piece: that of Higgs takes it from its queue,
   OmniVoice from its audio, XTTS from its model, the proxy from the answer. *)
YieldsQueued ==
    /\ worker.kind = "higgs" /\ Job.ahead > 0
    /\ worker' = [worker EXCEPT !.job.given = @ + 1, !.job.ahead = @ - 1]

YieldsNext ==
    /\ worker.kind # "higgs"
    /\ worker' = [worker EXCEPT !.job.given = @ + 1]

Yields ==
    /\ Job.pc = "stream" /\ ~Job.wav
    /\ Job.given < Pieces
    /\ YieldsQueued \/ YieldsNext
    /\ UNCHANGED dir

(* The generator is exhausted; synthesize_wav has joined what it yielded. *)
Finishes ==
    /\ Job.pc = "stream"
    /\ Job.wav \/ Job.given = Pieces
    /\ worker' = [worker EXCEPT !.job = NoJob]
    /\ UNCHANGED dir

DriverStep ==
    \/ Loads \/ Wakes \/ Unloads
    \/ OmniVoicePrompt \/ XttsConditioning
    \/ Digests \/ Clips \/ Generates \/ EngineEmits
    \/ Encodes \/ Posted
=============================================================================
