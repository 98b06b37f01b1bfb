----------------------------- MODULE VoiceProfiles -----------------------------
(***************************************************************************)
(* Voice profiles: the daemon's handlers under /api/voice and              *)
(* /api/synthesize (server/main.py), the profile a cloned utterance         *)
(* resolves (profile_reference.py), and the synthesis they wait for         *)
(* (manifest_tts_adapter.py), with its second attempt.                      *)
(*                                                                         *)
(* A profile is a directory named after the profile's name, so two          *)
(* enrolments under one name share it.  The handlers work on the files      *)
(* without an await, except while the TTS worker generates: the worker is   *)
(* given a path, and reads the recording when it comes to it.  A recording  *)
(* stands for everything uploaded with it and for the audio cloned from it. *)
(* profile.json is left out; the registry's active TTS model is given.      *)
(***************************************************************************)
EXTENDS TtsDrivers

CONSTANTS
    Name,        \* names of profiles
    Req,         \* requests that can wait for the worker together
    None         \* no name

(* _safe_profile_id leaves letters, digits, _ and - in a name, and .staging is
   not listed among the profiles. *)
ASSUME VoiceAssumption ==
    /\ Name \cap {None, "staging"} = {}
    /\ Place = Name \cup {"staging"} /\ Client = Req

Staging == "staging"

VARIABLES
    active,   \* active_selection.json
    req,      \* requests waiting for the worker, and what they hold
    uploads,  \* recordings uploaded so far
    reused,   \* history: a directory got a new recording beside an older sample
    overlap   \* history: a directory got a new recording while a request worked on it

vars == <<dir, worker, active, req, uploads, reused, overlap>>

\* ref: reference.wav; sample: translated_sample.wav, or preview_sample.wav of
\* .staging; cache: .preview_cache, keyed by the reference; caches: it exists;
\* speaker: .higgs_native_cache.
Absent == [made |-> FALSE, ref |-> Nothing, sample |-> Nothing, caches |-> FALSE,
           cache |-> [u \in Upload |-> Nothing], speaker |-> [u \in Upload |-> Nothing]]

Idle == [pc |-> "idle", kind |-> "none", at |-> None, key |-> Nothing,
         read |-> Nothing, attempt |-> 1, out |-> <<>>]

Init ==
    /\ dir = [d \in Place |-> Absent]
    /\ \E k \in Driver : worker = Fresh(k)
    /\ active = None
    /\ req = [r \in Req |-> Idle]
    /\ uploads = 0
    /\ reused = FALSE /\ overlap = FALSE

-----------------------------------------------------------------------------
(* Handlers that do not wait                                                *)

Waits(d) ==
    \/ \E r \in Req : req[r].pc # "idle" /\ req[r].at = d
    \/ Busy /\ Job.at = d

\* The explicit profile, or the active one.
Chosen(n) == IF n = None THEN active ELSE n
HasReference(n) == n # None /\ dir[n].ref # Nothing

\* A new recording is written to d, which then holds f.
Written(d, f) ==
    /\ dir' = [dir EXCEPT ![d] = f]
    /\ reused' = (reused \/ f.sample \notin {Nothing, f.ref})
    /\ overlap' = (overlap \/ Waits(d))

Removed(d) == dir' = [dir EXCEPT ![d] = Absent]

NewUpload == uploads < MaxUploads /\ uploads' = uploads + 1

(* api_voice_enroll; a conversion that fails leaves the old recording or a
   broken new one, and does not select the profile. *)
Enroll(n) ==
    /\ NewUpload
    /\ Written(n, [dir[n] EXCEPT !.made = TRUE, !.ref = uploads'])
    /\ active' = n
    /\ UNCHANGED <<worker, req>>

EnrollFails(n) ==
    /\ NewUpload
    /\ \E u \in {dir[n].ref, uploads'} : Written(n, [dir[n] EXCEPT !.made = TRUE, !.ref = u])
    /\ UNCHANGED <<worker, active, req>>

(* api_voice_commit_stage: the preview, if there is one, becomes the sample. *)
Commit(n) ==
    /\ dir[Staging].ref # Nothing
    /\ LET s == dir[Staging]
           f == [dir[n] EXCEPT !.made = TRUE, !.ref = s.ref,
                               !.sample = IF s.sample # Nothing THEN s.sample ELSE @]
       IN /\ dir' = [dir EXCEPT ![n] = f, ![Staging] = Absent]
          /\ reused' = (reused \/ f.sample \notin {Nothing, f.ref})
          /\ overlap' = (overlap \/ Waits(n) \/ Waits(Staging))
    /\ active' = n
    /\ UNCHANGED <<worker, req, uploads>>

ClearStage ==
    /\ Removed(Staging)
    /\ UNCHANGED <<worker, active, req, uploads, reused, overlap>>

(* api_voice_delete *)
Delete(n) ==
    /\ Removed(n)
    /\ active' = IF active = n THEN None ELSE active
    /\ UNCHANGED <<worker, req, uploads, reused, overlap>>

(* api_voice_activate; without an id it clears the selection. *)
Activate(n) ==
    /\ n # None => HasReference(n)
    /\ active' = n
    /\ UNCHANGED <<worker, dir, req, uploads, reused, overlap>>

-----------------------------------------------------------------------------
(* Requests that wait                                                       *)

Begin(r, kind, d, key) ==
    req' = [req EXCEPT ![r] = [Idle EXCEPT !.pc = "asked", !.kind = kind, !.at = d, !.key = key]]

(* api_voice_stage; a recording without the transcript that the model
   requires is refused after it was converted, before the old preview is
   removed. *)
Stage(r) ==
    /\ req[r].pc = "idle" /\ NewUpload
    /\ Written(Staging, [dir[Staging] EXCEPT !.made = TRUE, !.ref = uploads', !.sample = Nothing])
    /\ Begin(r, "stage", Staging, Nothing)
    /\ UNCHANGED <<worker, active>>

StageRefused ==
    /\ NewUpload
    /\ \E u \in {dir[Staging].ref, uploads'} :
          Written(Staging, [dir[Staging] EXCEPT !.made = TRUE, !.ref = u])
    /\ UNCHANGED <<worker, active, req>>

\* Mutant: the key says nothing of the reference.
CacheKey_Mutant(d) == 1

\* The cache key holds size and mtime of the reference.
CacheKey(d) == dir[d].ref
Hit(d) == dir[d].cache[CacheKey(d)]

(* api_synthesize of a preview: served from the cache, or generated. *)
SampleCached(n) ==
    /\ HasReference(Chosen(n))
    /\ LET d == Chosen(n)
       IN /\ Hit(d) # Nothing
          /\ dir' = [dir EXCEPT ![d].sample = Hit(d)]
    /\ UNCHANGED <<worker, active, req, uploads, reused, overlap>>

Sample(r, n) ==
    /\ req[r].pc = "idle"
    /\ HasReference(Chosen(n))
    /\ LET d == Chosen(n)
       IN /\ Hit(d) = Nothing
          /\ dir' = [dir EXCEPT ![d].caches = TRUE]
          /\ Begin(r, "sample", d, CacheKey(d))
    /\ UNCHANGED <<worker, active, uploads, reused, overlap>>

(* A cloned utterance of a conversation: resolve_profile_reference, then
   synthesize_stream. *)
Speak(r, n) ==
    /\ req[r].pc = "idle"
    /\ HasReference(Chosen(n))
    /\ Begin(r, "speak", Chosen(n), Nothing)
    /\ UNCHANGED <<worker, dir, active, uploads, reused, overlap>>

Settled == UNCHANGED <<active, uploads, reused, overlap>>
Files == UNCHANGED dir /\ Settled
Goto(r, pc) == req' = [req EXCEPT ![r].pc = pc]
End(r) == req' = [req EXCEPT ![r] = Idle]

(* The worker takes up the request, and works on it. *)
Works(r) ==
    /\ req[r].pc = "asked"
    /\ Begins(r, req[r].at, req[r].kind # "speak")
    /\ Goto(r, "working")
    /\ Settled

Drives == DriverStep /\ UNCHANGED req /\ Settled

(* A piece is yielded to the client, if it is still there. *)
Piece ==
    /\ Yields
    /\ req' = IF Job.of = Nobody THEN req
              ELSE [req EXCEPT ![Job.of].out = Append(@, <<req[Job.of].attempt, Job.given + 1>>)]
    /\ Settled

(* The utterance is over: a stream ends the request, a WAV is its answer. *)
Answers ==
    /\ Finishes
    /\ CASE Job.of = Nobody -> UNCHANGED req
         [] Job.of # Nobody /\ Job.wav ->
              req' = [req EXCEPT ![Job.of].pc = "answered", ![Job.of].read = Job.voice]
         [] OTHER -> End(Job.of)
    /\ Settled

(* The driver raises: HTTP 500 for a WAV, a stream that breaks off. *)
DriverFails ==
    /\ Raises
    /\ CASE Job.of = Nobody -> UNCHANGED req
         [] Job.of # Nobody /\ Job.wav -> End(Job.of)
         [] OTHER -> Goto(Job.of, "broken")
    /\ Settled

(* Any other failure, or 240 s pass: the request is given up.  A job goes on
   without its client; one that has not begun is taken as forgotten. *)
Fails(r) ==
    /\ req[r].pc # "idle"
    /\ End(r)
    /\ worker' = IF Busy /\ Job.of = r THEN [worker EXCEPT !.job.of = Nobody] ELSE worker
    /\ Files

(* The worker process ends, and the answer it was working on breaks off. *)
Cut == IF Busy /\ Job.of # Nobody THEN [req EXCEPT ![Job.of].pc = "broken"] ELSE req

WorkerDies ==
    /\ worker' = Fresh(worker.kind)
    /\ req' = Cut
    /\ Files

(* Nor is a request answered that waits for the worker, or for engine.load and
   _ensure_runtime. *)
Breaks(r) ==
    /\ req[r].pc = "asked"
    /\ Goto(r, "broken")
    /\ Files /\ UNCHANGED worker

\* Mutant: the second attempt does not look at what was emitted.
MayRetry_Mutant(r) == req[r].attempt = 1

(* A second attempt after recover(), which restarts the worker; an utterance
   that already gave audio is not tried again. *)
MayRetry(r) == req[r].attempt = 1 /\ req[r].out = <<>>

Retries(r) ==
    /\ req[r].pc = "broken"
    /\ IF MayRetry(r)
       THEN /\ req' = [Cut EXCEPT ![r].pc = "asked", ![r].attempt = 2]
            /\ worker' = Fresh(worker.kind)
       ELSE End(r) /\ UNCHANGED worker
    /\ Files

(* The end of api_voice_stage: writing into a directory that is gone raises. *)
Previewed(r) ==
    /\ req[r].pc = "answered" /\ req[r].kind = "stage"
    /\ dir' = IF dir[Staging].made THEN [dir EXCEPT ![Staging].sample = req[r].read] ELSE dir
    /\ End(r)
    /\ UNCHANGED <<worker, active, uploads, reused, overlap>>

(* The cached file is written first, and needs the directory that this or an
   earlier request has made. *)
Saved(r) ==
    LET d == req[r].at
    IN IF dir[d].caches
       THEN [dir EXCEPT ![d].cache[req[r].key] = req[r].read, ![d].sample = req[r].read]
       ELSE dir

Sampled(r) ==
    /\ req[r].pc = "answered" /\ req[r].kind = "sample"
    /\ dir' = Saved(r)
    /\ End(r)
    /\ UNCHANGED <<worker, active, uploads, reused, overlap>>

(* The daemon is restarted, and its workers with it: the files are what is
   left. *)
Crash ==
    /\ \E r \in Req : req[r].pc # "idle"
    /\ req' = [r \in Req |-> Idle]
    /\ worker' = Fresh(worker.kind)
    /\ Files

Next ==
    \/ \E n \in Name : Enroll(n) \/ EnrollFails(n) \/ Commit(n) \/ Delete(n)
    \/ ClearStage \/ StageRefused \/ Crash
    \/ \E n \in Name \cup {None} :
          Activate(n) \/ SampleCached(n) \/ \E r \in Req : Sample(r, n) \/ Speak(r, n)
    \/ \E r \in Req :
          \/ Stage(r) \/ Works(r) \/ Breaks(r) \/ Retries(r) \/ Fails(r)
          \/ Previewed(r) \/ Sampled(r)
    \/ Drives \/ Piece \/ Answers \/ DriverFails \/ WorkerDies

Spec == Init /\ [][Next]_vars

-----------------------------------------------------------------------------
(* Properties *)

(* A cloned utterance speaks with the recording its profile has, unless the
   profile gets another while the request works on it: no driver goes on
   speaking with what it learned from a recording that was replaced.  OmniVoice
   does, as its key does not tell recordings apart. *)
VoiceIsOfProfile ==
    worker.kind # "omnivoice" /\ ~overlap /\ Busy =>
        Job.voice \in {Nothing, Ref} \/ Ref = Nothing

(* A preview that the cache of a profile serves was cloned from its present
   recording, whatever was enrolled, deleted or generated meanwhile; and so was
   the sample that is shown for it, unless the name was enrolled again over an
   older sample or while a request was working on it.  OmniVoice again breaks
   this. *)
PreviewIsOfReference ==
    worker.kind # "omnivoice" =>
        \A d \in DOMAIN dir :
            /\ dir[d].ref # Nothing => Hit(d) \in {Nothing, dir[d].ref}
            /\ ~reused /\ ~overlap => dir[d].sample \in {Nothing, dir[d].ref}

(* A cloned utterance is heard once: its pieces are of one attempt, in order
   and without a gap, although the worker may be restarted under it. *)
SpokenOnce ==
    \A r \in Req : \A i \in 1..Len(req[r].out) :
        req[r].out[i] = <<req[r].out[1][1], i>>
=============================================================================
