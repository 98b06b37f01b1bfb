-------------------------- MODULE VoiceProfilesProofs --------------------------
(***************************************************************************)
(* Proofs of the safety of voice profiles, for any number of profiles,     *)
(* requests, recordings and pieces: a preview and a cloned utterance are   *)
(* of the recording the profile has, and an utterance is heard once.       *)
(*                                                                         *)
(* The argument is about keys.  A recording is uploaded to one directory   *)
(* and moves at most once, from .staging to a profile, so one that a       *)
(* directory has lost does not come back to it.  A key that was read from  *)
(* a directory is therefore either that of its present recording, and what *)
(* was made meanwhile is of that recording, too, or one that no lookup     *)
(* will use again.                                                         *)
(***************************************************************************)
EXTENDS VoiceProfiles, TLAPS, SequenceTheorems

-----------------------------------------------------------------------------
(* The inductive invariant.                                                 *)

Recordings == 0 .. MaxUploads

Directories ==
    [made : BOOLEAN, ref : Recordings, sample : Recordings, caches : BOOLEAN,
     cache : [Upload -> Recordings], speaker : [Upload -> Recordings]]

Prompts == [at : Place, key : Recordings, voice : Recordings]

Jobs ==
    [of : Req \cup {Nobody}, at : Place \cup {Nobody}, wav : BOOLEAN,
     pc : {"none", "start", "read", "clip", "clipped", "whole", "post", "stream"},
     key : Recordings, voice : Recordings, given : Nat, ahead : Nat]

Workers ==
    [kind : Driver, ready : BOOLEAN, awake : BOOLEAN, prompts : Seq(Prompts), job : Jobs]

Requests ==
    [pc : {"idle", "asked", "working", "answered", "broken"},
     kind : {"none", "stage", "sample", "speak"}, at : Place \cup {None},
     key : Recordings, read : Recordings, attempt : {1, 2}, out : Seq({1, 2} \X Nat)]

Types ==
    /\ dir \in [Place -> Directories]
    /\ worker \in Workers
    /\ active \in Name \cup {None}
    /\ req \in [Req -> Requests]
    /\ uploads \in Recordings
    /\ reused \in BOOLEAN /\ overlap \in BOOLEAN

(* In directories f, with n recordings uploaded: recording u was uploaded,  *)
(* and if d is a profile, it is not in .staging, so that it has come to d   *)
(* by now if it ever does.                                                  *)
Seen(f, n, d, u) ==
    /\ u \in 1 .. n
    /\ d # Staging => f[Staging].ref # u

(* Recording u is not that of directory d, and never will be.               *)
Past(f, n, d, u) == Seen(f, n, d, u) /\ f[d].ref # u

(* What was made of the recording with key u is of that recording, or no    *)
(* one will look it up.                                                     *)
IsOf(f, n, v, d, u) == v \in {Nothing, u} \/ Past(f, n, d, u)

(* A directory without a recording has nothing that was made of one.        *)
Stored(f, n, d) ==
    /\ f[d].ref # Nothing => Seen(f, n, d, f[d].ref)
    /\ f[d].ref = Nothing => f[d].caches = FALSE /\ \A u \in Upload : f[d].speaker[u] = Nothing
    /\ \A u \in Upload : IsOf(f, n, f[d].speaker[u], d, u)

DirInv == \A d \in Place : Stored(dir, uploads, d)

(* A request has a directory, and the pieces it has given are in order.     *)
RequestOk(f, n, q) ==
    /\ q.pc = "idle" => q = Idle
    /\ q.pc # "idle" => q.kind # "none"
    /\ q.kind = "stage" => q.at = Staging
    /\ q.kind \in {"sample", "speak"} => q.at \in Name
    /\ q.kind = "sample" => Seen(f, n, q.at, q.key)
    /\ \A i \in 1 .. Len(q.out) : q.out[i] = <<q.attempt, i>>
    /\ q.pc = "asked" => q.out = <<>>

RequestInv == \A r \in Req : RequestOk(dir, uploads, req[r])

(* The job j of request q works where q is, and has given what q has out.   *)
Serves(j, q) ==
    /\ q.pc = "working" /\ q.at = j.at
    /\ j.wav = (q.kind # "speak")
    /\ j.given = Len(q.out)

JobInv ==
    /\ worker.job.pc = "none" => worker.job = NoJob
    /\ worker.job.pc # "none" => worker.job.at \in Place
    /\ worker.job.of # Nobody => Serves(worker.job, req[worker.job.of])

Keyed(j) == j.pc \in {"read", "clip", "clipped", "whole"}

PromptOk(f, n, p) == p.voice = p.key \/ Past(f, n, p.at, p.key)

(* The voice that a sample is answered with, and the one its job has.       *)
AnswerOk(f, n, q) ==
    q.kind = "sample" /\ q.pc = "answered" => IsOf(f, n, q.read, q.at, q.key)

VoiceOk(f, n, j, q) ==
    q.kind = "sample" =>
        /\ IsOf(f, n, j.voice, q.at, q.key)
        /\ Keyed(j) => j.key = q.key \/ Past(f, n, q.at, q.key)

(* What is kept under a key is of the recording with that key.              *)
KeyInv ==
    worker.kind # "omnivoice" =>
        /\ \A i \in 1 .. Len(worker.prompts) : PromptOk(dir, uploads, worker.prompts[i])
        /\ Keyed(worker.job) => Seen(dir, uploads, worker.job.at, worker.job.key)
        /\ \A d \in Place : \A u \in Upload : IsOf(dir, uploads, dir[d].cache[u], d, u)
        /\ \A r \in Req : AnswerOk(dir, uploads, req[r])
        /\ worker.job.of # Nobody => VoiceOk(dir, uploads, worker.job, req[worker.job.of])

(* A voice v for directory d is that of its recording, unless this is gone  *)
(* and no sample will be written.                                           *)
Speaks(f, v, d) ==
    \/ v \in {Nothing, f[d].ref}
    \/ f[d].ref = Nothing /\ (d = Staging => f[d].made = FALSE)

(* The same of a job, with the key it has from the recording.               *)
SpeaksOk(f, j) ==
    /\ Speaks(f, j.voice, j.at)
    /\ Keyed(j) => j.key = f[j.at].ref \/ f[j.at].ref = Nothing

(* Only one staged recording is worked on at a time.                        *)
StageAlone(j, q) ==
    \A r \in Req : q[r].kind = "stage" =>
        /\ \A s \in Req : q[s].kind = "stage" => s = r
        /\ j.pc # "none" /\ j.at = Staging => j.of = r

SampleOk(f, d) == f[d].sample \in {Nothing, f[d].ref}

(* As long as no recording came to a directory that was being worked on.    *)
VoiceInv ==
    ~overlap =>
        /\ StageAlone(worker.job, req)
        /\ worker.kind # "omnivoice" =>
              /\ worker.job.pc # "none" => SpeaksOk(dir, worker.job)
              /\ \A r \in Req : req[r].pc = "answered" => Speaks(dir, req[r].read, req[r].at)
              /\ ~reused => \A d \in Place : SampleOk(dir, d)

IInv == Types /\ DirInv /\ RequestInv /\ JobInv /\ KeyInv /\ VoiceInv

-----------------------------------------------------------------------------
(* Recordings and directories.                                              *)

LEMMA Constants ==
    /\ Name \subseteq Place /\ Staging \in Place /\ Staging \notin Name
    /\ Place \ {Staging} \subseteq Name /\ None \notin Name
    /\ Nobody \notin Req /\ Client = Req
    /\ MaxUploads \in Nat /\ Pieces \in Nat /\ CacheSize \in Nat \ {0}
    /\ Driver \subseteq {"omnivoice", "xtts", "higgs", "proxy"}
  BY VoiceAssumption, DriverAssumption DEF Staging

LEMMA Records ==
    /\ Absent \in Directories /\ Idle \in Requests /\ NoJob \in Jobs
    /\ \A k \in Driver : Fresh(k) \in Workers /\ Fresh(k).kind = k
                         /\ Fresh(k).job = NoJob /\ Fresh(k).prompts = <<>>
<1>1. Nothing \in Recordings
  BY Constants DEF Nothing, Recordings
<1>2. Absent \in Directories
  BY <1>1 DEF Absent, Directories
<1>3. Idle \in Requests
  BY <1>1 DEF Idle, Requests
<1>4. NoJob \in Jobs
  BY <1>1 DEF NoJob, Jobs
<1>5. ASSUME NEW k \in Driver
      PROVE  Fresh(k) \in Workers /\ Fresh(k).kind = k
             /\ Fresh(k).job = NoJob /\ Fresh(k).prompts = <<>>
  <2>1. <<>> \in Seq(Prompts)
    OBVIOUS
  <2>2. QED
    BY <1>4, <2>1 DEF Fresh, Workers
<1>6. QED
  BY <1>2, <1>3, <1>4, <1>5

(* From directories f to g, and from n recordings to m: a directory keeps   *)
(* its recording, loses it, or gets a new one or that of .staging.          *)
Moves(f, n, g, m) ==
    /\ n \in Nat /\ m \in Nat /\ n <= m
    /\ \A d \in Place : f[d].ref \in Nat /\ g[d].ref \in Nat
    /\ \A d \in Place :
          \/ g[d].ref \in {f[d].ref, Nothing}
          \/ g[d].ref > n
          \/ d # Staging /\ g[d].ref = f[Staging].ref

LEMMA SeenKept ==
    ASSUME NEW f, NEW g, NEW n, NEW m, Moves(f, n, g, m),
           NEW d, NEW u, Seen(f, n, d, u)
    PROVE  Seen(g, m, d, u)
<1>1. u \in 1 .. m /\ u # Nothing /\ u <= n
  BY DEF Seen, Moves, Nothing
<1>2. g[Staging].ref \in {f[Staging].ref, Nothing} \/ g[Staging].ref > n
  BY Constants DEF Moves
<1>3. ~(g[Staging].ref > n) \/ g[Staging].ref # u
  BY <1>1, Constants DEF Moves, Seen
<1>4. QED
  BY <1>1, <1>2, <1>3 DEF Seen

LEMMA PastKept ==
    ASSUME NEW f, NEW g, NEW n, NEW m, Moves(f, n, g, m),
           NEW d \in Place, NEW u, Past(f, n, d, u)
    PROVE  Past(g, m, d, u)
<1>1. Seen(g, m, d, u)
  BY SeenKept DEF Past
<1>2. u \in 1 .. n /\ u # Nothing /\ f[d].ref # u
      /\ (d # Staging => f[Staging].ref # u)
  BY DEF Past, Seen, Moves, Nothing
<1>3. ~(g[d].ref > n) \/ g[d].ref # u
  BY <1>2 DEF Moves
<1>4. g[d].ref # u
  BY <1>2, <1>3 DEF Moves
<1>5. QED
  BY <1>1, <1>4 DEF Past

LEMMA IsOfKept ==
    ASSUME NEW f, NEW g, NEW n, NEW m, Moves(f, n, g, m),
           NEW v, NEW d \in Place, NEW u, IsOf(f, n, v, d, u)
    PROVE  IsOf(g, m, v, d, u)
  BY PastKept DEF IsOf

LEMMA NoMove ==
    ASSUME Types, dir' \in [Place -> Directories],
           \A d \in Place : dir'[d].ref = dir[d].ref
    PROVE  Moves(dir, uploads, dir', uploads)
<1>1. uploads \in Nat /\ \A d \in Place : dir[d].ref \in Nat
  BY Constants DEF Types, Directories, Recordings
<1>2. QED
  BY <1>1 DEF Moves

(* What a step does to the recordings, the requests keep.                   *)
LEMMA RequestKept ==
    ASSUME NEW f, NEW g, NEW n, NEW m, Moves(f, n, g, m),
           NEW q, RequestOk(f, n, q)
    PROVE  RequestOk(g, m, q)
  BY SeenKept DEF RequestOk

LEMMA AnswerKept ==
    ASSUME NEW f, NEW g, NEW n, NEW m, Moves(f, n, g, m),
           NEW q, RequestOk(f, n, q), AnswerOk(f, n, q)
    PROVE  AnswerOk(g, m, q)
  BY IsOfKept, Constants DEF AnswerOk, RequestOk

LEMMA VoiceKept ==
    ASSUME NEW f, NEW g, NEW n, NEW m, Moves(f, n, g, m),
           NEW j, NEW q, RequestOk(f, n, q), VoiceOk(f, n, j, q)
    PROVE  VoiceOk(g, m, j, q)
<1>1. q.kind = "sample" => q.at \in Place
  BY Constants DEF RequestOk
<1>2. QED
  BY <1>1, IsOfKept, PastKept DEF VoiceOk

LEMMA PromptKept ==
    ASSUME NEW f, NEW g, NEW n, NEW m, Moves(f, n, g, m),
           NEW p \in Prompts, PromptOk(f, n, p)
    PROVE  PromptOk(g, m, p)
<1>1. p.at \in Place
  BY DEF Prompts
<1>2. QED
  BY <1>1, PastKept DEF PromptOk

(* A key that was seen is that of the present recording, or past.           *)
LEMMA SeenIsPresentOrPast ==
    ASSUME NEW f, NEW n, NEW d, NEW u, Seen(f, n, d, u)
    PROVE  f[d].ref = u \/ Past(f, n, d, u)
  BY DEF Past

(* From f to g directory d keeps its recording, or is removed.              *)
Calm(f, g, d) ==
    /\ g[d].ref \in {f[d].ref, Nothing}
    /\ d = Staging /\ g[d].ref = Nothing =>
          g[d].made = FALSE \/ (f[d].ref = Nothing /\ f[d].made = TRUE)

LEMMA SpeaksKept ==
    ASSUME NEW f, NEW g, NEW d, Calm(f, g, d), NEW v, Speaks(f, v, d)
    PROVE  Speaks(g, v, d)
  BY DEF Calm, Speaks

LEMMA SpeaksOkKept ==
    ASSUME NEW f, NEW g, NEW j, Calm(f, g, j.at), SpeaksOk(f, j)
    PROVE  SpeaksOk(g, j)
<1>1. Speaks(g, j.voice, j.at)
  BY SpeaksKept DEF SpeaksOk
<1>2. Keyed(j) => j.key = g[j.at].ref \/ g[j.at].ref = Nothing
  BY DEF SpeaksOk, Calm
<1>3. QED
  BY <1>1, <1>2 DEF SpeaksOk

-----------------------------------------------------------------------------
(* What the kinds of steps have in common.                                  *)

LEMMA Facts ==
    ASSUME IInv
    PROVE  /\ dir \in [Place -> Directories] /\ worker \in Workers
           /\ req \in [Req -> Requests] /\ uploads \in Recordings /\ uploads \in Nat
           /\ worker.job \in Jobs /\ worker.prompts \in Seq(Prompts)
           /\ \A i \in 1 .. Len(worker.prompts) : worker.prompts[i] \in Prompts
           /\ worker.job.of # Nobody => worker.job.of \in Req /\ worker.job.pc # "none"
           /\ \A r \in Req : req[r] \in Requests
           /\ \A d \in Place : dir[d] \in Directories /\ dir[d].ref \in Nat
<1>1. /\ dir \in [Place -> Directories] /\ worker \in Workers
      /\ req \in [Req -> Requests] /\ uploads \in Recordings
  BY DEF IInv, Types
<1>2. uploads \in Nat /\ \A d \in Place : dir[d] \in Directories /\ dir[d].ref \in Nat
  BY <1>1, Constants DEF Recordings, Directories
<1>3. worker.job \in Jobs /\ worker.prompts \in Seq(Prompts)
  BY <1>1 DEF Workers
<1>4. worker.job.of # Nobody => worker.job.of \in Req /\ worker.job.pc # "none"
  BY <1>3 DEF IInv, JobInv, NoJob, Jobs
<1>5. QED
  BY <1>1, <1>2, <1>3, <1>4

(* A handler changes directories, and perhaps begins a request.             *)
LEMMA FilesChange ==
    ASSUME IInv, UNCHANGED worker, Types', DirInv', Moves(dir, uploads, dir', uploads'),
           \A d \in Place : \A u \in Upload :
               dir'[d].cache[u] \in {dir[d].cache[u], Nothing},
           \A s \in Req : \/ req'[s] = req[s]
                          \/ /\ req[s].pc = "idle" /\ req'[s].pc = "asked"
                             /\ RequestOk(dir', uploads', req'[s]),
           overlap => overlap', reused => reused',
           ~overlap' => StageAlone(worker.job, req'),
           \A d \in Place : ~overlap' /\ Waits(d) => Calm(dir, dir', d),
           worker.kind # "omnivoice" /\ ~overlap' /\ ~reused' =>
               \A d \in Place : SampleOk(dir', d)
    PROVE  IInv'
<1>1. RequestInv'
  BY RequestKept DEF IInv, RequestInv
<1>2. worker.job.of # Nobody => req'[worker.job.of] = req[worker.job.of]
  BY Facts DEF IInv, JobInv, Serves
<1>3. JobInv'
  BY <1>2 DEF IInv, JobInv
<1>4. KeyInv'
  <2> SUFFICES ASSUME worker.kind # "omnivoice"
               PROVE  KeyInv'
    BY DEF KeyInv
  <2>1. \A i \in 1 .. Len(worker.prompts) : PromptOk(dir', uploads', worker.prompts[i])
    BY Facts, PromptKept DEF IInv, KeyInv
  <2>2. Keyed(worker.job) => Seen(dir', uploads', worker.job.at, worker.job.key)
    BY SeenKept DEF IInv, KeyInv
  <2>3. ASSUME NEW d \in Place, NEW u \in Upload
        PROVE  IsOf(dir', uploads', dir'[d].cache[u], d, u)
    <3>1. IsOf(dir', uploads', dir[d].cache[u], d, u)
      BY IsOfKept DEF IInv, KeyInv
    <3>2. QED
      BY <3>1 DEF IsOf
  <2>4. ASSUME NEW r \in Req
        PROVE  AnswerOk(dir', uploads', req'[r])
    <3>1. AnswerOk(dir', uploads', req[r])
      BY AnswerKept DEF IInv, KeyInv, RequestInv
    <3>2. CASE req'[r] = req[r]
      BY <3>1, <3>2
    <3>3. CASE req'[r].pc = "asked"
      BY <3>3 DEF AnswerOk
    <3>4. QED
      BY <3>2, <3>3
  <2>5. worker.job.of # Nobody => VoiceOk(dir', uploads', worker.job, req'[worker.job.of])
    BY <1>2, Facts, VoiceKept DEF IInv, KeyInv, RequestInv
  <2>6. QED
    BY <2>1, <2>2, <2>3, <2>4, <2>5 DEF KeyInv
<1>5. VoiceInv'
  <2> SUFFICES ASSUME ~overlap'
               PROVE  VoiceInv'
    BY DEF VoiceInv
  <2>1. worker.kind # "omnivoice" /\ worker.job.pc # "none" => SpeaksOk(dir', worker.job)
    <3>1. worker.job.pc # "none" => worker.job.at \in Place /\ Waits(worker.job.at)
      BY DEF IInv, JobInv, Waits, Busy, Job
    <3>2. QED
      BY <3>1, SpeaksOkKept DEF IInv, VoiceInv
  <2>2. ASSUME worker.kind # "omnivoice", NEW r \in Req, req'[r].pc = "answered"
        PROVE  Speaks(dir', req'[r].read, req'[r].at)
    <3>1. req'[r] = req[r] /\ Speaks(dir, req[r].read, req[r].at)
      BY <2>2 DEF IInv, VoiceInv
    <3>2. req[r].at \in Place /\ Waits(req[r].at)
      <4>1. req[r].kind \in {"stage", "sample", "speak"}
        BY <2>2, <3>1, Facts DEF IInv, RequestInv, RequestOk, Requests
      <4>2. QED
        BY <2>2, <3>1, <4>1, Constants DEF IInv, RequestInv, RequestOk, Waits
    <3>3. QED
      BY <3>1, <3>2, SpeaksKept
  <2>3. QED
    BY <2>1, <2>2 DEF VoiceInv
<1>6. QED
  BY <1>1, <1>3, <1>4, <1>5 DEF IInv

(* A driver goes on with its job, and leaves the recordings alone.          *)
LEMMA DriverMoves ==
    ASSUME IInv, UNCHANGED <<req, active, uploads, reused, overlap>>,
           worker' \in Workers, worker'.kind = worker.kind,
           dir' \in [Place -> Directories], DirInv',
           \A d \in Place : /\ dir'[d].ref = dir[d].ref /\ dir'[d].sample = dir[d].sample
                            /\ dir'[d].cache = dir[d].cache /\ Calm(dir, dir', d),
           worker'.job.pc = "none" => worker.job.pc = "none",
           worker'.job.pc = "none" => worker'.job = NoJob,
           worker'.job.pc # "none" => worker.job.pc # "none",
           worker'.job.of = worker.job.of, worker'.job.at = worker.job.at,
           worker'.job.wav = worker.job.wav, worker'.job.given = worker.job.given,
           worker.kind # "omnivoice" =>
               /\ \A i \in 1 .. Len(worker'.prompts) :
                     PromptOk(dir, uploads, worker'.prompts[i])
               /\ Keyed(worker'.job) => Seen(dir, uploads, worker.job.at, worker'.job.key)
               /\ worker.job.of # Nobody =>
                     VoiceOk(dir, uploads, worker'.job, req[worker.job.of])
               /\ ~overlap /\ worker.job.pc # "none" => SpeaksOk(dir, worker'.job)
    PROVE  IInv'
<1>0. Moves(dir, uploads, dir', uploads)
  BY NoMove DEF IInv
<1>1. RequestInv'
  BY <1>0, RequestKept DEF IInv, RequestInv
<1>2. Types'
  BY DEF IInv, Types
<1>3. JobInv'
  BY DEF IInv, JobInv, Serves
<1>4. KeyInv'
  <2> SUFFICES ASSUME worker.kind # "omnivoice"
               PROVE  KeyInv'
    BY DEF KeyInv
  <2>0. \A i \in 1 .. Len(worker'.prompts) : worker'.prompts[i] \in Prompts
    BY DEF Workers
  <2>1. \A i \in 1 .. Len(worker'.prompts) : PromptOk(dir', uploads', worker'.prompts[i])
    BY <1>0, <2>0, PromptKept
  <2>2. Keyed(worker'.job) => Seen(dir', uploads', worker'.job.at, worker'.job.key)
    BY <1>0, SeenKept
  <2>3. \A d \in Place : \A u \in Upload : IsOf(dir', uploads', dir'[d].cache[u], d, u)
    BY <1>0, IsOfKept DEF IInv, KeyInv
  <2>4. \A r \in Req : AnswerOk(dir', uploads', req'[r])
    BY <1>0, AnswerKept DEF IInv, KeyInv, RequestInv
  <2>5. worker'.job.of # Nobody => VoiceOk(dir', uploads', worker'.job, req'[worker'.job.of])
    BY <1>0, Facts, VoiceKept DEF IInv, KeyInv, RequestInv
  <2>6. QED
    BY <2>1, <2>2, <2>3, <2>4, <2>5 DEF KeyInv
<1>5. VoiceInv'
  <2> SUFFICES ASSUME ~overlap
               PROVE  VoiceInv'
    BY DEF VoiceInv
  <2>1. worker.kind # "omnivoice" /\ worker'.job.pc # "none" => SpeaksOk(dir', worker'.job)
    <3>1. worker.job.pc # "none" => worker.job.at \in Place
      BY DEF IInv, JobInv
    <3>2. QED
      BY <3>1, SpeaksOkKept
  <2>2. ASSUME worker.kind # "omnivoice", NEW r \in Req, req[r].pc = "answered"
        PROVE  Speaks(dir', req[r].read, req[r].at)
    <3>1. req[r].at \in Place
      BY <2>2, Facts, Constants DEF IInv, RequestInv, RequestOk, Requests
    <3>2. QED
      BY <2>2, <3>1, SpeaksKept DEF IInv, VoiceInv
  <2>3. StageAlone(worker'.job, req')
    BY DEF IInv, VoiceInv, StageAlone
  <2>4. worker.kind # "omnivoice" /\ ~reused => \A d \in Place : SampleOk(dir', d)
    BY DEF IInv, VoiceInv, SampleOk
  <2>5. QED
    BY <2>1, <2>2, <2>3, <2>4 DEF VoiceInv
<1>6. QED
  BY <1>1, <1>2, <1>3, <1>4, <1>5 DEF IInv

(* Requests are answered, broken or given up, and the job with them.        *)
LEMMA RequestsMove ==
    ASSUME IInv, UNCHANGED <<active, uploads, reused, overlap>>,
           worker' \in Workers, worker'.kind = worker.kind,
           dir' \in [Place -> Directories], DirInv', req' \in [Req -> Requests],
           \A d \in Place : dir'[d].ref = dir[d].ref,
           worker'.prompts = worker.prompts \/ worker'.prompts = <<>>,
           \/ worker'.job = NoJob
           \/ /\ worker'.job = worker.job
              /\ worker.job.of # Nobody => req'[worker.job.of] = req[worker.job.of]
              /\ \A d \in Place : Calm(dir, dir', d)
           \/ /\ worker'.job = [worker.job EXCEPT !.of = Nobody]
              /\ worker.job.of # Nobody /\ req'[worker.job.of] = Idle
              /\ \A d \in Place : Calm(dir, dir', d),
           \A s \in Req : /\ RequestOk(dir, uploads, req'[s])
                          /\ req'[s].kind \in {req[s].kind, "none"},
           worker.kind # "omnivoice" =>
               /\ \A d \in Place : \A u \in Upload :
                     IsOf(dir, uploads, dir'[d].cache[u], d, u)
               /\ \A s \in Req : AnswerOk(dir, uploads, req'[s])
               /\ ~overlap =>
                     /\ \A s \in Req : req'[s].pc = "answered" =>
                           Speaks(dir', req'[s].read, req'[s].at)
                     /\ ~reused => \A d \in Place : SampleOk(dir', d)
    PROVE  IInv'
<1>0. Moves(dir, uploads, dir', uploads)
  BY NoMove DEF IInv
<1>1. RequestInv'
  BY <1>0, RequestKept DEF RequestInv
<1>2. Types'
  BY DEF IInv, Types
<1> DEFINE j == worker'.job
<1>3. \/ j = NoJob
      \/ /\ j = worker.job
         /\ worker.job.of # Nobody => req'[worker.job.of] = req[worker.job.of]
         /\ \A d \in Place : Calm(dir, dir', d)
      \/ /\ j \in Jobs /\ j.of = Nobody /\ j.pc = worker.job.pc /\ j.at = worker.job.at
         /\ j.key = worker.job.key /\ j.voice = worker.job.voice
         /\ j.pc # "none"
         /\ worker.job.of # Nobody /\ req'[worker.job.of] = Idle
         /\ \A d \in Place : Calm(dir, dir', d)
  <2>1. CASE /\ worker'.job = [worker.job EXCEPT !.of = Nobody]
             /\ worker.job.of # Nobody /\ req'[worker.job.of] = Idle
             /\ \A d \in Place : Calm(dir, dir', d)
    BY <2>1, Facts DEF Jobs
  <2>2. QED
    BY <2>1
<1>4. NoJob.pc = "none" /\ NoJob.of = Nobody /\ ~Keyed(NoJob)
  BY DEF NoJob, Keyed
<1>5. worker'.job = j
  OBVIOUS
<1> HIDE DEF j
<1>6. JobInv'
  BY <1>3, <1>4, <1>5 DEF IInv, JobInv, Serves
<1>7. KeyInv'
  <2> SUFFICES ASSUME worker.kind # "omnivoice"
               PROVE  KeyInv'
    BY DEF KeyInv
  <2>1. \A i \in 1 .. Len(worker'.prompts) : PromptOk(dir', uploads', worker'.prompts[i])
    <3>1. CASE worker'.prompts = worker.prompts
      BY <1>0, <3>1, Facts, PromptKept DEF IInv, KeyInv
    <3>2. CASE worker'.prompts = <<>>
      BY <3>2
    <3>3. QED
      BY <3>1, <3>2
  <2>2. Keyed(j) => Seen(dir', uploads', j.at, j.key)
    <3>1. Keyed(j) => Seen(dir, uploads, j.at, j.key)
      BY <1>3, <1>4 DEF IInv, KeyInv, Keyed
    <3>2. QED
      BY <1>0, <3>1, SeenKept
  <2>3. \A d \in Place : \A u \in Upload : IsOf(dir', uploads', dir'[d].cache[u], d, u)
    BY <1>0, IsOfKept
  <2>4. \A r \in Req : AnswerOk(dir', uploads', req'[r])
    BY <1>0, AnswerKept
  <2>5. j.of # Nobody => VoiceOk(dir', uploads', j, req'[j.of])
    <3>1. j.of # Nobody => j = worker.job /\ req'[j.of] = req[j.of]
      BY <1>3, <1>4
    <3>2. QED
      BY <1>0, <3>1, Facts, VoiceKept DEF IInv, KeyInv, RequestInv
  <2>6. QED
    BY <1>5, <2>1, <2>2, <2>3, <2>4, <2>5 DEF KeyInv
<1>8. VoiceInv'
  <2> SUFFICES ASSUME ~overlap
               PROVE  VoiceInv'
    BY DEF VoiceInv
  <2>1. worker.kind # "omnivoice" /\ j.pc # "none" => SpeaksOk(dir', j)
    <3>1. j.pc # "none" => j.at \in Place /\ Calm(dir, dir', j.at)
      BY <1>3, <1>4 DEF IInv, JobInv
    <3>2. worker.kind # "omnivoice" /\ j.pc # "none" => SpeaksOk(dir, j)
      BY <1>3, <1>4 DEF IInv, VoiceInv, SpeaksOk, Keyed
    <3>3. QED
      BY <3>1, <3>2, SpeaksOkKept
  <2>2. StageAlone(j, req')
    <3>1. Idle.kind = "none"
      BY DEF Idle
    <3>2. ASSUME NEW r \in Req, req'[r].kind = "stage"
          PROVE  /\ \A s \in Req : req'[s].kind = "stage" => s = r
                 /\ j.pc # "none" /\ j.at = Staging => j.of = r
      <4>1. \A s \in Req : req'[s].kind = "stage" => req[s].kind = "stage"
        OBVIOUS
      <4>2. /\ \A s \in Req : req[s].kind = "stage" => s = r
            /\ worker.job.pc # "none" /\ worker.job.at = Staging => worker.job.of = r
        BY <3>2, <4>1 DEF IInv, VoiceInv, StageAlone
      <4>3. j.pc # "none" /\ j.at = Staging => j.of = r
        BY <1>3, <1>4, <3>1, <3>2, <4>2, Constants
      <4>4. QED
        BY <4>1, <4>2, <4>3
    <3>3. QED
      BY <3>2 DEF StageAlone
  <2>3. QED
    BY <1>5, <2>1, <2>2 DEF VoiceInv
<1>9. QED
  BY <1>1, <1>2, <1>6, <1>7, <1>8 DEF IInv

-----------------------------------------------------------------------------
(* Handlers that do not wait.                                               *)

(* A recording is written to d, and nothing of what was made is changed.    *)
LEMMA WrittenFiles ==
    ASSUME IInv, NEW d \in Place, NEW x \in Directories, dir' = [dir EXCEPT ![d] = x],
           NewUpload, x.ref \in {dir[d].ref, uploads'},
           x.caches = dir[d].caches, x.cache = dir[d].cache, x.speaker = dir[d].speaker
    PROVE  /\ dir' \in [Place -> Directories] /\ uploads' \in Recordings
           /\ DirInv' /\ Moves(dir, uploads, dir', uploads')
           /\ \A e \in Place : \A u \in Upload :
                  dir'[e].cache[u] \in {dir[e].cache[u], Nothing}
<1>1. /\ dir' \in [Place -> Directories] /\ dir'[d] = x
      /\ \A e \in Place : e # d => dir'[e] = dir[e]
  BY Facts
<1>2. uploads' = uploads + 1 /\ uploads' \in Recordings /\ uploads \in Nat
  BY Facts, Constants DEF NewUpload, Recordings
<1>3. \A e \in Place : dir'[e].ref \in Nat /\ dir[e].ref \in Nat
  BY <1>1, Facts, Constants DEF Directories, Recordings
<1>4. Moves(dir, uploads, dir', uploads')
  BY <1>1, <1>2, <1>3 DEF Moves
<1>5. ASSUME NEW e \in Place
      PROVE  Stored(dir', uploads', e)
  <2>1. Stored(dir, uploads, e)
    BY DEF IInv, DirInv
  <2>2. \A u \in Upload : IsOf(dir', uploads', dir'[e].speaker[u], e, u)
    BY <1>1, <1>4, <2>1, IsOfKept DEF Stored
  <2>3. dir'[e].ref # Nothing => Seen(dir', uploads', e, dir'[e].ref)
    <3>1. CASE dir'[e].ref = dir[e].ref
      BY <1>4, <2>1, <3>1, SeenKept DEF Stored
    <3>2. CASE e = d /\ dir'[e].ref = uploads'
      <4>1. Stored(dir, uploads, Staging)
        BY Constants DEF IInv, DirInv
      <4>2. dir[Staging].ref # Nothing => dir[Staging].ref <= uploads
        BY <1>2, <1>3, <4>1, Constants DEF Stored, Seen
      <4>3. d # Staging => dir'[Staging].ref # uploads'
        BY <1>1, <1>2, <1>3, <4>2, Constants DEF Nothing
      <4>4. QED
        BY <1>2, <3>2, <4>3 DEF Seen
    <3>3. QED
      BY <1>1, <3>1, <3>2
  <2>4. dir'[e].ref = Nothing =>
          dir'[e].caches = FALSE /\ \A u \in Upload : dir'[e].speaker[u] = Nothing
    BY <1>1, <1>2, <2>1 DEF Stored, Nothing
  <2>5. QED
    BY <2>2, <2>3, <2>4 DEF Stored
<1>6. \A e \in Place : \A u \in Upload : dir'[e].cache[u] \in {dir[e].cache[u], Nothing}
  BY <1>1
<1>7. QED
  BY <1>1, <1>2, <1>4, <1>5, <1>6 DEF DirInv

(* A directory is removed.                                                  *)
LEMMA RemovedFiles ==
    ASSUME IInv, NEW d \in Place, Removed(d), UNCHANGED uploads
    PROVE  /\ dir' \in [Place -> Directories]
           /\ DirInv' /\ Moves(dir, uploads, dir', uploads')
           /\ \A e \in Place : \A u \in Upload :
                  dir'[e].cache[u] \in {dir[e].cache[u], Nothing}
           /\ \A e \in Place : Calm(dir, dir', e) /\ (SampleOk(dir, e) => SampleOk(dir', e))
<1>1. /\ dir' \in [Place -> Directories] /\ dir'[d] = Absent
      /\ \A e \in Place : e # d => dir'[e] = dir[e]
  BY Facts, Records DEF Removed
<1>2. /\ Absent.ref = Nothing /\ Absent.caches = FALSE /\ Absent.sample = Nothing
      /\ Absent.made = FALSE
      /\ \A u \in Upload : Absent.cache[u] = Nothing /\ Absent.speaker[u] = Nothing
  BY DEF Absent
<1>3. \A e \in Place : dir'[e].ref \in Nat /\ dir[e].ref \in Nat
  BY <1>1, <1>2, Facts DEF Nothing
<1>4. Moves(dir, uploads, dir', uploads')
  BY <1>1, <1>2, <1>3, Facts DEF Moves
<1>5. ASSUME NEW e \in Place
      PROVE  Stored(dir', uploads', e)
  <2>1. CASE e = d
    BY <1>1, <1>2, <2>1 DEF Stored, IsOf
  <2>2. CASE e # d
    BY <1>1, <1>4, <2>2, SeenKept, IsOfKept DEF IInv, DirInv, Stored
  <2>3. QED
    BY <2>1, <2>2
<1>6. \A e \in Place : Calm(dir, dir', e) /\ (SampleOk(dir, e) => SampleOk(dir', e))
  <2>1. ASSUME NEW e \in Place
        PROVE  Calm(dir, dir', e)
    BY <1>1, <1>2, Facts DEF Calm, Directories
  <2>2. QED
    BY <1>1, <1>2, <2>1 DEF SampleOk
<1>7. QED
  BY <1>1, <1>2, <1>4, <1>5, <1>6 DEF DirInv

LEMMA SameIsCalm ==
    ASSUME NEW d \in Place, dir[d] \in Directories, dir'[d] = dir[d]
    PROVE  Calm(dir, dir', d)
  BY DEF Calm, Directories

(* A recording is written, by an upload that may begin a request.           *)
LEMMA WrittenKeeps ==
    ASSUME IInv, UNCHANGED worker, NEW d \in Place, NEW x \in Directories,
           NewUpload, Written(d, x), x.ref \in {dir[d].ref, uploads'},
           x.caches = dir[d].caches, x.cache = dir[d].cache, x.speaker = dir[d].speaker,
           active' \in Name \cup {None}, req' \in [Req -> Requests],
           \A s \in Req : \/ req'[s] = req[s]
                          \/ /\ req[s].pc = "idle" /\ req'[s].pc = "asked"
                             /\ RequestOk(dir', uploads', req'[s]),
           ~overlap' => StageAlone(worker.job, req')
    PROVE  IInv'
<1>1. /\ dir' = [dir EXCEPT ![d] = x]
      /\ reused' = (reused \/ x.sample \notin {Nothing, x.ref})
      /\ overlap' = (overlap \/ Waits(d))
  BY DEF Written
<1>2. /\ dir' \in [Place -> Directories] /\ uploads' \in Recordings
      /\ DirInv' /\ Moves(dir, uploads, dir', uploads')
      /\ \A e \in Place : \A u \in Upload :
             dir'[e].cache[u] \in {dir[e].cache[u], Nothing}
  BY <1>1, WrittenFiles
<1>3. dir'[d] = x /\ \A e \in Place : e # d => dir'[e] = dir[e]
  BY <1>1, Facts
<1>4. \A e \in Place : ~overlap' /\ Waits(e) => Calm(dir, dir', e)
  BY <1>1, <1>3, Facts, SameIsCalm
<1>5. worker.kind # "omnivoice" /\ ~overlap' /\ ~reused' =>
          \A e \in Place : SampleOk(dir', e)
  BY <1>1, <1>3 DEF IInv, VoiceInv, SampleOk
<1>6. Types'
  <2>1. reused' \in BOOLEAN /\ overlap' \in BOOLEAN
    BY <1>1
  <2>2. QED
    BY <1>2, <2>1 DEF IInv, Types
<1>7. (overlap => overlap') /\ (reused => reused')
  BY <1>1
<1>8. QED
  BY <1>2, <1>4, <1>5, <1>6, <1>7, FilesChange

LEMMA EnrollKeeps ==
    ASSUME IInv, NEW n \in Name, Enroll(n) \/ EnrollFails(n)
    PROVE  IInv'
<1>1. n \in Place /\ dir[n] \in Directories
  BY Facts, Constants
<1>2. PICK u \in {dir[n].ref, uploads'} :
        Written(n, [dir[n] EXCEPT !.made = TRUE, !.ref = u])
  BY DEF Enroll, EnrollFails
<1> DEFINE x == [dir[n] EXCEPT !.made = TRUE, !.ref = u]
<1>3. /\ NewUpload /\ UNCHANGED <<worker, req>>
      /\ active' \in Name \cup {None}
  BY DEF Enroll, EnrollFails, IInv, Types
<1>4. uploads' \in Recordings
  BY <1>3, Facts, Constants DEF NewUpload, Recordings
<1>5. /\ x \in Directories /\ x.ref = u
      /\ x.caches = dir[n].caches /\ x.cache = dir[n].cache /\ x.speaker = dir[n].speaker
  BY <1>1, <1>4 DEF Directories
<1>6. Written(n, x)
  BY <1>2
<1> HIDE DEF x
<1>7. ~overlap' => StageAlone(worker.job, req')
  BY <1>3, <1>6 DEF Written, IInv, VoiceInv
<1>8. req' \in [Req -> Requests]
  BY <1>3, Facts
<1>9. QED
  BY <1>1, <1>3, <1>5, <1>6, <1>7, <1>8, WrittenKeeps

LEMMA StageRefusedKeeps ==
    ASSUME IInv, StageRefused
    PROVE  IInv'
<1>1. Staging \in Place /\ dir[Staging] \in Directories
  BY Facts, Constants
<1>2. PICK u \in {dir[Staging].ref, uploads'} :
        Written(Staging, [dir[Staging] EXCEPT !.made = TRUE, !.ref = u])
  BY DEF StageRefused
<1> DEFINE x == [dir[Staging] EXCEPT !.made = TRUE, !.ref = u]
<1>3. /\ NewUpload /\ UNCHANGED <<worker, req>>
      /\ active' \in Name \cup {None}
  BY DEF StageRefused, IInv, Types
<1>4. uploads' \in Recordings
  BY <1>3, Facts, Constants DEF NewUpload, Recordings
<1>5. /\ x \in Directories /\ x.ref = u
      /\ x.caches = dir[Staging].caches /\ x.cache = dir[Staging].cache
      /\ x.speaker = dir[Staging].speaker
  BY <1>1, <1>4 DEF Directories
<1>6. Written(Staging, x)
  BY <1>2
<1> HIDE DEF x
<1>7. ~overlap' => StageAlone(worker.job, req')
  BY <1>3, <1>6 DEF Written, IInv, VoiceInv
<1>8. req' \in [Req -> Requests]
  BY <1>3, Facts
<1>9. QED
  BY <1>1, <1>3, <1>5, <1>6, <1>7, <1>8, WrittenKeeps

(* A staged recording is worked on alone, unless one came to .staging while *)
(* another was.                                                             *)
LEMMA StageKeeps ==
    ASSUME IInv, NEW r \in Req, Stage(r)
    PROVE  IInv'
<1>1. Staging \in Place /\ dir[Staging] \in Directories /\ Idle \in Requests
  BY Facts, Constants, Records
<1> DEFINE x == [dir[Staging] EXCEPT !.made = TRUE, !.ref = uploads', !.sample = Nothing]
<1> DEFINE q == [Idle EXCEPT !.pc = "asked", !.kind = "stage", !.at = Staging,
                             !.key = Nothing]
<1>2. /\ NewUpload /\ UNCHANGED <<worker, active>> /\ Written(Staging, x)
      /\ req[r].pc = "idle" /\ req' = [req EXCEPT ![r] = q]
  BY DEF Stage, Begin
<1>3. uploads' \in Recordings /\ Nothing \in Recordings
  BY <1>2, Facts, Constants DEF NewUpload, Recordings, Nothing
<1>4. /\ x \in Directories /\ x.ref = uploads'
      /\ x.caches = dir[Staging].caches /\ x.cache = dir[Staging].cache
      /\ x.speaker = dir[Staging].speaker
  BY <1>1, <1>3 DEF Directories
<1>5. /\ q \in Requests /\ q.pc = "asked" /\ q.kind = "stage" /\ q.at = Staging
      /\ q.out = <<>>
  BY <1>1, <1>3, Constants DEF Requests, Idle
<1> HIDE DEF x, q
<1>6. /\ req' \in [Req -> Requests] /\ req'[r] = q
      /\ \A s \in Req : s # r => req'[s] = req[s]
  BY <1>2, <1>5, Facts
<1>7. RequestOk(dir', uploads', q)
  BY <1>5 DEF RequestOk
<1>8. ASSUME ~overlap'
      PROVE  StageAlone(worker.job, req')
  <2>1. ~Waits(Staging)
    BY <1>2, <1>8 DEF Written
  <2>2. \A s \in Req : req[s].kind # "stage"
    <3>1. \A s \in Req : req[s].kind = "stage" => req[s].pc # "idle" /\ req[s].at = Staging
      BY DEF IInv, RequestInv, RequestOk, Idle
    <3>2. QED
      BY <2>1, <3>1 DEF Waits
  <2>3. ~(worker.job.pc # "none" /\ worker.job.at = Staging)
    BY <2>1 DEF Waits, Busy, Job
  <2>4. QED
    BY <1>6, <2>2, <2>3 DEF StageAlone
<1>9. active' \in Name \cup {None}
  BY <1>2 DEF IInv, Types
<1>10. \A s \in Req : \/ req'[s] = req[s]
                      \/ /\ req[s].pc = "idle" /\ req'[s].pc = "asked"
                         /\ RequestOk(dir', uploads', req'[s])
  BY <1>2, <1>5, <1>6, <1>7
<1>11. QED
  BY <1>1, <1>2, <1>4, <1>6, <1>8, <1>9, <1>10, WrittenKeeps

(* .staging is cleared, or a profile deleted.                               *)
LEMMA RemovedKeeps ==
    ASSUME IInv, NEW d \in Place, Removed(d), active' \in Name \cup {None},
           UNCHANGED <<worker, req, uploads, reused, overlap>>
    PROVE  IInv'
<1>1. /\ dir' \in [Place -> Directories]
      /\ DirInv' /\ Moves(dir, uploads, dir', uploads')
      /\ \A e \in Place : \A u \in Upload :
             dir'[e].cache[u] \in {dir[e].cache[u], Nothing}
      /\ \A e \in Place : Calm(dir, dir', e) /\ (SampleOk(dir, e) => SampleOk(dir', e))
  BY RemovedFiles
<1>2. Types'
  BY <1>1 DEF IInv, Types
<1>3. worker.kind # "omnivoice" /\ ~overlap' /\ ~reused' =>
          \A e \in Place : SampleOk(dir', e)
  BY <1>1 DEF IInv, VoiceInv
<1>4. ~overlap' => StageAlone(worker.job, req')
  BY DEF IInv, VoiceInv
<1>5. QED
  BY <1>1, <1>2, <1>3, <1>4, FilesChange

LEMMA ClearStageKeeps ==
    ASSUME IInv, ClearStage
    PROVE  IInv'
  BY RemovedKeeps, Constants DEF ClearStage, IInv, Types

LEMMA DeleteKeeps ==
    ASSUME IInv, NEW n \in Name, Delete(n)
    PROVE  IInv'
<1>1. active' \in Name \cup {None}
  BY DEF Delete, IInv, Types
<1>2. QED
  BY <1>1, RemovedKeeps, Constants DEF Delete

LEMMA CommitKeeps ==
    ASSUME IInv, NEW n \in Name, Commit(n)
    PROVE  IInv'
<1> DEFINE s == dir[Staging]
           f == [dir[n] EXCEPT !.made = TRUE, !.ref = s.ref,
                               !.sample = IF s.sample # Nothing THEN s.sample ELSE @]
<1>1. /\ s.ref # Nothing
      /\ dir' = [dir EXCEPT ![n] = f, ![Staging] = Absent]
      /\ reused' = (reused \/ f.sample \notin {Nothing, f.ref})
      /\ overlap' = (overlap \/ Waits(n) \/ Waits(Staging))
      /\ active' = n /\ UNCHANGED <<worker, req, uploads>>
  BY DEF Commit
<1>2. /\ n \in Place /\ Staging \in Place /\ n # Staging
      /\ dir[n] \in Directories /\ s \in Directories
  BY Facts, Constants
<1>3. /\ f \in Directories /\ f.ref = s.ref /\ f.caches = dir[n].caches
      /\ f.cache = dir[n].cache /\ f.speaker = dir[n].speaker
  BY <1>2 DEF Directories
<1> HIDE DEF f
<1>4. /\ dir' \in [Place -> Directories] /\ dir'[n] = f /\ dir'[Staging] = Absent
      /\ \A e \in Place : e \notin {n, Staging} => dir'[e] = dir[e]
  BY <1>1, <1>2, <1>3, Facts, Records
<1>5. /\ Absent.ref = Nothing /\ Absent.caches = FALSE /\ Absent.sample = Nothing
      /\ \A u \in Upload : Absent.cache[u] = Nothing /\ Absent.speaker[u] = Nothing
  BY DEF Absent
<1>6. \A e \in Place : dir'[e].ref \in Nat /\ dir[e].ref \in Nat
  BY <1>2, <1>3, <1>4, <1>5, Facts DEF Nothing
<1>7. Moves(dir, uploads, dir', uploads')
  BY <1>1, <1>2, <1>3, <1>4, <1>5, <1>6, Facts DEF Moves
<1>8. ASSUME NEW e \in Place
      PROVE  Stored(dir', uploads', e)
  <2>1. CASE e = Staging
    BY <1>4, <1>5, <2>1 DEF Stored, IsOf
  <2>2. CASE e = n
    <3>1. Seen(dir, uploads, Staging, s.ref)
      BY <1>1, <1>2 DEF IInv, DirInv, Stored
    <3>2. Seen(dir', uploads', n, f.ref)
      BY <1>1, <1>3, <1>4, <1>5, <3>1 DEF Seen
    <3>3. \A u \in Upload : IsOf(dir', uploads', f.speaker[u], n, u)
      BY <1>2, <1>3, <1>7, IsOfKept DEF IInv, DirInv, Stored
    <3>4. QED
      BY <1>1, <1>3, <1>4, <2>2, <3>2, <3>3 DEF Stored
  <2>3. CASE e \notin {n, Staging}
    BY <1>4, <1>7, <2>3, SeenKept, IsOfKept DEF IInv, DirInv, Stored
  <2>4. QED
    BY <2>1, <2>2, <2>3
<1>9. \A e \in Place : \A u \in Upload : dir'[e].cache[u] \in {dir[e].cache[u], Nothing}
  BY <1>3, <1>4, <1>5
<1>10. \A e \in Place : ~overlap' /\ Waits(e) => Calm(dir, dir', e)
  BY <1>1, <1>4, Facts, SameIsCalm
<1>11. worker.kind # "omnivoice" /\ ~overlap' /\ ~reused' =>
          \A e \in Place : SampleOk(dir', e)
  BY <1>1, <1>4, <1>5 DEF IInv, VoiceInv, SampleOk
<1>12. /\ (overlap => overlap') /\ (reused => reused')
       /\ reused' \in BOOLEAN /\ overlap' \in BOOLEAN
  BY <1>1
<1>13. Types'
  BY <1>1, <1>4, <1>12 DEF IInv, Types
<1>14. ~overlap' => StageAlone(worker.job, req')
  BY <1>1 DEF IInv, VoiceInv
<1>15. DirInv'
  BY <1>8 DEF DirInv
<1>16. QED
  BY <1>1, <1>7, <1>9, <1>10, <1>11, <1>12, <1>13, <1>14, <1>15, FilesChange

LEMMA ActivateKeeps ==
    ASSUME IInv, NEW n \in Name \cup {None}, Activate(n)
    PROVE  IInv'
<1>1. active' = n /\ UNCHANGED <<worker, dir, req, uploads, reused, overlap>>
  BY DEF Activate
<1>2. Types'
  BY <1>1 DEF IInv, Types
<1>3. DirInv' /\ RequestInv' /\ JobInv' /\ KeyInv' /\ VoiceInv'
  BY <1>1 DEF IInv, DirInv, RequestInv, JobInv, KeyInv, VoiceInv
<1>4. QED
  BY <1>2, <1>3 DEF IInv

-----------------------------------------------------------------------------
(* Requests that wait begin.                                                *)

LEMMA ChosenProfile ==
    ASSUME IInv, NEW n \in Name \cup {None}, HasReference(Chosen(n))
    PROVE  /\ Chosen(n) \in Name /\ Chosen(n) \in Place /\ Chosen(n) # Staging
           /\ dir[Chosen(n)].ref # Nothing /\ dir[Chosen(n)].ref \in Upload
           /\ Seen(dir, uploads, Chosen(n), dir[Chosen(n)].ref)
<1>1. Chosen(n) \in Name /\ dir[Chosen(n)].ref # Nothing
  BY DEF Chosen, HasReference, IInv, Types
<1>2. Chosen(n) \in Place /\ Chosen(n) # Staging
  BY <1>1, Constants
<1>3. Seen(dir, uploads, Chosen(n), dir[Chosen(n)].ref)
  BY <1>1, <1>2 DEF IInv, DirInv, Stored
<1>4. dir[Chosen(n)].ref \in Upload
  BY <1>3, Facts, Constants DEF Seen, Upload, Recordings
<1>5. QED
  BY <1>1, <1>2, <1>3, <1>4

(* Only what is said of the recording changes in directory d.               *)
LEMMA MarkedFiles ==
    ASSUME IInv, NEW d \in Place, NEW x \in Directories, dir' = [dir EXCEPT ![d] = x],
           UNCHANGED uploads, x.ref = dir[d].ref, x.made = dir[d].made,
           x.caches = dir[d].caches \/ x.ref # Nothing, x.speaker = dir[d].speaker
    PROVE  /\ dir' \in [Place -> Directories] /\ dir'[d] = x
           /\ \A e \in Place : e # d => dir'[e] = dir[e]
           /\ DirInv' /\ Moves(dir, uploads, dir', uploads')
           /\ \A e \in Place : Calm(dir, dir', e) /\ dir'[e].ref = dir[e].ref
<1>1. /\ dir' \in [Place -> Directories] /\ dir'[d] = x
      /\ \A e \in Place : e # d => dir'[e] = dir[e]
  BY Facts
<1>2. \A e \in Place : dir'[e].ref = dir[e].ref
  BY <1>1
<1>3. Moves(dir, uploads, dir', uploads')
  BY <1>1, <1>2, NoMove DEF IInv
<1>4. ASSUME NEW e \in Place
      PROVE  Stored(dir', uploads', e)
  <2>1. Stored(dir, uploads, e)
    BY DEF IInv, DirInv
  <2>2. dir'[e].ref # Nothing => Seen(dir', uploads', e, dir'[e].ref)
    BY <1>2, <1>3, <2>1, SeenKept DEF Stored
  <2>3. \A u \in Upload : IsOf(dir', uploads', dir'[e].speaker[u], e, u)
    BY <1>1, <1>3, <2>1, IsOfKept DEF Stored
  <2>4. QED
    BY <1>1, <2>1, <2>2, <2>3 DEF Stored
<1>5. ASSUME NEW e \in Place
      PROVE  Calm(dir, dir', e)
  <2>1. dir'[e].ref = dir[e].ref /\ dir'[e].made = dir[e].made /\ dir[e].made \in BOOLEAN
    BY <1>1, Facts DEF Directories
  <2>2. QED
    BY <2>1 DEF Calm
<1>6. QED
  BY <1>1, <1>2, <1>3, <1>4, <1>5 DEF DirInv

(* The sample that the cache holds is of the present recording.             *)
LEMMA SampleCachedKeeps ==
    ASSUME IInv, NEW n \in Name \cup {None}, SampleCached(n)
    PROVE  IInv'
<1> DEFINE d == Chosen(n)
           x == [dir[d] EXCEPT !.sample = Hit(d)]
<1>1. /\ HasReference(d) /\ dir' = [dir EXCEPT ![d] = x]
      /\ UNCHANGED <<worker, active, req, uploads, reused, overlap>>
  BY DEF SampleCached
<1>2. /\ d \in Place /\ dir[d] \in Directories
      /\ dir[d].ref # Nothing /\ dir[d].ref \in Upload
  BY <1>1, ChosenProfile, Facts
<1>3. Hit(d) = dir[d].cache[dir[d].ref] /\ Hit(d) \in Recordings
  BY <1>2 DEF Hit, CacheKey, Directories
<1>4. /\ x \in Directories /\ x.ref = dir[d].ref /\ x.made = dir[d].made
      /\ x.caches = dir[d].caches /\ x.cache = dir[d].cache
      /\ x.speaker = dir[d].speaker /\ x.sample = Hit(d)
  BY <1>2, <1>3 DEF Directories
<1>5. worker.kind # "omnivoice" => x.sample \in {Nothing, x.ref}
  <2>1. worker.kind # "omnivoice" => IsOf(dir, uploads, Hit(d), d, dir[d].ref)
    BY <1>2, <1>3 DEF IInv, KeyInv
  <2>2. QED
    BY <1>4, <2>1 DEF IsOf, Past
<1> HIDE DEF x, d
<1>6. /\ dir' \in [Place -> Directories] /\ dir'[d] = x
      /\ \A e \in Place : e # d => dir'[e] = dir[e]
      /\ DirInv' /\ Moves(dir, uploads, dir', uploads')
      /\ \A e \in Place : Calm(dir, dir', e) /\ dir'[e].ref = dir[e].ref
  BY <1>1, <1>2, <1>4, MarkedFiles
<1>7. Types'
  BY <1>1, <1>6 DEF IInv, Types
<1>8. \A e \in Place : \A u \in Upload : dir'[e].cache[u] \in {dir[e].cache[u], Nothing}
  BY <1>4, <1>6
<1>9. worker.kind # "omnivoice" /\ ~overlap' /\ ~reused' =>
          \A e \in Place : SampleOk(dir', e)
  BY <1>1, <1>4, <1>5, <1>6 DEF IInv, VoiceInv, SampleOk
<1>10. ~overlap' => StageAlone(worker.job, req')
  BY <1>1 DEF IInv, VoiceInv
<1>11. QED
  BY <1>1, <1>6, <1>7, <1>8, <1>9, <1>10, FilesChange

(* A request for a profile does not disturb the one for .staging.           *)
LEMMA ProfileRequestBegins ==
    ASSUME IInv, NEW r \in Req, NEW d \in Name, NEW key \in Recordings,
           NEW kind \in {"sample", "speak"},
           req[r].pc = "idle", Begin(r, kind, d, key), UNCHANGED overlap,
           kind = "sample" => Seen(dir', uploads', d, key)
    PROVE  /\ req' \in [Req -> Requests]
           /\ \A s \in Req : \/ req'[s] = req[s]
                             \/ /\ req[s].pc = "idle" /\ req'[s].pc = "asked"
                                /\ RequestOk(dir', uploads', req'[s])
           /\ ~overlap' => StageAlone(worker.job, req')
<1> DEFINE q == [Idle EXCEPT !.pc = "asked", !.kind = kind, !.at = d, !.key = key]
<1>1. req' = [req EXCEPT ![r] = q]
  BY DEF Begin
<1>2. /\ q \in Requests /\ q.pc = "asked" /\ q.kind = kind /\ q.at = d /\ q.key = key
      /\ q.out = <<>>
  BY Records, Constants DEF Requests, Idle
<1> HIDE DEF q
<1>3. /\ req' \in [Req -> Requests] /\ req'[r] = q
      /\ \A s \in Req : s # r => req'[s] = req[s]
  BY <1>1, <1>2, Facts
<1>4. RequestOk(dir', uploads', q)
  BY <1>2 DEF RequestOk
<1>5. \A s \in Req : req'[s].kind = "stage" => req[s].kind = "stage"
  BY <1>2, <1>3
<1>6. ~overlap' => StageAlone(worker.job, req')
  BY <1>5 DEF IInv, VoiceInv, StageAlone
<1>7. QED
  BY <1>2, <1>3, <1>4, <1>6

LEMMA SampleKeeps ==
    ASSUME IInv, NEW r \in Req, NEW n \in Name \cup {None}, Sample(r, n)
    PROVE  IInv'
<1> DEFINE d == Chosen(n)
           x == [dir[d] EXCEPT !.caches = TRUE]
<1>1. /\ HasReference(d) /\ dir' = [dir EXCEPT ![d] = x]
      /\ req[r].pc = "idle" /\ Begin(r, "sample", d, dir[d].ref)
      /\ UNCHANGED <<worker, active, uploads, reused, overlap>>
  BY DEF Sample, CacheKey
<1>2. /\ d \in Place /\ d \in Name /\ dir[d] \in Directories
      /\ dir[d].ref # Nothing /\ dir[d].ref \in Recordings
      /\ Seen(dir, uploads, d, dir[d].ref)
  BY <1>1, ChosenProfile, Facts DEF Directories
<1>3. /\ x \in Directories /\ x.ref = dir[d].ref /\ x.made = dir[d].made
      /\ x.cache = dir[d].cache /\ x.speaker = dir[d].speaker /\ x.sample = dir[d].sample
  BY <1>2 DEF Directories
<1> HIDE DEF x, d
<1>4. /\ dir' \in [Place -> Directories] /\ dir'[d] = x
      /\ \A e \in Place : e # d => dir'[e] = dir[e]
      /\ DirInv' /\ Moves(dir, uploads, dir', uploads')
      /\ \A e \in Place : Calm(dir, dir', e) /\ dir'[e].ref = dir[e].ref
  BY <1>1, <1>2, <1>3, MarkedFiles
<1>5. Seen(dir', uploads', d, dir[d].ref)
  BY <1>2, <1>4, SeenKept
<1>6. /\ req' \in [Req -> Requests]
      /\ \A s \in Req : \/ req'[s] = req[s]
                        \/ /\ req[s].pc = "idle" /\ req'[s].pc = "asked"
                           /\ RequestOk(dir', uploads', req'[s])
      /\ ~overlap' => StageAlone(worker.job, req')
  BY <1>1, <1>2, <1>5, ProfileRequestBegins
<1>7. Types'
  BY <1>1, <1>4, <1>6 DEF IInv, Types
<1>8. \A e \in Place : \A u \in Upload : dir'[e].cache[u] \in {dir[e].cache[u], Nothing}
  BY <1>3, <1>4
<1>9. worker.kind # "omnivoice" /\ ~overlap' /\ ~reused' =>
          \A e \in Place : SampleOk(dir', e)
  BY <1>1, <1>3, <1>4 DEF IInv, VoiceInv, SampleOk
<1>10. QED
  BY <1>1, <1>4, <1>6, <1>7, <1>8, <1>9, FilesChange

LEMMA SpeakKeeps ==
    ASSUME IInv, NEW r \in Req, NEW n \in Name \cup {None}, Speak(r, n)
    PROVE  IInv'
<1> DEFINE d == Chosen(n)
<1>1. /\ HasReference(d) /\ req[r].pc = "idle" /\ Begin(r, "speak", d, Nothing)
      /\ UNCHANGED <<worker, dir, active, uploads, reused, overlap>>
  BY DEF Speak
<1>2. d \in Name /\ Nothing \in Recordings
  BY <1>1, ChosenProfile, Constants DEF Recordings, Nothing
<1> HIDE DEF d
<1>3. /\ req' \in [Req -> Requests]
      /\ \A s \in Req : \/ req'[s] = req[s]
                        \/ /\ req[s].pc = "idle" /\ req'[s].pc = "asked"
                           /\ RequestOk(dir', uploads', req'[s])
      /\ ~overlap' => StageAlone(worker.job, req')
  BY <1>1, <1>2, ProfileRequestBegins
<1>4. Types' /\ DirInv'
  BY <1>1, <1>3 DEF IInv, Types, DirInv
<1>5. Moves(dir, uploads, dir', uploads')
  BY <1>1, NoMove, Facts DEF IInv
<1>6. \A e \in Place : Calm(dir, dir', e)
  BY <1>1, Facts, SameIsCalm
<1>7. worker.kind # "omnivoice" /\ ~overlap' /\ ~reused' =>
          \A e \in Place : SampleOk(dir', e)
  BY <1>1 DEF IInv, VoiceInv
<1>8. QED
  BY <1>1, <1>3, <1>4, <1>5, <1>6, <1>7, FilesChange

-----------------------------------------------------------------------------
(* What a driver does.                                                      *)

LEMMA JobFacts ==
    ASSUME IInv, Busy
    PROVE  /\ worker.job.at \in Place /\ Ref = dir[worker.job.at].ref
           /\ Ref \in Recordings /\ dir[worker.job.at] \in Directories
           /\ Ref # Nothing => Ref \in Upload /\ Seen(dir, uploads, worker.job.at, Ref)
           /\ worker.job.of # Nobody /\ req[worker.job.of].kind = "sample" =>
                 /\ req[worker.job.of].at = worker.job.at
                 /\ Seen(dir, uploads, worker.job.at, req[worker.job.of].key)
                 /\ \/ Ref = req[worker.job.of].key
                    \/ Past(dir, uploads, worker.job.at, req[worker.job.of].key)
<1>1. worker.job.at \in Place /\ Ref = dir[worker.job.at].ref
  BY DEF IInv, JobInv, Busy, Job, Ref
<1>2. dir[worker.job.at] \in Directories /\ Ref \in Recordings
  BY <1>1, Facts DEF Directories
<1>3. Ref # Nothing => Seen(dir, uploads, worker.job.at, Ref)
  BY <1>1 DEF IInv, DirInv, Stored
<1>4. Ref # Nothing => Ref \in Upload
  BY <1>3, Facts, Constants DEF Seen, Upload, Recordings
<1>5. ASSUME worker.job.of # Nobody, req[worker.job.of].kind = "sample"
      PROVE  /\ req[worker.job.of].at = worker.job.at
             /\ Seen(dir, uploads, worker.job.at, req[worker.job.of].key)
             /\ \/ Ref = req[worker.job.of].key
                \/ Past(dir, uploads, worker.job.at, req[worker.job.of].key)
  <2>1. req[worker.job.of].at = worker.job.at
    BY <1>5 DEF IInv, JobInv, Serves
  <2>2. Seen(dir, uploads, worker.job.at, req[worker.job.of].key)
    BY <1>5, <2>1, Facts DEF IInv, RequestInv, RequestOk
  <2>3. QED
    BY <1>1, <2>1, <2>2, SeenIsPresentOrPast
<1>6. QED
  BY <1>1, <1>2, <1>3, <1>4, <1>5

(* The voices and keys that a driver may go on with.                        *)
LEMMA GoesOn ==
    ASSUME IInv, Busy, worker.kind # "omnivoice", NEW j, j.at = worker.job.at,
           \/ j.voice = worker.job.voice
           \/ j.voice \in {Nothing, Ref}
           \/ /\ Keyed(worker.job) /\ Ref # Nothing
              /\ IsOf(dir, uploads, j.voice, worker.job.at, worker.job.key),
           \/ ~Keyed(j)
           \/ j.key = Ref /\ Ref # Nothing
           \/ Keyed(worker.job) /\ j.key = worker.job.key
    PROVE  /\ Keyed(j) => Seen(dir, uploads, worker.job.at, j.key)
           /\ worker.job.of # Nobody => VoiceOk(dir, uploads, j, req[worker.job.of])
           /\ ~overlap => SpeaksOk(dir, j)
<1> DEFINE d == worker.job.at
           q == req[worker.job.of]
<1>1. worker.job.pc # "none"
  BY DEF Busy, Job
<1>2. Keyed(j) => Seen(dir, uploads, d, j.key)
  BY JobFacts DEF IInv, KeyInv
<1>3. ASSUME worker.job.of # Nobody, q.kind = "sample"
      PROVE  /\ IsOf(dir, uploads, j.voice, q.at, q.key)
             /\ Keyed(j) => j.key = q.key \/ Past(dir, uploads, q.at, q.key)
  <2>1. q.at = d /\ (Ref = q.key \/ Past(dir, uploads, d, q.key))
    BY <1>3, JobFacts
  <2>2. /\ IsOf(dir, uploads, worker.job.voice, d, q.key)
        /\ Keyed(worker.job) => worker.job.key = q.key \/ Past(dir, uploads, d, q.key)
    BY <1>3, <2>1 DEF IInv, KeyInv, VoiceOk
  <2>3. Keyed(j) => j.key = q.key \/ Past(dir, uploads, d, q.key)
    BY <2>1, <2>2
  <2>4. IsOf(dir, uploads, j.voice, d, q.key)
    <3>1. CASE j.voice = worker.job.voice
      BY <2>2, <3>1
    <3>2. CASE j.voice \in {Nothing, Ref}
      BY <2>1, <3>2 DEF IsOf
    <3>3. CASE Keyed(worker.job) /\ IsOf(dir, uploads, j.voice, d, worker.job.key)
      BY <2>2, <3>3 DEF IsOf
    <3>4. QED
      BY <3>1, <3>2, <3>3
  <2>5. QED
    BY <2>1, <2>3, <2>4
<1>4. ASSUME ~overlap
      PROVE  SpeaksOk(dir, j)
  <2>1. SpeaksOk(dir, worker.job) /\ Ref = dir[d].ref
    BY <1>1, <1>4, JobFacts DEF IInv, VoiceInv
  <2>2. Speaks(dir, j.voice, d)
    <3>1. CASE j.voice = worker.job.voice
      BY <2>1, <3>1 DEF SpeaksOk
    <3>2. CASE j.voice \in {Nothing, Ref}
      BY <2>1, <3>2 DEF Speaks
    <3>3. CASE /\ Keyed(worker.job) /\ Ref # Nothing
               /\ IsOf(dir, uploads, j.voice, d, worker.job.key)
      <4>1. worker.job.key = Ref
        BY <2>1, <3>3 DEF SpeaksOk
      <4>2. j.voice \in {Nothing, Ref}
        BY <2>1, <3>3, <4>1 DEF IsOf, Past
      <4>3. QED
        BY <2>1, <4>2 DEF Speaks
    <3>4. QED
      BY <3>1, <3>2, <3>3
  <2>3. Keyed(j) => j.key = dir[d].ref \/ dir[d].ref = Nothing
    BY <2>1 DEF SpeaksOk
  <2>4. QED
    BY <2>2, <2>3 DEF SpeaksOk
<1>5. QED
  BY <1>2, <1>3, <1>4 DEF VoiceOk

(* A driver that leaves the directories alone.                              *)
LEMMA DriverThinks ==
    ASSUME IInv, UNCHANGED <<dir, req, active, uploads, reused, overlap>>,
           worker' \in Workers, worker'.kind = worker.kind,
           \/ worker'.job = worker.job
           \/ /\ Busy /\ worker'.job.pc # "none"
              /\ worker'.job.of = worker.job.of /\ worker'.job.at = worker.job.at
              /\ worker'.job.wav = worker.job.wav /\ worker'.job.given = worker.job.given
              /\ worker.kind # "omnivoice" =>
                    /\ Keyed(worker'.job) =>
                          Seen(dir, uploads, worker.job.at, worker'.job.key)
                    /\ worker.job.of # Nobody =>
                          VoiceOk(dir, uploads, worker'.job, req[worker.job.of])
                    /\ ~overlap => SpeaksOk(dir, worker'.job),
           worker.kind # "omnivoice" =>
               \A i \in 1 .. Len(worker'.prompts) :
                   PromptOk(dir, uploads, worker'.prompts[i])
    PROVE  IInv'
<1>1. /\ dir' \in [Place -> Directories] /\ DirInv'
      /\ \A d \in Place : /\ dir'[d].ref = dir[d].ref /\ dir'[d].sample = dir[d].sample
                          /\ dir'[d].cache = dir[d].cache /\ Calm(dir, dir', d)
  BY Facts, SameIsCalm DEF IInv, DirInv
<1>2. /\ worker'.job.pc = "none" => worker.job.pc = "none"
      /\ worker'.job.pc = "none" => worker'.job = NoJob
      /\ worker'.job.pc # "none" => worker.job.pc # "none"
      /\ worker'.job.of = worker.job.of /\ worker'.job.at = worker.job.at
      /\ worker'.job.wav = worker.job.wav /\ worker'.job.given = worker.job.given
  BY DEF IInv, JobInv, Busy, Job
<1>3. worker.kind # "omnivoice" =>
        /\ Keyed(worker'.job) => Seen(dir, uploads, worker.job.at, worker'.job.key)
        /\ worker.job.of # Nobody => VoiceOk(dir, uploads, worker'.job, req[worker.job.of])
        /\ ~overlap /\ worker.job.pc # "none" => SpeaksOk(dir, worker'.job)
  BY DEF IInv, KeyInv, VoiceInv
<1>4. QED
  BY <1>1, <1>2, <1>3, DriverMoves

LEMMA PromptsOk ==
    ASSUME IInv, worker.kind # "omnivoice"
    PROVE  \A i \in 1 .. Len(worker.prompts) : PromptOk(dir, uploads, worker.prompts[i])
  BY DEF IInv, KeyInv

LEMMA LoadsKeeps ==
    ASSUME IInv, UNCHANGED <<req, active, uploads, reused, overlap>>,
           Loads \/ Wakes \/ Unloads
    PROVE  IInv'
<1>1. CASE Loads \/ Wakes
  <2>1. /\ worker' \in Workers /\ worker'.kind = worker.kind /\ worker'.job = worker.job
        /\ worker'.prompts = worker.prompts /\ dir' = dir
    BY <1>1, Facts DEF Loads, Wakes, XttsLoads, HiggsLoads, ProxyLoads,
       OmniVoiceActivates, Healthy, Workers
  <2>2. QED
    BY <2>1, PromptsOk, DriverThinks
<1>2. CASE Unloads
  <2>1. worker.kind \in Driver /\ worker.job = NoJob
    BY <1>2, Facts DEF Unloads, Busy, Job, IInv, JobInv, Workers
  <2>2. /\ worker' \in Workers /\ worker'.kind = worker.kind /\ worker'.job = worker.job
        /\ worker'.prompts = <<>> /\ dir' = dir
    BY <1>2, <2>1, Records DEF Unloads
  <2>3. QED
    BY <2>2, DriverThinks
<1>3. QED
  BY <1>1, <1>2

LEMMA GoesTo ==
    ASSUME IInv, Busy, NEW pc \in {"clipped", "whole", "post", "stream"},
           NEW v \in Recordings, Goes(pc, v)
    PROVE  /\ worker' \in Workers /\ worker'.kind = worker.kind
           /\ worker'.prompts = worker.prompts
           /\ worker'.job.pc = pc /\ worker'.job.voice = v
           /\ pc # "stream" => worker'.job.key = worker.job.key
           /\ worker'.job.of = worker.job.of /\ worker'.job.at = worker.job.at
           /\ worker'.job.wav = worker.job.wav /\ worker'.job.given = worker.job.given
<1>1. worker \in Workers /\ worker.job \in Jobs /\ Nothing \in Recordings
  BY Facts, Constants DEF Recordings, Nothing
<1>2. QED
  BY <1>1 DEF Goes, Workers, Jobs

(* The proxy sends the recording that it finds.                             *)
LEMMA ProxyKeeps ==
    ASSUME IInv, UNCHANGED <<req, active, uploads, reused, overlap>>, Encodes \/ Posted
    PROVE  IInv'
<1>1. Busy /\ dir' = dir /\ worker.kind = "proxy"
  BY DEF Encodes, Posted, At, Busy
<1>2. Ref \in Recordings /\ worker.job.voice \in Recordings
  BY <1>1, JobFacts, Facts DEF Jobs
<1>3. PICK pc \in {"post", "stream"} : Goes(pc, Ref) \/ Goes(pc, worker.job.voice)
  BY DEF Encodes, Posted, Job
<1>4. /\ worker' \in Workers /\ worker'.kind = worker.kind
      /\ worker'.prompts = worker.prompts
      /\ worker'.job.pc = pc /\ worker'.job.voice \in {Ref, worker.job.voice}
      /\ worker'.job.of = worker.job.of /\ worker'.job.at = worker.job.at
      /\ worker'.job.wav = worker.job.wav /\ worker'.job.given = worker.job.given
  BY <1>1, <1>2, <1>3, GoesTo
<1>5. ~Keyed(worker'.job)
  BY <1>4 DEF Keyed
<1>6. /\ worker.job.of # Nobody => VoiceOk(dir, uploads, worker'.job, req[worker.job.of])
      /\ ~overlap => SpeaksOk(dir, worker'.job)
  BY <1>1, <1>4, <1>5, GoesOn
<1>7. QED
  BY <1>1, <1>4, <1>5, <1>6, PromptsOk, DriverThinks

(* Prompts are dropped in front, added, or moved to the end: each of them   *)
(* was there before, or is the one that is added.                           *)
LEMMA SuffixKept ==
    ASSUME NEW s \in Seq(Prompts), NEW m \in Nat, 1 <= m, m <= Len(s) + 1
    PROVE  /\ SubSeq(s, m, Len(s)) \in Seq(Prompts)
           /\ \A i \in 1 .. Len(SubSeq(s, m, Len(s))) :
                 \E k \in 1 .. Len(s) : SubSeq(s, m, Len(s))[i] = s[k]
<1>1. Len(s) \in Nat /\ \A k \in 1 .. Len(s) : s[k] \in Prompts
  BY LenProperties
<1>2. Len(s) - m + 1 \in Nat /\ \A i \in m .. Len(s) : s[i] \in Prompts
  BY <1>1
<1>3. /\ SubSeq(s, m, Len(s)) \in Seq(Prompts)
      /\ Len(SubSeq(s, m, Len(s))) = Len(s) - m + 1
      /\ \A i \in 1 .. Len(s) - m + 1 : SubSeq(s, m, Len(s))[i] = s[m + i - 1]
  BY <1>1, <1>2, SubSeqProperties
<1>4. \A i \in 1 .. Len(s) - m + 1 : m + i - 1 \in 1 .. Len(s)
  BY <1>1
<1>5. QED
  BY <1>3, <1>4

LEMMA AddedKept ==
    ASSUME NEW s \in Seq(Prompts), NEW p \in Prompts
    PROVE  \A i \in 1 .. Len(Append(s, p)) :
               Append(s, p)[i] = p \/ \E k \in 1 .. Len(s) : Append(s, p)[i] = s[k]
<1>1. /\ Len(s) \in Nat /\ Len(Append(s, p)) = Len(s) + 1
      /\ \A k \in 1 .. Len(s) : Append(s, p)[k] = s[k]
      /\ Append(s, p)[Len(s) + 1] = p
  BY LenProperties, AppendProperties
<1>2. \A i \in 1 .. Len(s) + 1 : i \in 1 .. Len(s) \/ i = Len(s) + 1
  BY <1>1
<1>3. QED
  BY <1>1, <1>2

LEMMA LatestKept ==
    ASSUME IInv, NEW i \in Kept
    PROVE  /\ i \in 1 .. Len(worker.prompts) /\ worker.prompts[i] \in Prompts
           /\ Latest(i) \in Seq(Prompts)
           /\ \A k \in 1 .. Len(Latest(i)) :
                 \E l \in 1 .. Len(worker.prompts) : Latest(i)[k] = worker.prompts[l]
<1> DEFINE s == worker.prompts
<1>1. s \in Seq(Prompts) /\ Len(s) \in Nat /\ DOMAIN s = 1 .. Len(s)
  BY Facts, LenProperties
<1>2. i \in 1 .. Len(s) /\ s[i] \in Prompts
  BY <1>1 DEF Kept
<1>3. /\ Latest(i) = [k \in 1 .. Len(s) |-> s[IF k < i THEN k ELSE IF k < Len(s) THEN k + 1 ELSE i]]
      /\ \A k \in 1 .. Len(s) :
            (IF k < i THEN k ELSE IF k < Len(s) THEN k + 1 ELSE i) \in 1 .. Len(s)
  BY <1>1, <1>2 DEF Latest
<1>4. Latest(i) \in [1 .. Len(s) -> Prompts]
  BY <1>1, <1>3
<1>5. Latest(i) \in Seq(Prompts) /\ Len(Latest(i)) = Len(s)
  BY <1>1, <1>4
<1>6. QED
  BY <1>2, <1>3, <1>5

(* A kept prompt is used, or the recording is about to be read, or read.    *)
LEMMA UsesPrompt ==
    ASSUME IInv, Busy, NEW i \in Kept, NEW s \in Seq(Prompts), Uses(i, s)
    PROVE  /\ worker' \in Workers /\ worker'.kind = worker.kind /\ worker'.prompts = s
           /\ worker'.job.pc = "stream" /\ worker'.job.voice = worker.prompts[i].voice
           /\ worker'.job.of = worker.job.of /\ worker'.job.at = worker.job.at
           /\ worker'.job.wav = worker.job.wav /\ worker'.job.given = worker.job.given
<1>1. worker \in Workers /\ worker.job \in Jobs /\ worker.prompts[i].voice \in Recordings
  BY Facts, LatestKept DEF Prompts
<1>2. QED
  BY <1>1 DEF Uses, Workers, Jobs

LEMMA ReadsPrompt ==
    ASSUME IInv, Busy, NEW s \in Seq(Prompts), Reads(s)
    PROVE  /\ worker' \in Workers /\ worker'.kind = worker.kind /\ worker'.prompts = s
           /\ worker'.job.pc = "read" /\ worker'.job.voice = worker.job.voice
           /\ worker'.job.key = ConditioningKey(Ref)
           /\ worker'.job.of = worker.job.of /\ worker'.job.at = worker.job.at
           /\ worker'.job.wav = worker.job.wav /\ worker'.job.given = worker.job.given
<1>1. worker \in Workers /\ worker.job \in Jobs /\ ConditioningKey(Ref) \in Recordings
  BY Facts, JobFacts, Constants DEF ConditioningKey, Recordings, Nothing
<1>2. QED
  BY <1>1 DEF Reads, Workers, Jobs

LEMMA KeepsPrompt ==
    ASSUME IInv, Busy, NEW s \in Seq(Prompts), Keeps(s)
    PROVE  /\ worker' \in Workers /\ worker'.kind = worker.kind
           /\ worker'.prompts = Append(s, [at |-> worker.job.at, key |-> worker.job.key,
                                           voice |-> Ref])
           /\ [at |-> worker.job.at, key |-> worker.job.key, voice |-> Ref] \in Prompts
           /\ worker'.job.pc = "stream" /\ worker'.job.voice = Ref
           /\ worker'.job.of = worker.job.of /\ worker'.job.at = worker.job.at
           /\ worker'.job.wav = worker.job.wav /\ worker'.job.given = worker.job.given
<1> DEFINE p == [at |-> worker.job.at, key |-> worker.job.key, voice |-> Ref]
<1>1. worker \in Workers /\ worker.job \in Jobs /\ Ref \in Recordings /\ Nothing \in Recordings
  BY Facts, JobFacts, Constants DEF Recordings, Nothing
<1>2. p \in Prompts
  BY <1>1, JobFacts DEF Prompts, Jobs
<1>3. Append(s, p) \in Seq(Prompts)
  BY <1>2, AppendProperties
<1>4. /\ worker' = [worker EXCEPT !.prompts = Append(s, p), !.job.pc = "stream",
                                  !.job.voice = Ref, !.job.key = Nothing]
  BY DEF Keeps, Job
<1> HIDE DEF p
<1>5. /\ worker' \in Workers /\ worker'.kind = worker.kind /\ worker'.prompts = Append(s, p)
      /\ worker'.job.pc = "stream" /\ worker'.job.voice = Ref
      /\ worker'.job.of = worker.job.of /\ worker'.job.at = worker.job.at
      /\ worker'.job.wav = worker.job.wav /\ worker'.job.given = worker.job.given
  BY <1>1, <1>3, <1>4 DEF Workers, Jobs
<1>6. QED
  BY <1>2, <1>5 DEF p

LEMMA OmniVoiceKeeps ==
    ASSUME IInv, UNCHANGED <<req, active, uploads, reused, overlap>>, OmniVoicePrompt
    PROVE  IInv'
<1>1. worker.kind = "omnivoice" /\ Busy /\ dir' = dir
  BY DEF OmniVoicePrompt
<1>2. <<>> \in Seq(Prompts) /\ worker.prompts \in Seq(Prompts)
  BY Facts
<1>3. CASE \E i \in Kept : Uses(i, worker.prompts)
  <2>1. /\ worker' \in Workers /\ worker'.kind = worker.kind
        /\ worker'.job.pc # "none"
        /\ worker'.job.of = worker.job.of /\ worker'.job.at = worker.job.at
        /\ worker'.job.wav = worker.job.wav /\ worker'.job.given = worker.job.given
    BY <1>1, <1>2, <1>3, UsesPrompt
  <2>2. QED
    BY <1>1, <2>1, DriverThinks
<1>4. CASE Reads(<<>>)
  <2>1. /\ worker' \in Workers /\ worker'.kind = worker.kind
        /\ worker'.job.pc # "none"
        /\ worker'.job.of = worker.job.of /\ worker'.job.at = worker.job.at
        /\ worker'.job.wav = worker.job.wav /\ worker'.job.given = worker.job.given
    BY <1>1, <1>2, <1>4, ReadsPrompt
  <2>2. QED
    BY <1>1, <2>1, DriverThinks
<1>5. CASE Keeps(<<>>)
  <2>1. /\ worker' \in Workers /\ worker'.kind = worker.kind
        /\ worker'.job.pc # "none"
        /\ worker'.job.of = worker.job.of /\ worker'.job.at = worker.job.at
        /\ worker'.job.wav = worker.job.wav /\ worker'.job.given = worker.job.given
    BY <1>1, <1>2, <1>5, KeepsPrompt
  <2>2. QED
    BY <1>1, <2>1, DriverThinks
<1>6. QED
  BY <1>3, <1>4, <1>5 DEF OmniVoicePrompt

(* XTTS: a prompt that is found has the size and time of the present        *)
(* recording, and so its voice; one that is kept has the key of a recording *)
(* read before it, which is the same or past.                               *)
LEMMA XttsKeeps ==
    ASSUME IInv, UNCHANGED <<req, active, uploads, reused, overlap>>, XttsConditioning
    PROVE  IInv'
<1>1. worker.kind = "xtts" /\ Busy /\ Ref # Nothing /\ dir' = dir
  BY DEF XttsConditioning
<1>2. worker.prompts \in Seq(Prompts) /\ Len(worker.prompts) \in Nat
  BY Facts, LenProperties
<1>3. \A i \in 1 .. Len(worker.prompts) : PromptOk(dir, uploads, worker.prompts[i])
  BY <1>1, PromptsOk
<1>4. ASSUME NEW i \in Kept, Uses(i, Latest(i))
      PROVE  IInv'
  <2>1. /\ worker' \in Workers /\ worker'.kind = worker.kind
        /\ worker'.prompts = Latest(i)
        /\ worker'.job.pc = "stream" /\ worker'.job.voice = worker.prompts[i].voice
        /\ worker'.job.of = worker.job.of /\ worker'.job.at = worker.job.at
        /\ worker'.job.wav = worker.job.wav /\ worker'.job.given = worker.job.given
    BY <1>1, <1>4, LatestKept, UsesPrompt
  <2>2. worker.prompts[i].at = worker.job.at /\ worker.prompts[i].key = Ref
    BY <1>1 DEF Kept, IsKept, ConditioningKey, Job
  <2>3. worker'.job.voice = Ref
    BY <1>1, <1>3, <2>1, <2>2, LatestKept, JobFacts DEF PromptOk, Past
  <2>4. ~Keyed(worker'.job)
    BY <2>1 DEF Keyed
  <2>5. /\ worker.job.of # Nobody => VoiceOk(dir, uploads, worker'.job, req[worker.job.of])
        /\ ~overlap => SpeaksOk(dir, worker'.job)
    BY <1>1, <2>1, <2>3, <2>4, GoesOn
  <2>6. \A k \in 1 .. Len(worker'.prompts) : PromptOk(dir, uploads, worker'.prompts[k])
    BY <1>3, <2>1, LatestKept
  <2>7. QED
    BY <1>1, <2>1, <2>4, <2>5, <2>6, DriverThinks
<1>5. CASE Reads(worker.prompts)
  <2>1. /\ worker' \in Workers /\ worker'.kind = worker.kind
        /\ worker'.prompts = worker.prompts
        /\ worker'.job.pc = "read" /\ worker'.job.voice = worker.job.voice
        /\ worker'.job.key = Ref
        /\ worker'.job.of = worker.job.of /\ worker'.job.at = worker.job.at
        /\ worker'.job.wav = worker.job.wav /\ worker'.job.given = worker.job.given
    BY <1>1, <1>2, <1>5, ReadsPrompt DEF ConditioningKey
  <2>2. /\ Keyed(worker'.job) => Seen(dir, uploads, worker.job.at, worker'.job.key)
        /\ worker.job.of # Nobody => VoiceOk(dir, uploads, worker'.job, req[worker.job.of])
        /\ ~overlap => SpeaksOk(dir, worker'.job)
    BY <1>1, <2>1, GoesOn
  <2>3. QED
    BY <1>1, <1>3, <2>1, <2>2, DriverThinks
<1>6. ASSUME Job.pc = "read",
             Keeps(IF Len(worker.prompts) = CacheSize THEN Newest(worker.prompts)
                   ELSE worker.prompts)
      PROVE  IInv'
  <2> DEFINE s == IF Len(worker.prompts) = CacheSize THEN Newest(worker.prompts)
                  ELSE worker.prompts
             p == [at |-> worker.job.at, key |-> worker.job.key, voice |-> Ref]
  <2>1. /\ s \in Seq(Prompts)
        /\ \A k \in 1 .. Len(s) : \E l \in 1 .. Len(worker.prompts) : s[k] = worker.prompts[l]
    <3>1. CASE Len(worker.prompts) = CacheSize
      <4>1. /\ CacheSize \in Nat /\ CacheSize > 0
            /\ Len(worker.prompts) - CacheSize + 2 = 2
            /\ 2 <= Len(worker.prompts) + 1
        BY <1>2, <3>1, Constants
      <4>2. s = SubSeq(worker.prompts, 2, Len(worker.prompts))
        BY <3>1, <4>1 DEF Newest
      <4> HIDE DEF s
      <4>3. 2 \in Nat /\ 1 <= 2
        OBVIOUS
      <4>4. /\ SubSeq(worker.prompts, 2, Len(worker.prompts)) \in Seq(Prompts)
            /\ \A k \in 1 .. Len(SubSeq(worker.prompts, 2, Len(worker.prompts))) :
                  \E l \in 1 .. Len(worker.prompts) :
                      SubSeq(worker.prompts, 2, Len(worker.prompts))[k] = worker.prompts[l]
        BY <1>2, <4>1, <4>3, SuffixKept
      <4>5. QED
        BY <4>2, <4>4
    <3>2. CASE Len(worker.prompts) # CacheSize
      BY <1>2, <3>2
    <3>3. QED
      BY <3>1, <3>2
  <2>2. Keeps(s)
    BY <1>6
  <2> HIDE DEF s
  <2>3. /\ worker' \in Workers /\ worker'.kind = worker.kind
        /\ worker'.prompts = Append(s, p) /\ p \in Prompts
        /\ worker'.job.pc = "stream" /\ worker'.job.voice = Ref
        /\ worker'.job.of = worker.job.of /\ worker'.job.at = worker.job.at
        /\ worker'.job.wav = worker.job.wav /\ worker'.job.given = worker.job.given
    BY <1>1, <2>1, <2>2, KeepsPrompt
  <2>4. PromptOk(dir, uploads, p)
    <3>1. Seen(dir, uploads, worker.job.at, worker.job.key)
      BY <1>1, <1>6 DEF IInv, KeyInv, Keyed, Job
    <3>2. QED
      BY <1>1, <3>1, JobFacts, SeenIsPresentOrPast DEF PromptOk
  <2> HIDE DEF p
  <2>5. \A k \in 1 .. Len(worker'.prompts) : PromptOk(dir, uploads, worker'.prompts[k])
    <3>1. Len(s) \in Nat
      BY <2>1, LenProperties
    <3>2. \A k \in 1 .. Len(Append(s, p)) :
            Append(s, p)[k] = p \/ \E l \in 1 .. Len(s) : Append(s, p)[k] = s[l]
      BY <2>1, <2>3, <3>1, AddedKept
    <3>3. QED
      BY <1>3, <2>1, <2>3, <2>4, <3>2
  <2>6. ~Keyed(worker'.job)
    BY <2>3 DEF Keyed
  <2>7. /\ worker.job.of # Nobody => VoiceOk(dir, uploads, worker'.job, req[worker.job.of])
        /\ ~overlap => SpeaksOk(dir, worker'.job)
    BY <1>1, <2>3, <2>6, GoesOn
  <2>8. QED
    BY <1>1, <2>3, <2>5, <2>6, <2>7, DriverThinks
<1>7. QED
  BY <1>4, <1>5, <1>6 DEF XttsConditioning

(* Native Higgs digests the recording, and then looks at what is kept under *)
(* the digest.                                                              *)
LEMMA DigestsKeeps ==
    ASSUME IInv, UNCHANGED <<req, active, uploads, reused, overlap>>,
           Digests \/ EngineEmits
    PROVE  IInv'
<1>1. Busy /\ dir' = dir /\ worker.kind = "higgs"
  BY DEF Digests, EngineEmits, At, Busy
<1>2. worker \in Workers /\ worker.job \in Jobs /\ Ref \in Recordings
  BY <1>1, Facts, JobFacts
<1>3. CASE Digests
  <2>1. Ref # Nothing /\ worker' = [worker EXCEPT !.job.pc = "clip", !.job.key = Ref]
    BY <1>3 DEF Digests
  <2>2. /\ worker' \in Workers /\ worker'.kind = worker.kind
        /\ worker'.prompts = worker.prompts
        /\ worker'.job.pc = "clip" /\ worker'.job.voice = worker.job.voice
        /\ worker'.job.key = Ref
        /\ worker'.job.of = worker.job.of /\ worker'.job.at = worker.job.at
        /\ worker'.job.wav = worker.job.wav /\ worker'.job.given = worker.job.given
    BY <1>2, <2>1 DEF Workers, Jobs
  <2>3. /\ Keyed(worker'.job) => Seen(dir, uploads, worker.job.at, worker'.job.key)
        /\ worker.job.of # Nobody => VoiceOk(dir, uploads, worker'.job, req[worker.job.of])
        /\ ~overlap => SpeaksOk(dir, worker'.job)
    BY <1>1, <2>1, <2>2, GoesOn
  <2>4. QED
    BY <1>1, <2>2, <2>3, PromptsOk, DriverThinks
<1>4. CASE EngineEmits
  <2>1. worker.job.pc = "stream" /\ worker' = [worker EXCEPT !.job.ahead = @ + 1]
    BY <1>4 DEF EngineEmits, At, Job
  <2>2. /\ worker' \in Workers /\ worker'.kind = worker.kind
        /\ worker'.prompts = worker.prompts
        /\ worker'.job.pc = "stream" /\ worker'.job.voice = worker.job.voice
        /\ worker'.job.of = worker.job.of /\ worker'.job.at = worker.job.at
        /\ worker'.job.wav = worker.job.wav /\ worker'.job.given = worker.job.given
    BY <1>2, <2>1 DEF Workers, Jobs
  <2>3. ~Keyed(worker'.job)
    BY <2>2 DEF Keyed
  <2>4. /\ worker.job.of # Nobody => VoiceOk(dir, uploads, worker'.job, req[worker.job.of])
        /\ ~overlap => SpeaksOk(dir, worker'.job)
    BY <1>1, <2>2, <2>3, GoesOn
  <2>5. QED
    BY <1>1, <2>2, <2>3, <2>4, PromptsOk, DriverThinks
<1>5. QED
  BY <1>3, <1>4

(* What it leaves beside the recording is of the key's recording.           *)
LEMMA SpeakerFiles ==
    ASSUME IInv, Busy, Ref # Nothing, NEW x \in Directories, UNCHANGED uploads,
           dir' = [dir EXCEPT ![worker.job.at] = x],
           x.ref = Ref, x.sample = dir[worker.job.at].sample,
           x.caches = dir[worker.job.at].caches, x.cache = dir[worker.job.at].cache,
           \A u \in Upload : \/ x.speaker[u] = dir[worker.job.at].speaker[u]
                             \/ IsOf(dir, uploads, x.speaker[u], worker.job.at, u)
    PROVE  /\ dir' \in [Place -> Directories] /\ DirInv'
           /\ \A d \in Place : /\ dir'[d].ref = dir[d].ref /\ dir'[d].sample = dir[d].sample
                               /\ dir'[d].cache = dir[d].cache /\ Calm(dir, dir', d)
<1> DEFINE at == worker.job.at
<1>1. at \in Place /\ Ref = dir[at].ref
  BY JobFacts
<1>2. /\ dir' \in [Place -> Directories] /\ dir'[at] = x
      /\ \A d \in Place : d # at => dir'[d] = dir[d]
  BY <1>1, Facts
<1>3. \A d \in Place : dir'[d].ref = dir[d].ref
  BY <1>1, <1>2
<1>4. Moves(dir, uploads, dir', uploads')
  BY <1>2, <1>3, NoMove DEF IInv
<1>5. ASSUME NEW d \in Place
      PROVE  Stored(dir', uploads', d)
  <2>1. Stored(dir, uploads, d)
    BY DEF IInv, DirInv
  <2>2. dir'[d].ref # Nothing => Seen(dir', uploads', d, dir'[d].ref)
    BY <1>3, <1>4, <2>1, SeenKept DEF Stored
  <2>3. \A u \in Upload : IsOf(dir, uploads, dir'[d].speaker[u], d, u)
    BY <1>2, <2>1 DEF Stored
  <2>4. \A u \in Upload : IsOf(dir', uploads', dir'[d].speaker[u], d, u)
    BY <1>4, <2>3, IsOfKept
  <2>5. dir'[d].ref = Nothing => d # at
    BY <1>1, <1>3
  <2>6. QED
    BY <1>2, <1>3, <2>1, <2>2, <2>4, <2>5 DEF Stored
<1>6. ASSUME NEW d \in Place
      PROVE  /\ dir'[d].ref = dir[d].ref /\ dir'[d].sample = dir[d].sample
             /\ dir'[d].cache = dir[d].cache /\ Calm(dir, dir', d)
  <2>1. CASE d = at
    BY <1>1, <1>2, <2>1 DEF Calm
  <2>2. CASE d # at
    BY <1>2, <2>2, Facts, SameIsCalm
  <2>3. QED
    BY <2>1, <2>2
<1>7. QED
  BY <1>2, <1>5, <1>6 DEF DirInv

LEMMA ClipsKeeps ==
    ASSUME IInv, UNCHANGED <<req, active, uploads, reused, overlap>>, Clips
    PROVE  IInv'
<1> DEFINE at == worker.job.at
           u == worker.job.key
           f == [dir[at] EXCEPT !.made = TRUE]
           g == [dir[at] EXCEPT !.made = TRUE,
                                !.speaker[u] = IF @ = Nothing THEN Ref ELSE @]
<1>1. /\ Busy /\ worker.kind = "higgs" /\ Ref # Nothing /\ worker.job.pc = "clip"
      /\ \/ dir' = [dir EXCEPT ![at] = g] /\ Goes("clipped", Nothing)
         \/ dir' = [dir EXCEPT ![at] = f] /\ Goes("whole", Nothing)
  <2>1. Busy /\ worker.kind = "higgs" /\ Ref # Nothing /\ worker.job.pc = "clip"
    BY DEF Clips, At, Busy, Job
  <2>2. CASE Ref \in Long
    BY <2>2, JobFacts, <2>1, Facts DEF Clips, Job
  <2>3. CASE Ref \notin Long
    BY <2>3, JobFacts, <2>1, Facts DEF Clips, Job
  <2>4. QED
    BY <2>1, <2>2, <2>3
<1>2. /\ at \in Place /\ dir[at] \in Directories /\ Ref = dir[at].ref
      /\ Ref \in Recordings /\ Nothing \in Recordings
  BY <1>1, JobFacts, Constants DEF Recordings, Nothing
<1>3. Keyed(worker.job) /\ Seen(dir, uploads, at, u)
  BY <1>1 DEF IInv, KeyInv, Keyed
<1>4. u \in Upload /\ IsOf(dir, uploads, Ref, at, u)
  BY <1>2, <1>3, Facts, Constants, SeenIsPresentOrPast
  DEF Seen, Upload, Recordings, IsOf
<1>5. /\ f \in Directories /\ f.ref = Ref /\ f.sample = dir[at].sample
      /\ f.caches = dir[at].caches /\ f.cache = dir[at].cache
      /\ f.speaker = dir[at].speaker
  BY <1>2 DEF Directories
<1>6. /\ g \in Directories /\ g.ref = Ref /\ g.sample = dir[at].sample
      /\ g.caches = dir[at].caches /\ g.cache = dir[at].cache
      /\ \A w \in Upload : g.speaker[w] = dir[at].speaker[w] \/ (w = u /\ g.speaker[w] = Ref)
  BY <1>2, <1>4 DEF Directories
<1> HIDE DEF f, g
<1>7. /\ dir' \in [Place -> Directories] /\ DirInv'
      /\ \A d \in Place : /\ dir'[d].ref = dir[d].ref /\ dir'[d].sample = dir[d].sample
                          /\ dir'[d].cache = dir[d].cache /\ Calm(dir, dir', d)
  <2>1. CASE dir' = [dir EXCEPT ![at] = f]
    BY <1>1, <1>5, <2>1, SpeakerFiles
  <2>2. CASE dir' = [dir EXCEPT ![at] = g]
    <3>1. \A w \in Upload : \/ g.speaker[w] = dir[at].speaker[w]
                            \/ IsOf(dir, uploads, g.speaker[w], at, w)
      BY <1>4, <1>6
    <3>2. QED
      BY <1>1, <1>6, <2>2, <3>1, SpeakerFiles
  <2>3. QED
    BY <1>1, <2>1, <2>2
<1>8. /\ worker' \in Workers /\ worker'.kind = worker.kind
      /\ worker'.prompts = worker.prompts
      /\ worker'.job.pc \in {"clipped", "whole"} /\ worker'.job.voice = Nothing
      /\ worker'.job.key = u
      /\ worker'.job.of = worker.job.of /\ worker'.job.at = at
      /\ worker'.job.wav = worker.job.wav /\ worker'.job.given = worker.job.given
  BY <1>1, <1>2, GoesTo
<1>9. /\ Keyed(worker'.job) => Seen(dir, uploads, worker.job.at, worker'.job.key)
      /\ worker.job.of # Nobody => VoiceOk(dir, uploads, worker'.job, req[worker.job.of])
      /\ ~overlap => SpeaksOk(dir, worker'.job)
  BY <1>1, <1>3, <1>8, GoesOn
<1>10. \A i \in 1 .. Len(worker'.prompts) : PromptOk(dir, uploads, worker'.prompts[i])
  BY <1>1, <1>8, PromptsOk
<1>11. worker.job.pc # "none" /\ worker'.job.pc # "none"
  BY <1>1, <1>8
<1>12. QED
  BY <1>7, <1>8, <1>9, <1>10, <1>11, DriverMoves

LEMMA GeneratesKeeps ==
    ASSUME IInv, UNCHANGED <<req, active, uploads, reused, overlap>>, Generates
    PROVE  IInv'
<1> DEFINE at == worker.job.at
           u == worker.job.key
           g == [dir[at] EXCEPT !.speaker[u] = Ref]
<1>1. /\ Busy /\ worker.kind = "higgs" /\ Keyed(worker.job)
      /\ Speaker = dir[at].speaker[u]
      /\ \/ Speaker # Nothing /\ Goes("stream", Speaker) /\ dir' = dir
         \/ Ref # Nothing /\ Goes("stream", Ref) /\ dir' = [dir EXCEPT ![at] = g]
  <2>1. /\ Busy /\ worker.kind = "higgs" /\ Keyed(worker.job)
        /\ Speaker = dir[at].speaker[u]
    BY DEF Generates, At, Busy, Job, Keyed, Speaker
  <2>2. CASE Speaker # Nothing \/ Job.pc = "clipped"
    BY <2>1, <2>2 DEF Generates
  <2>3. CASE ~(Speaker # Nothing \/ Job.pc = "clipped")
    BY <2>1, <2>3, JobFacts, Facts DEF Generates, Job
  <2>4. QED
    BY <2>1, <2>2, <2>3
<1>2. /\ at \in Place /\ dir[at] \in Directories /\ Ref = dir[at].ref
      /\ Ref \in Recordings
  BY <1>1, JobFacts
<1>3. Seen(dir, uploads, at, u)
  BY <1>1 DEF IInv, KeyInv
<1>4. u \in Upload /\ IsOf(dir, uploads, Ref, at, u)
  BY <1>2, <1>3, Facts, Constants, SeenIsPresentOrPast
  DEF Seen, Upload, Recordings, IsOf
<1>5. /\ Speaker \in Recordings /\ IsOf(dir, uploads, Speaker, at, u)
      /\ Speaker # Nothing => Ref # Nothing
  BY <1>1, <1>2, <1>4 DEF Directories, IInv, DirInv, Stored
<1>6. /\ g \in Directories /\ g.ref = Ref /\ g.sample = dir[at].sample
      /\ g.caches = dir[at].caches /\ g.cache = dir[at].cache
      /\ \A w \in Upload : g.speaker[w] = dir[at].speaker[w] \/ (w = u /\ g.speaker[w] = Ref)
  BY <1>2, <1>4 DEF Directories
<1> HIDE DEF g
<1>7. /\ dir' \in [Place -> Directories] /\ DirInv'
      /\ \A d \in Place : /\ dir'[d].ref = dir[d].ref /\ dir'[d].sample = dir[d].sample
                          /\ dir'[d].cache = dir[d].cache /\ Calm(dir, dir', d)
  <2>1. CASE dir' = dir
    BY <2>1, Facts, SameIsCalm DEF IInv, DirInv
  <2>2. CASE Ref # Nothing /\ dir' = [dir EXCEPT ![at] = g]
    <3>1. \A w \in Upload : \/ g.speaker[w] = dir[at].speaker[w]
                            \/ IsOf(dir, uploads, g.speaker[w], at, w)
      BY <1>4, <1>6
    <3>2. QED
      BY <1>1, <1>6, <2>2, <3>1, SpeakerFiles
  <2>3. QED
    BY <1>1, <2>1, <2>2
<1>8. /\ worker' \in Workers /\ worker'.kind = worker.kind
      /\ worker'.prompts = worker.prompts
      /\ worker'.job.pc = "stream" /\ Ref # Nothing
      /\ worker'.job.voice = Ref \/ worker'.job.voice = Speaker
      /\ worker'.job.of = worker.job.of /\ worker'.job.at = at
      /\ worker'.job.wav = worker.job.wav /\ worker'.job.given = worker.job.given
  BY <1>1, <1>2, <1>5, GoesTo
<1>9. ~Keyed(worker'.job)
  BY <1>8 DEF Keyed
<1>10. /\ worker.job.of # Nobody => VoiceOk(dir, uploads, worker'.job, req[worker.job.of])
       /\ ~overlap => SpeaksOk(dir, worker'.job)
  BY <1>1, <1>5, <1>8, <1>9, GoesOn
<1>11. \A i \in 1 .. Len(worker'.prompts) : PromptOk(dir, uploads, worker'.prompts[i])
  BY <1>1, <1>8, PromptsOk
<1>12. worker.job.pc # "none" /\ worker'.job.pc # "none"
  BY <1>1, <1>8 DEF Busy, Job
<1>13. QED
  BY <1>7, <1>8, <1>9, <1>10, <1>11, <1>12, DriverMoves

LEMMA DrivesKeeps ==
    ASSUME IInv, Drives
    PROVE  IInv'
<1>1. DriverStep /\ UNCHANGED <<req, active, uploads, reused, overlap>>
  BY DEF Drives, Settled
<1>2. QED
  BY <1>1, LoadsKeeps, OmniVoiceKeeps, XttsKeeps, DigestsKeeps, ClipsKeeps,
     GeneratesKeeps, ProxyKeeps
  DEF DriverStep

-----------------------------------------------------------------------------
(* Requests that wait go on.                                                *)

LEMMA IdleIsOk ==
    /\ RequestOk(dir, uploads, Idle) /\ AnswerOk(dir, uploads, Idle)
    /\ Idle.kind = "none" /\ Idle.pc = "idle" /\ Idle.out = <<>>
  BY DEF RequestOk, AnswerOk, Idle

LEMMA RequestsAreOk ==
    ASSUME IInv
    PROVE  \A s \in Req :
              /\ RequestOk(dir, uploads, req[s])
              /\ worker.kind # "omnivoice" =>
                    /\ AnswerOk(dir, uploads, req[s])
                    /\ ~overlap /\ req[s].pc = "answered" =>
                          Speaks(dir, req[s].read, req[s].at)
              /\ req[s].pc # "idle" => req[s].at \in Place
<1>1. \A s \in Req : RequestOk(dir, uploads, req[s])
  BY DEF IInv, RequestInv
<1>2. \A s \in Req : req[s].pc # "idle" => req[s].at \in Place
  BY <1>1, Facts, Constants DEF RequestOk, Requests
<1>3. QED
  BY <1>1, <1>2 DEF IInv, KeyInv, VoiceInv

(* Requests are dropped, or their answer breaks off.                        *)
LEMMA RequestsEnd ==
    ASSUME IInv, UNCHANGED <<dir, active, uploads, reused, overlap>>,
           worker' \in Workers, worker'.kind = worker.kind,
           worker'.prompts = worker.prompts \/ worker'.prompts = <<>>,
           \/ worker'.job = NoJob
           \/ /\ worker'.job = worker.job
              /\ worker.job.of # Nobody => req'[worker.job.of] = req[worker.job.of]
           \/ /\ worker'.job = [worker.job EXCEPT !.of = Nobody]
              /\ worker.job.of # Nobody /\ req'[worker.job.of] = Idle,
           req' \in [Req -> Requests],
           \A s \in Req :
               \/ req'[s] = req[s]
               \/ req'[s] = Idle
               \/ /\ req'[s].kind = req[s].kind
                  /\ RequestOk(dir, uploads, req'[s]) /\ req'[s].pc # "answered"
    PROVE  IInv'
<1>1. /\ dir' \in [Place -> Directories] /\ DirInv'
      /\ \A d \in Place : dir'[d].ref = dir[d].ref
      /\ \A d \in Place : Calm(dir, dir', d)
  BY Facts, SameIsCalm DEF IInv, DirInv
<1>2. \A s \in Req : /\ RequestOk(dir, uploads, req'[s])
                     /\ req'[s].kind \in {req[s].kind, "none"}
  BY IdleIsOk, RequestsAreOk
<1>3. worker.kind # "omnivoice" =>
        /\ \A d \in Place : \A u \in Upload :
              IsOf(dir, uploads, dir'[d].cache[u], d, u)
        /\ \A s \in Req : AnswerOk(dir, uploads, req'[s])
        /\ ~overlap =>
              /\ \A s \in Req : req'[s].pc = "answered" =>
                    Speaks(dir', req'[s].read, req'[s].at)
              /\ ~reused => \A d \in Place : SampleOk(dir', d)
  <2> SUFFICES ASSUME worker.kind # "omnivoice"
               PROVE  /\ \A d \in Place : \A u \in Upload :
                            IsOf(dir, uploads, dir'[d].cache[u], d, u)
                      /\ \A s \in Req : AnswerOk(dir, uploads, req'[s])
                      /\ ~overlap =>
                            /\ \A s \in Req : req'[s].pc = "answered" =>
                                  Speaks(dir', req'[s].read, req'[s].at)
                            /\ ~reused => \A d \in Place : SampleOk(dir', d)
    OBVIOUS
  <2>1. \A d \in Place : \A u \in Upload : IsOf(dir, uploads, dir'[d].cache[u], d, u)
    BY DEF IInv, KeyInv
  <2>2. \A s \in Req : AnswerOk(dir, uploads, req'[s])
    BY IdleIsOk, RequestsAreOk DEF AnswerOk
  <2>3. ~overlap => \A s \in Req : req'[s].pc = "answered" =>
                        Speaks(dir', req'[s].read, req'[s].at)
    BY IdleIsOk, RequestsAreOk
  <2>4. ~overlap /\ ~reused => \A d \in Place : SampleOk(dir', d)
    BY DEF IInv, VoiceInv
  <2>5. QED
    BY <2>1, <2>2, <2>3, <2>4
<1>4. QED
  BY <1>1, <1>2, <1>3, RequestsMove

LEMMA WorksKeeps ==
    ASSUME IInv, NEW r \in Req, Works(r)
    PROVE  IInv'
<1> DEFINE j == [NoJob EXCEPT !.of = r, !.at = req[r].at,
                              !.wav = (req[r].kind # "speak"), !.pc = "start"]
           q == [req[r] EXCEPT !.pc = "working"]
<1>1. /\ req[r].pc = "asked" /\ worker.job.pc = "none"
      /\ worker' = [worker EXCEPT !.job = j] /\ req' = [req EXCEPT ![r] = q]
      /\ UNCHANGED <<dir, active, uploads, reused, overlap>>
  BY DEF Works, Begins, Goto, Settled, Busy, Job
<1>2. /\ RequestOk(dir, uploads, req[r]) /\ req[r].at \in Place
      /\ req[r] \in Requests /\ worker \in Workers
  BY <1>1, RequestsAreOk, Facts
<1>3. /\ q \in Requests /\ q.pc = "working" /\ q.kind = req[r].kind /\ q.at = req[r].at
      /\ q.key = req[r].key /\ q.out = req[r].out /\ q.attempt = req[r].attempt
  BY <1>2 DEF Requests
<1>4. /\ j \in Jobs /\ j.pc = "start" /\ j.of = r /\ j.at = req[r].at
      /\ j.wav = (req[r].kind # "speak") /\ j.voice = Nothing /\ j.given = 0
      /\ ~Keyed(j)
  BY <1>2, Records DEF Jobs, NoJob, Keyed
<1> HIDE DEF j, q
<1>5. /\ worker' \in Workers /\ worker'.job = j /\ worker'.kind = worker.kind
      /\ worker'.prompts = worker.prompts
  BY <1>1, <1>2, <1>4 DEF Workers
<1>6. /\ req' \in [Req -> Requests] /\ req'[r] = q
      /\ \A s \in Req : s # r => req'[s] = req[s]
  BY <1>1, <1>3, Facts
<1>7. Types' /\ DirInv'
  BY <1>1, <1>5, <1>6 DEF IInv, Types, DirInv
<1>8. RequestOk(dir, uploads, q)
  BY <1>1, <1>2, <1>3 DEF RequestOk
<1>9. RequestInv'
  BY <1>1, <1>6, <1>8 DEF IInv, RequestInv
<1>10. JobInv'
  <2>1. Serves(j, q)
    BY <1>1, <1>2, <1>3, <1>4 DEF Serves, RequestOk
  <2>2. QED
    BY <1>2, <1>4, <1>5, <1>6, <2>1 DEF JobInv
<1>11. KeyInv'
  <2>1. VoiceOk(dir, uploads, j, q)
    BY <1>4 DEF VoiceOk, IsOf
  <2>2. worker.kind # "omnivoice" => AnswerOk(dir, uploads, q)
    BY <1>3 DEF AnswerOk
  <2>3. QED
    BY <1>1, <1>4, <1>5, <1>6, <2>1, <2>2 DEF IInv, KeyInv
<1>12. VoiceInv'
  <2>1. SpeaksOk(dir, j)
    BY <1>4 DEF SpeaksOk, Speaks
  <2>2. ~overlap => StageAlone(j, req')
    <3>1. r \in Req /\ (req[r].at = Staging => req[r].kind = "stage")
      BY <1>1, <1>2, Constants DEF RequestOk, Requests
    <3>2. \A s \in Req : req'[s].kind = req[s].kind
      BY <1>3, <1>6
    <3>3. QED
      BY <1>4, <3>1, <3>2 DEF IInv, VoiceInv, StageAlone
  <2>3. QED
    BY <1>1, <1>3, <1>5, <1>6, <2>1, <2>2 DEF IInv, VoiceInv
<1>13. QED
  BY <1>7, <1>9, <1>10, <1>11, <1>12 DEF IInv

(* A piece is the next one of this attempt.                                 *)
LEMMA PieceKeeps ==
    ASSUME IInv, Piece
    PROVE  IInv'
<1> DEFINE j == worker'.job
<1>1. /\ worker.job.pc = "stream" /\ worker.job.wav = FALSE
      /\ UNCHANGED <<dir, active, uploads, reused, overlap>>
      /\ worker \in Workers /\ worker.job \in Jobs
  BY Facts DEF Piece, Yields, Settled, Job, Jobs
<1>2. /\ worker' \in Workers /\ worker'.kind = worker.kind
      /\ worker'.prompts = worker.prompts
      /\ j.pc = worker.job.pc /\ j.of = worker.job.of /\ j.at = worker.job.at
      /\ j.wav = worker.job.wav /\ j.voice = worker.job.voice
      /\ j.key = worker.job.key /\ j.given = worker.job.given + 1
  <2>1. CASE YieldsQueued
    <3>1. worker.job.ahead \in Nat /\ worker.job.ahead > 0
      BY <1>1, <2>1 DEF YieldsQueued, Jobs, Job
    <3>2. worker.job.ahead - 1 \in Nat
      BY <3>1
    <3> DEFINE i == [worker.job EXCEPT !.given = worker.job.given + 1,
                                       !.ahead = worker.job.ahead - 1]
    <3>3. worker.job.given + 1 \in Nat
      BY <1>1 DEF Jobs
    <3>4. /\ i \in Jobs /\ i.pc = worker.job.pc /\ i.of = worker.job.of
          /\ i.at = worker.job.at /\ i.wav = worker.job.wav /\ i.voice = worker.job.voice
          /\ i.key = worker.job.key /\ i.given = worker.job.given + 1
      BY <1>1, <3>2, <3>3 DEF Jobs
    <3>5. worker' = [worker EXCEPT !.job = i]
      BY <1>1, <2>1 DEF YieldsQueued, Workers, Jobs
    <3> HIDE DEF i
    <3>6. QED
      BY <1>1, <3>4, <3>5 DEF Workers
  <2>2. CASE YieldsNext
    BY <1>1, <2>2 DEF YieldsNext, Workers, Jobs
  <2>3. QED
    BY <2>1, <2>2 DEF Piece, Yields
<1> HIDE DEF j
<1>3. worker.job.given \in Nat /\ worker'.job = j
  BY <1>1 DEF Jobs, j
<1>4. /\ req' \in [Req -> Requests]
      /\ \A s \in Req : /\ req'[s].pc = req[s].pc /\ req'[s].kind = req[s].kind
                        /\ req'[s].at = req[s].at /\ req'[s].key = req[s].key
                        /\ req'[s].read = req[s].read
                        /\ RequestOk(dir, uploads, req'[s])
      /\ worker.job.of # Nobody => Serves(j, req'[worker.job.of])
  <2>1. CASE worker.job.of = Nobody
    <3>1. req' = req
      BY <2>1 DEF Piece, Job
    <3>2. QED
      BY <2>1, <3>1, Facts, RequestsAreOk
  <2>2. CASE worker.job.of # Nobody
    <3> DEFINE r == worker.job.of
               e == <<req[r].attempt, worker.job.given + 1>>
               q == [req[r] EXCEPT !.out = Append(req[r].out, e)]
    <3>1. /\ r \in Req /\ req[r] \in Requests /\ Serves(worker.job, req[r])
          /\ RequestOk(dir, uploads, req[r])
      BY <2>2, Facts, RequestsAreOk DEF IInv, JobInv
    <3>2. req' = [req EXCEPT ![r] = q]
      BY <2>2 DEF Piece, Job
    <3>3. e \in {1, 2} \X Nat /\ req[r].out \in Seq({1, 2} \X Nat)
      BY <1>3, <3>1 DEF Requests
    <3>4. /\ Append(req[r].out, e) \in Seq({1, 2} \X Nat)
          /\ Len(Append(req[r].out, e)) = Len(req[r].out) + 1
          /\ Len(req[r].out) = worker.job.given
          /\ \A i \in 1 .. Len(req[r].out) : Append(req[r].out, e)[i] = req[r].out[i]
          /\ Append(req[r].out, e)[Len(req[r].out) + 1] = e
      BY <3>1, <3>3, AppendProperties DEF Serves
    <3>5. /\ q \in Requests /\ q.pc = "working" /\ req[r].pc = "working"
          /\ q.kind = req[r].kind /\ q.at = req[r].at
          /\ q.key = req[r].key /\ q.read = req[r].read /\ q.attempt = req[r].attempt
          /\ q.out = Append(req[r].out, e)
      BY <3>1, <3>4 DEF Requests, Serves
    <3> HIDE DEF q
    <3>6. \A i \in 1 .. Len(q.out) : q.out[i] = <<q.attempt, i>>
      <4>1. \A i \in 1 .. worker.job.given + 1 :
              i \in 1 .. worker.job.given \/ i = worker.job.given + 1
        BY <1>3
      <4>2. \A i \in 1 .. Len(req[r].out) : req[r].out[i] = <<req[r].attempt, i>>
        BY <3>1 DEF RequestOk
      <4>3. QED
        BY <3>4, <3>5, <4>1, <4>2
    <3>7. RequestOk(dir, uploads, q)
      BY <3>1, <3>5, <3>6 DEF RequestOk
    <3>8. Serves(j, q)
      BY <1>2, <3>1, <3>4, <3>5 DEF Serves
    <3>9. /\ req' \in [Req -> Requests] /\ req'[r] = q
          /\ \A s \in Req : s # r => req'[s] = req[s]
      BY <3>1, <3>2, <3>5, Facts
    <3>10. QED
      BY <3>1, <3>5, <3>7, <3>8, <3>9, RequestsAreOk
  <2>3. QED
    BY <2>1, <2>2
<1>5. Types' /\ DirInv'
  BY <1>1, <1>2, <1>4 DEF IInv, Types, DirInv
<1>6. RequestInv'
  BY <1>1, <1>4 DEF RequestInv
<1>7. JobInv'
  BY <1>1, <1>2, <1>3, <1>4 DEF IInv, JobInv
<1>8. KeyInv'
  BY <1>1, <1>2, <1>3, <1>4, Facts DEF IInv, KeyInv, AnswerOk, VoiceOk, Keyed
<1>9. VoiceInv'
  <2>1. ~overlap => StageAlone(j, req')
    BY <1>2, <1>4 DEF IInv, VoiceInv, StageAlone
  <2>2. QED
    BY <1>1, <1>2, <1>3, <1>4, <2>1 DEF IInv, VoiceInv, SpeaksOk, Keyed
<1>10. QED
  BY <1>5, <1>6, <1>7, <1>8, <1>9 DEF IInv


(* The answer of a job is the voice it had.                                 *)
LEMMA AnswersKeeps ==
    ASSUME IInv, Answers
    PROVE  IInv'
<1> DEFINE of == worker.job.of
           q == [req[of] EXCEPT !.pc = "answered", !.read = worker.job.voice]
<1>1. /\ worker.job.pc = "stream" /\ worker' = [worker EXCEPT !.job = NoJob]
      /\ UNCHANGED <<dir, active, uploads, reused, overlap>>
      /\ worker \in Workers /\ worker.job \in Jobs
  BY Facts DEF Answers, Finishes, Settled, Job
<1>2. /\ worker' \in Workers /\ worker'.kind = worker.kind
      /\ worker'.prompts = worker.prompts /\ worker'.job = NoJob
  BY <1>1, Records DEF Workers
<1>3. CASE of = Nobody
  <2>1. req' = req
    BY <1>3 DEF Answers, Job
  <2>2. QED
    BY <1>1, <1>2, <2>1, Facts, RequestsEnd
<1>4. CASE of # Nobody /\ worker.job.wav = TRUE
  <2>1. /\ of \in Req /\ req[of] \in Requests /\ Serves(worker.job, req[of])
        /\ RequestOk(dir, uploads, req[of])
    BY <1>4, Facts, RequestsAreOk DEF IInv, JobInv
  <2>2. req' = [req EXCEPT ![of] = q]
    BY <1>4, <2>1, Facts DEF Answers, Job
  <2>3. /\ q \in Requests /\ q.pc = "answered" /\ q.read = worker.job.voice
        /\ q.kind = req[of].kind /\ q.at = req[of].at /\ q.key = req[of].key
        /\ q.attempt = req[of].attempt /\ q.out = req[of].out
        /\ req[of].pc = "working" /\ req[of].at = worker.job.at
    BY <1>1, <2>1 DEF Requests, Jobs, Serves
  <2> HIDE DEF q
  <2>4. /\ req' \in [Req -> Requests] /\ req'[of] = q
        /\ \A s \in Req : s # of => req'[s] = req[s]
    BY <2>1, <2>2, <2>3, Facts
  <2>5. RequestOk(dir, uploads, q)
    BY <2>1, <2>3 DEF RequestOk
  <2>6. worker.kind # "omnivoice" => AnswerOk(dir, uploads, q)
    BY <1>4, <2>3 DEF AnswerOk, IInv, KeyInv, VoiceOk
  <2>7. worker.kind # "omnivoice" /\ ~overlap => Speaks(dir, q.read, q.at)
    BY <1>1, <2>3 DEF IInv, VoiceInv, SpeaksOk
  <2>8. \A s \in Req : /\ RequestOk(dir, uploads, req'[s])
                       /\ req'[s].kind \in {req[s].kind, "none"}
    BY <2>3, <2>4, <2>5, RequestsAreOk
  <2>9. worker.kind # "omnivoice" =>
          /\ \A d \in Place : \A u \in Upload :
                IsOf(dir, uploads, dir'[d].cache[u], d, u)
          /\ \A s \in Req : AnswerOk(dir, uploads, req'[s])
          /\ ~overlap =>
                /\ \A s \in Req : req'[s].pc = "answered" =>
                      Speaks(dir', req'[s].read, req'[s].at)
                /\ ~reused => \A d \in Place : SampleOk(dir', d)
    <3> SUFFICES ASSUME worker.kind # "omnivoice"
                 PROVE  /\ \A d \in Place : \A u \in Upload :
                              IsOf(dir, uploads, dir[d].cache[u], d, u)
                        /\ \A s \in Req : AnswerOk(dir, uploads, req'[s])
                        /\ ~overlap =>
                              /\ \A s \in Req : req'[s].pc = "answered" =>
                                    Speaks(dir, req'[s].read, req'[s].at)
                              /\ ~reused => \A d \in Place : SampleOk(dir, d)
      BY <1>1
    <3>1. \A d \in Place : \A u \in Upload : IsOf(dir, uploads, dir[d].cache[u], d, u)
      BY DEF IInv, KeyInv
    <3>2. \A s \in Req : AnswerOk(dir, uploads, req'[s])
      BY <2>4, <2>6, RequestsAreOk
    <3>3. ~overlap => \A s \in Req : req'[s].pc = "answered" =>
                          Speaks(dir, req'[s].read, req'[s].at)
      BY <2>4, <2>7, RequestsAreOk
    <3>4. ~overlap /\ ~reused => \A d \in Place : SampleOk(dir, d)
      BY DEF IInv, VoiceInv
    <3>5. QED
      BY <3>1, <3>2, <3>3, <3>4
  <2>10. /\ dir' \in [Place -> Directories] /\ DirInv'
         /\ \A d \in Place : dir'[d].ref = dir[d].ref
    BY <1>1, Facts DEF IInv, DirInv
  <2>11. QED
    BY <1>1, <1>2, <2>4, <2>8, <2>9, <2>10, RequestsMove
<1>5. CASE of # Nobody /\ worker.job.wav = FALSE
  <2>1. of \in Req /\ req' = [req EXCEPT ![of] = Idle]
    BY <1>5, Facts DEF Answers, Job, End
  <2>2. /\ req' \in [Req -> Requests] /\ \A s \in Req : req'[s] \in {req[s], Idle}
    BY <2>1, Facts, Records
  <2>3. QED
    BY <1>1, <1>2, <2>2, RequestsEnd
<1>6. QED
  BY <1>1, <1>3, <1>4, <1>5 DEF Jobs

(* A request that breaks off keeps what it is.                              *)
LEMMA BrokenIsOk ==
    ASSUME IInv, NEW r \in Req, req[r].pc # "idle"
    PROVE  LET q == [req[r] EXCEPT !.pc = "broken"]
           IN /\ q \in Requests /\ q.kind = req[r].kind /\ q.pc = "broken"
              /\ q.out = req[r].out /\ q.attempt = req[r].attempt
              /\ q.at = req[r].at /\ q.key = req[r].key
              /\ RequestOk(dir, uploads, q)
<1> DEFINE q == [req[r] EXCEPT !.pc = "broken"]
<1>1. req[r] \in Requests /\ RequestOk(dir, uploads, req[r])
  BY Facts, RequestsAreOk
<1>2. /\ q \in Requests /\ q.kind = req[r].kind /\ q.pc = "broken"
      /\ q.out = req[r].out /\ q.attempt = req[r].attempt
      /\ q.at = req[r].at /\ q.key = req[r].key
  BY <1>1 DEF Requests
<1> HIDE DEF q
<1>3. RequestOk(dir, uploads, q)
  BY <1>1, <1>2 DEF RequestOk
<1>4. QED
  BY <1>2, <1>3 DEF q

(* What Higgs leaves behind when it fails is at most an empty directory.    *)
LEMMA FailureFiles ==
    ASSUME IInv, Raises
    PROVE  /\ dir' \in [Place -> Directories]
           /\ \A d \in Place : /\ dir'[d].ref = dir[d].ref /\ dir'[d].sample = dir[d].sample
                               /\ dir'[d].cache = dir[d].cache
                               /\ dir'[d].caches = dir[d].caches
                               /\ dir'[d].speaker = dir[d].speaker
                               /\ d # worker.job.at => dir'[d] = dir[d]
<1> DEFINE at == worker.job.at
           f == [dir[at] EXCEPT !.made = TRUE]
<1>1. CASE UNCHANGED dir
  BY <1>1, Facts
<1>2. CASE dir' = [dir EXCEPT ![at] = f]
  <2>1. at \in Place /\ dir[at] \in Directories
    BY JobFacts DEF Raises
  <2>2. /\ f \in Directories /\ f.ref = dir[at].ref /\ f.sample = dir[at].sample
        /\ f.cache = dir[at].cache /\ f.caches = dir[at].caches
        /\ f.speaker = dir[at].speaker
    BY <2>1 DEF Directories
  <2> HIDE DEF f
  <2>3. /\ dir' \in [Place -> Directories] /\ dir'[at] = f
        /\ \A d \in Place : d # at => dir'[d] = dir[d]
    BY <1>2, <2>1, <2>2, Facts
  <2>4. QED
    BY <2>2, <2>3
<1>3. QED
  BY <1>1, <1>2, JobFacts, Facts DEF Raises, Job

LEMMA DriverFailsKeeps ==
    ASSUME IInv, DriverFails
    PROVE  IInv'
<1> DEFINE of == worker.job.of
<1>1. /\ Raises /\ Busy /\ worker.job.pc # "none"
      /\ worker' = [worker EXCEPT !.job = NoJob, !.ready = ~At("proxy", "post")]
      /\ UNCHANGED <<active, uploads, reused, overlap>>
      /\ worker \in Workers /\ worker.job \in Jobs
  BY Facts DEF DriverFails, Raises, Settled, Busy, Job
<1>2. /\ worker' \in Workers /\ worker'.kind = worker.kind
      /\ worker'.prompts = worker.prompts /\ worker'.job = NoJob
  <2>1. (~At("proxy", "post")) \in BOOLEAN
    BY DEF At
  <2>2. QED
    BY <1>1, <2>1, Records DEF Workers
<1>3. /\ dir' \in [Place -> Directories]
      /\ \A d \in Place : /\ dir'[d].ref = dir[d].ref /\ dir'[d].sample = dir[d].sample
                          /\ dir'[d].cache = dir[d].cache
                          /\ dir'[d].caches = dir[d].caches
                          /\ dir'[d].speaker = dir[d].speaker
                          /\ d # worker.job.at => dir'[d] = dir[d]
  BY <1>1, FailureFiles
<1>4. DirInv'
  <2> SUFFICES ASSUME NEW d \in Place
               PROVE  Stored(dir', uploads', d)
    BY DEF DirInv
  <2>1. Stored(dir, uploads, d) /\ Moves(dir, uploads, dir', uploads')
    BY <1>1, <1>3, NoMove DEF IInv, DirInv
  <2>2. dir'[d].ref # Nothing => Seen(dir', uploads', d, dir'[d].ref)
    BY <1>3, <2>1, SeenKept DEF Stored
  <2>3. \A u \in Upload : IsOf(dir', uploads', dir'[d].speaker[u], d, u)
    BY <1>3, <2>1, IsOfKept DEF Stored
  <2>4. QED
    BY <1>3, <2>1, <2>2, <2>3 DEF Stored
<1>5. /\ req' \in [Req -> Requests]
      /\ \A s \in Req : /\ RequestOk(dir, uploads, req'[s])
                        /\ req'[s].kind \in {req[s].kind, "none"}
                        /\ req'[s].pc = "answered" => req'[s] = req[s]
                        /\ req'[s].kind = "sample" /\ req'[s].pc = "answered" =>
                              req'[s] = req[s]
  <2>1. CASE of = Nobody
    <3>1. req' = req
      BY <2>1 DEF DriverFails, Job
    <3>2. QED
      BY <3>1, Facts, RequestsAreOk
  <2>2. CASE of # Nobody
    <3> DEFINE q == [req[of] EXCEPT !.pc = "broken"]
    <3>1. of \in Req /\ req[of].pc = "working" /\ req[of] \in Requests
      BY <2>2, Facts DEF IInv, JobInv, Serves
    <3>2. /\ q \in Requests /\ q.kind = req[of].kind /\ q.pc = "broken"
          /\ RequestOk(dir, uploads, q)
      BY <3>1, BrokenIsOk
    <3>3. req' = [req EXCEPT ![of] = Idle] \/ req' = [req EXCEPT ![of] = q]
      BY <2>2, <3>1, Facts DEF DriverFails, Job, End, Goto
    <3> HIDE DEF q
    <3>4. /\ req' \in [Req -> Requests] /\ req'[of] \in {Idle, q}
          /\ \A s \in Req : s # of => req'[s] = req[s]
      BY <3>1, <3>2, <3>3, Facts, Records
    <3>5. QED
      BY <3>1, <3>2, <3>4, IdleIsOk, RequestsAreOk
  <2>3. QED
    BY <2>1, <2>2
<1>6. ASSUME worker.kind # "omnivoice"
      PROVE  /\ \A d \in Place : \A u \in Upload :
                   IsOf(dir, uploads, dir'[d].cache[u], d, u)
             /\ \A s \in Req : AnswerOk(dir, uploads, req'[s])
             /\ ~overlap =>
                   /\ \A s \in Req : req'[s].pc = "answered" =>
                         Speaks(dir', req'[s].read, req'[s].at)
                   /\ ~reused => \A d \in Place : SampleOk(dir', d)
  <2>1. \A d \in Place : \A u \in Upload : IsOf(dir, uploads, dir'[d].cache[u], d, u)
    BY <1>3, <1>6 DEF IInv, KeyInv
  <2>2. \A s \in Req : AnswerOk(dir, uploads, req'[s])
    BY <1>5, <1>6, RequestsAreOk DEF AnswerOk
  <2>3. ASSUME ~overlap, NEW s \in Req, req'[s].pc = "answered"
        PROVE  Speaks(dir', req'[s].read, req'[s].at)
    <3>1. /\ req'[s] = req[s] /\ Speaks(dir, req[s].read, req[s].at)
          /\ req[s].at \in Place /\ req[s].pc = "answered"
      BY <1>5, <1>6, <2>3, RequestsAreOk
    <3>2. CASE req[s].at # worker.job.at \/ req[s].at # Staging
      BY <1>3, <3>1, <3>2 DEF Speaks
    <3>3. CASE req[s].at = worker.job.at /\ req[s].at = Staging
      <4>1. req[s].kind = "stage"
        BY <3>1, <3>3, Facts, RequestsAreOk, Constants DEF RequestOk, Requests
      <4>2. worker.job.of = s
        BY <1>1, <2>3, <3>3, <4>1 DEF IInv, VoiceInv, StageAlone
      <4>3. req[s].pc = "working"
        BY <4>2, Constants DEF IInv, JobInv, Serves
      <4>4. QED
        BY <3>1, <4>3
    <3>4. QED
      BY <3>2, <3>3
  <2>4. ~overlap /\ ~reused => \A d \in Place : SampleOk(dir', d)
    BY <1>3, <1>6 DEF IInv, VoiceInv, SampleOk
  <2>5. QED
    BY <2>1, <2>2, <2>3, <2>4
<1>7. QED
  BY <1>1, <1>2, <1>3, <1>4, <1>5, <1>6, RequestsMove

(* A request is given up; a job of it goes on without a client.             *)
LEMMA FailsKeeps ==
    ASSUME IInv, NEW r \in Req, Fails(r)
    PROVE  IInv'
<1>1. /\ req' = [req EXCEPT ![r] = Idle]
      /\ UNCHANGED <<dir, active, uploads, reused, overlap>>
      /\ worker \in Workers /\ worker.job \in Jobs
  BY Facts DEF Fails, End, Files, Settled
<1>2. /\ req' \in [Req -> Requests] /\ req'[r] = Idle
      /\ \A s \in Req : s # r => req'[s] = req[s]
  BY <1>1, Facts, Records
<1>3. CASE Busy /\ worker.job.of = r
  <2> DEFINE j == [worker.job EXCEPT !.of = Nobody]
  <2>1. j \in Jobs
    BY <1>1 DEF Jobs
  <2>2. worker' = [worker EXCEPT !.job = j]
    BY <1>1, <1>3 DEF Fails, Job, Workers, Jobs
  <2> HIDE DEF j
  <2>3. /\ worker' \in Workers /\ worker'.kind = worker.kind
        /\ worker'.prompts = worker.prompts /\ worker'.job = j
    BY <1>1, <2>1, <2>2 DEF Workers
  <2>4. worker.job.of # Nobody /\ req'[worker.job.of] = Idle
    BY <1>2, <1>3, Constants
  <2>5. worker'.job = [worker.job EXCEPT !.of = Nobody]
    BY <2>3 DEF j
  <2>6. QED
    BY <1>1, <1>2, <2>3, <2>4, <2>5, RequestsEnd
<1>4. CASE ~(Busy /\ worker.job.of = r)
  <2>1. worker' = worker
    BY <1>4 DEF Fails, Job
  <2>2. worker.job.of # Nobody => worker.job.of # r /\ worker.job.of \in Req
    BY <1>4, Facts DEF Busy, Job
  <2>3. QED
    BY <1>1, <1>2, <2>1, <2>2, RequestsEnd
<1>5. QED
  BY <1>3, <1>4

(* The worker ends, and the answer it was giving breaks off.                *)
LEMMA FreshWorker ==
    ASSUME IInv, worker' = Fresh(worker.kind)
    PROVE  /\ worker' \in Workers /\ worker'.kind = worker.kind
           /\ worker'.prompts = <<>> /\ worker'.job = NoJob
<1>1. worker.kind \in Driver
  BY Facts DEF Workers
<1>2. QED
  BY <1>1, Records

LEMMA CutIsOk ==
    ASSUME IInv
    PROVE  /\ Cut \in [Req -> Requests]
           /\ \A s \in Req :
                 \/ Cut[s] = req[s]
                 \/ /\ Cut[s].kind = req[s].kind /\ Cut[s].pc = "broken"
                    /\ RequestOk(dir, uploads, Cut[s])
           /\ \A s \in Req : req[s].pc # "working" => Cut[s] = req[s]
<1> DEFINE of == worker.job.of
           q == [req[of] EXCEPT !.pc = "broken"]
<1>1. CASE Busy /\ of # Nobody
  <2>1. of \in Req /\ req[of].pc = "working"
    BY <1>1, Facts DEF IInv, JobInv, Serves
  <2>2. /\ q \in Requests /\ q.kind = req[of].kind /\ q.pc = "broken"
        /\ RequestOk(dir, uploads, q)
    BY <2>1, BrokenIsOk
  <2>3. Cut = [req EXCEPT ![of] = q]
    BY <1>1, <2>1, Facts DEF Cut, Job
  <2> HIDE DEF q
  <2>4. /\ Cut \in [Req -> Requests] /\ Cut[of] = q
        /\ \A s \in Req : s # of => Cut[s] = req[s]
    BY <2>1, <2>2, <2>3, Facts
  <2>5. QED
    BY <2>1, <2>2, <2>4
<1>2. CASE ~(Busy /\ of # Nobody)
  <2>1. Cut = req
    BY <1>2 DEF Cut, Job
  <2>2. QED
    BY <2>1, Facts
<1>3. QED
  BY <1>1, <1>2

LEMMA WorkerDiesKeeps ==
    ASSUME IInv, WorkerDies
    PROVE  IInv'
<1>1. req' = Cut /\ UNCHANGED <<dir, active, uploads, reused, overlap>>
  BY DEF WorkerDies, Files, Settled
<1>2. /\ worker' \in Workers /\ worker'.kind = worker.kind
      /\ worker'.prompts = <<>> /\ worker'.job = NoJob
  BY FreshWorker DEF WorkerDies
<1>3. /\ req' \in [Req -> Requests]
      /\ \A s \in Req :
           \/ req'[s] = req[s]
           \/ req'[s] = Idle
           \/ /\ req'[s].kind = req[s].kind
              /\ RequestOk(dir, uploads, req'[s]) /\ req'[s].pc # "answered"
  <2>1. \A s \in Req :
           \/ req'[s] = req[s]
           \/ /\ req'[s].kind = req[s].kind /\ req'[s].pc = "broken"
              /\ RequestOk(dir, uploads, req'[s])
    BY <1>1, CutIsOk
  <2>2. QED
    BY <1>1, <2>1, CutIsOk
<1>4. QED
  BY <1>1, <1>2, <1>3, RequestsEnd

(* A request that is not answered was not being worked on.                  *)
LEMMA BreaksKeeps ==
    ASSUME IInv, NEW r \in Req, Breaks(r)
    PROVE  IInv'
<1> DEFINE q == [req[r] EXCEPT !.pc = "broken"]
<1>1. /\ req[r].pc = "asked" /\ req' = [req EXCEPT ![r] = q]
      /\ UNCHANGED <<worker, dir, active, uploads, reused, overlap>>
  BY DEF Breaks, Goto, Files, Settled
<1>2. /\ q \in Requests /\ q.kind = req[r].kind /\ q.pc = "broken"
      /\ RequestOk(dir, uploads, q)
  BY <1>1, BrokenIsOk
<1> HIDE DEF q
<1>3. /\ req' \in [Req -> Requests] /\ req'[r] = q
      /\ \A s \in Req : s # r => req'[s] = req[s]
  BY <1>1, <1>2, Facts
<1>4. worker.job.of # Nobody => req'[worker.job.of] = req[worker.job.of]
  BY <1>1, <1>3, Facts DEF IInv, JobInv, Serves
<1>5. \A s \in Req :
         \/ req'[s] = req[s]
         \/ req'[s] = Idle
         \/ /\ req'[s].kind = req[s].kind
            /\ RequestOk(dir, uploads, req'[s]) /\ req'[s].pc # "answered"
  BY <1>2, <1>3
<1>6. QED
  BY <1>1, <1>3, <1>4, <1>5, Facts, RequestsEnd

(* The second attempt starts with nothing given.                            *)
LEMMA RetriesKeeps ==
    ASSUME IInv, NEW r \in Req, Retries(r)
    PROVE  IInv'
<1>1. req[r].pc = "broken" /\ UNCHANGED <<dir, active, uploads, reused, overlap>>
  BY DEF Retries, Files, Settled
<1>2. CASE MayRetry(r)
  <2> DEFINE q == [req[r] EXCEPT !.pc = "asked", !.attempt = 2]
  <2>1. /\ req[r] \in Requests /\ RequestOk(dir, uploads, req[r])
        /\ req[r].out = <<>> /\ Cut[r] = req[r] /\ Cut \in [Req -> Requests]
    BY <1>1, <1>2, Facts, RequestsAreOk, CutIsOk DEF MayRetry
  <2>2. req' = [Cut EXCEPT ![r] = q]
    BY <1>2, <2>1 DEF Retries
  <2>3. /\ q \in Requests /\ q.kind = req[r].kind /\ q.pc = "asked" /\ q.at = req[r].at
        /\ q.key = req[r].key /\ q.out = <<>>
    BY <2>1 DEF Requests
  <2> HIDE DEF q
  <2>4. RequestOk(dir, uploads, q)
    BY <1>1, <2>1, <2>3 DEF RequestOk
  <2>5. /\ req' \in [Req -> Requests] /\ req'[r] = q
        /\ \A s \in Req : s # r => req'[s] = Cut[s]
    BY <2>1, <2>2, <2>3
  <2>6. \A s \in Req :
           \/ req'[s] = req[s]
           \/ req'[s] = Idle
           \/ /\ req'[s].kind = req[s].kind
              /\ RequestOk(dir, uploads, req'[s]) /\ req'[s].pc # "answered"
    <3> SUFFICES ASSUME NEW s \in Req
                 PROVE  \/ req'[s] = req[s]
                        \/ /\ req'[s].kind = req[s].kind
                           /\ RequestOk(dir, uploads, req'[s]) /\ req'[s].pc # "answered"
      OBVIOUS
    <3>1. \/ Cut[s] = req[s]
          \/ /\ Cut[s].kind = req[s].kind /\ Cut[s].pc = "broken"
             /\ RequestOk(dir, uploads, Cut[s])
      BY CutIsOk
    <3>2. QED
      BY <2>3, <2>4, <2>5, <3>1
  <2>7. /\ worker' \in Workers /\ worker'.kind = worker.kind
        /\ worker'.prompts = <<>> /\ worker'.job = NoJob
    BY <1>2, FreshWorker DEF Retries
  <2>8. QED
    BY <1>1, <2>5, <2>6, <2>7, RequestsEnd
<1>3. CASE ~MayRetry(r)
  <2>1. req' = [req EXCEPT ![r] = Idle] /\ worker' = worker
    BY <1>3 DEF Retries, End
  <2>2. /\ req' \in [Req -> Requests] /\ req'[r] = Idle
        /\ \A s \in Req : s # r => req'[s] = req[s]
    BY <2>1, Facts, Records
  <2>3. worker.job.of # Nobody => req'[worker.job.of] = req[worker.job.of]
    BY <1>1, <2>2, Facts DEF IInv, JobInv, Serves
  <2>4. \A s \in Req : req'[s] = req[s] \/ req'[s] = Idle
    BY <2>2
  <2>5. QED
    BY <1>1, <2>1, <2>2, <2>3, <2>4, Facts, RequestsEnd
<1>4. QED
  BY <1>2, <1>3

(* The files outlive the daemon, the requests do not.                       *)
LEMMA CrashKeeps ==
    ASSUME IInv, Crash
    PROVE  IInv'
<1>1. /\ req' = [r \in Req |-> Idle]
      /\ UNCHANGED <<dir, active, uploads, reused, overlap>>
  BY DEF Crash, Files, Settled
<1>2. req' \in [Req -> Requests] /\ \A s \in Req : req'[s] = Idle
  BY <1>1, Records
<1>3. /\ worker' \in Workers /\ worker'.kind = worker.kind
      /\ worker'.prompts = <<>> /\ worker'.job = NoJob
  BY FreshWorker DEF Crash
<1>4. QED
  BY <1>1, <1>2, <1>3, RequestsEnd

-----------------------------------------------------------------------------
(* What is made of an answer.                                               *)

(* Only what was made of a recording changes in d, and request r is over.   *)
LEMMA AnswerUsed ==
    ASSUME IInv, NEW r \in Req, req[r].pc = "answered",
           req' = [req EXCEPT ![r] = Idle],
           UNCHANGED <<worker, active, uploads, reused, overlap>>,
           NEW d \in Place, NEW x \in Directories, dir' = [dir EXCEPT ![d] = x],
           x.ref = dir[d].ref, x.made = dir[d].made, x.caches = dir[d].caches,
           x.speaker = dir[d].speaker,
           worker.kind # "omnivoice" =>
               /\ \A u \in Upload : IsOf(dir, uploads, x.cache[u], d, u)
               /\ ~overlap /\ ~reused => x.sample \in {Nothing, x.ref}
    PROVE  IInv'
<1>1. /\ dir' \in [Place -> Directories] /\ dir'[d] = x
      /\ \A e \in Place : e # d => dir'[e] = dir[e]
      /\ DirInv'
      /\ \A e \in Place : Calm(dir, dir', e) /\ dir'[e].ref = dir[e].ref
  BY MarkedFiles
<1>2. /\ req' \in [Req -> Requests] /\ req'[r] = Idle
      /\ \A s \in Req : s # r => req'[s] = req[s]
  BY Facts, Records
<1>3. worker.job.of # Nobody => req'[worker.job.of] = req[worker.job.of]
  BY <1>2, Facts DEF IInv, JobInv, Serves
<1>4. \A s \in Req : /\ RequestOk(dir, uploads, req'[s])
                     /\ req'[s].kind \in {req[s].kind, "none"}
  BY <1>2, IdleIsOk, RequestsAreOk
<1>5. ASSUME worker.kind # "omnivoice"
      PROVE  /\ \A e \in Place : \A u \in Upload :
                   IsOf(dir, uploads, dir'[e].cache[u], e, u)
             /\ \A s \in Req : AnswerOk(dir, uploads, req'[s])
             /\ ~overlap =>
                   /\ \A s \in Req : req'[s].pc = "answered" =>
                         Speaks(dir', req'[s].read, req'[s].at)
                   /\ ~reused => \A e \in Place : SampleOk(dir', e)
  <2>1. \A e \in Place : \A u \in Upload : IsOf(dir, uploads, dir'[e].cache[u], e, u)
    BY <1>1, <1>5 DEF IInv, KeyInv
  <2>2. \A s \in Req : AnswerOk(dir, uploads, req'[s])
    BY <1>2, <1>5, IdleIsOk, RequestsAreOk
  <2>3. ASSUME ~overlap, NEW s \in Req, req'[s].pc = "answered"
        PROVE  Speaks(dir', req'[s].read, req'[s].at)
    <3>1. req'[s] = req[s]
      BY <1>2, <2>3, IdleIsOk
    <3>2. Speaks(dir, req[s].read, req[s].at) /\ req[s].at \in Place
      BY <1>5, <2>3, <3>1, RequestsAreOk
    <3>3. QED
      BY <1>1, <3>1, <3>2, SpeaksKept
  <2>4. ~overlap /\ ~reused => \A e \in Place : SampleOk(dir', e)
    BY <1>1, <1>5 DEF IInv, VoiceInv, SampleOk
  <2>5. QED
    BY <2>1, <2>2, <2>3, <2>4
<1>6. QED
  BY <1>1, <1>2, <1>3, <1>4, <1>5, Facts, RequestsMove

(* The sample of the stage is of its recording.                             *)
LEMMA PreviewedKeeps ==
    ASSUME IInv, NEW r \in Req, Previewed(r)
    PROVE  IInv'
<1>1. /\ req[r].pc = "answered" /\ req[r].kind = "stage"
      /\ req' = [req EXCEPT ![r] = Idle]
      /\ UNCHANGED <<worker, active, uploads, reused, overlap>>
  BY DEF Previewed, End
<1>2. /\ req[r] \in Requests /\ req[r].at = Staging
      /\ Staging \in Place /\ dir[Staging] \in Directories
  BY <1>1, Facts, RequestsAreOk, Constants DEF RequestOk
<1> DEFINE x == IF dir[Staging].made THEN [dir[Staging] EXCEPT !.sample = req[r].read]
                ELSE dir[Staging]
<1>3. dir' = [dir EXCEPT ![Staging] = x]
  BY <1>2, Facts DEF Previewed
<1>4. /\ x \in Directories
      /\ x.ref = dir[Staging].ref /\ x.made = dir[Staging].made
      /\ x.caches = dir[Staging].caches /\ x.speaker = dir[Staging].speaker
      /\ x.cache = dir[Staging].cache
      /\ \/ x.sample = dir[Staging].sample
         \/ dir[Staging].made = TRUE /\ x.sample = req[r].read
  <2> DEFINE y == [dir[Staging] EXCEPT !.sample = req[r].read]
  <2>1. req[r].read \in Recordings /\ dir[Staging].made \in BOOLEAN
    BY <1>2 DEF Requests, Directories
  <2>2. /\ y \in Directories /\ y.ref = dir[Staging].ref /\ y.made = dir[Staging].made
        /\ y.caches = dir[Staging].caches /\ y.speaker = dir[Staging].speaker
        /\ y.cache = dir[Staging].cache /\ y.sample = req[r].read
    BY <1>2, <2>1 DEF Directories
  <2>3. x = IF dir[Staging].made THEN y ELSE dir[Staging]
    OBVIOUS
  <2> HIDE DEF x, y
  <2>4. CASE x = y /\ dir[Staging].made = TRUE
    BY <2>2, <2>4
  <2>5. CASE x = dir[Staging]
    BY <1>2, <2>5
  <2>6. QED
    BY <2>1, <2>3, <2>4, <2>5
<1> HIDE DEF x
<1>5. ASSUME worker.kind # "omnivoice"
      PROVE  /\ \A u \in Upload : IsOf(dir, uploads, x.cache[u], Staging, u)
             /\ ~overlap /\ ~reused => x.sample \in {Nothing, x.ref}
  <2>1. \A u \in Upload : IsOf(dir, uploads, x.cache[u], Staging, u)
    BY <1>2, <1>4, <1>5 DEF IInv, KeyInv
  <2>2. ASSUME ~overlap, ~reused
        PROVE  x.sample \in {Nothing, x.ref}
    <3>1. dir[Staging].sample \in {Nothing, dir[Staging].ref}
      BY <1>2, <1>5, <2>2 DEF IInv, VoiceInv, SampleOk
    <3>2. Speaks(dir, req[r].read, Staging)
      BY <1>1, <1>2, <1>5, <2>2, RequestsAreOk
    <3>3. QED
      BY <1>4, <3>1, <3>2 DEF Speaks
  <2>3. QED
    BY <2>1, <2>2
<1>6. QED
  BY <1>1, <1>2, <1>3, <1>4, <1>5, AnswerUsed

(* The cached file is of the recording with its key.                        *)
LEMMA SampledKeeps ==
    ASSUME IInv, NEW r \in Req, Sampled(r)
    PROVE  IInv'
<1> DEFINE d == req[r].at
           u == req[r].key
           x == IF dir[d].caches
                THEN [dir[d] EXCEPT !.cache[u] = req[r].read, !.sample = req[r].read]
                ELSE dir[d]
<1>1. /\ req[r].pc = "answered" /\ req[r].kind = "sample"
      /\ req' = [req EXCEPT ![r] = Idle]
      /\ UNCHANGED <<worker, active, uploads, reused, overlap>>
  BY DEF Sampled, End
<1>2. /\ req[r] \in Requests /\ d \in Name /\ d \in Place /\ d # Staging
      /\ dir[d] \in Directories
      /\ Seen(dir, uploads, d, u) /\ u \in Upload
  <2>1. req[r] \in Requests /\ RequestOk(dir, uploads, req[r])
    BY Facts, RequestsAreOk
  <2>2. d \in Name /\ d \in Place /\ d # Staging /\ Seen(dir, uploads, d, u)
    BY <1>1, <2>1, Constants DEF RequestOk
  <2>3. u \in Upload
    BY <2>2, Facts, Constants DEF Seen, Upload, Recordings
  <2>4. QED
    BY <2>1, <2>2, <2>3, Facts
<1>3. dir' = [dir EXCEPT ![d] = x]
  BY <1>2, Facts DEF Sampled, Saved
<1>4. /\ x \in Directories
      /\ x.ref = dir[d].ref /\ x.made = dir[d].made
      /\ x.caches = dir[d].caches /\ x.speaker = dir[d].speaker
      /\ \A w \in Upload : x.cache[w] = dir[d].cache[w] \/ (w = u /\ x.cache[w] = req[r].read)
      /\ \/ x.sample = dir[d].sample
         \/ dir[d].caches = TRUE /\ x.sample = req[r].read
  <2> DEFINE y == [dir[d] EXCEPT !.cache[u] = req[r].read, !.sample = req[r].read]
  <2>1. req[r].read \in Recordings /\ dir[d].caches \in BOOLEAN
    BY <1>2 DEF Requests, Directories
  <2>2. /\ y \in Directories /\ y.ref = dir[d].ref /\ y.made = dir[d].made
        /\ y.caches = dir[d].caches /\ y.speaker = dir[d].speaker
        /\ \A w \in Upload : y.cache[w] = dir[d].cache[w] \/ (w = u /\ y.cache[w] = req[r].read)
        /\ y.sample = req[r].read
    <3> DEFINE c == [dir[d].cache EXCEPT ![u] = req[r].read]
    <3>1. /\ c \in [Upload -> Recordings]
          /\ \A w \in Upload : c[w] = dir[d].cache[w] \/ (w = u /\ c[w] = req[r].read)
      BY <1>2, <2>1 DEF Directories
    <3>2. y = [dir[d] EXCEPT !.cache = c, !.sample = req[r].read]
      OBVIOUS
    <3> HIDE DEF c, y
    <3>3. QED
      BY <1>2, <2>1, <3>1, <3>2 DEF Directories
  <2>3. x = IF dir[d].caches THEN y ELSE dir[d]
    OBVIOUS
  <2> HIDE DEF x, y
  <2>4. CASE x = y /\ dir[d].caches = TRUE
    BY <2>2, <2>4
  <2>5. CASE x = dir[d]
    BY <1>2, <2>5
  <2>6. QED
    BY <2>1, <2>3, <2>4, <2>5
<1>5. ASSUME worker.kind # "omnivoice"
      PROVE  /\ \A w \in Upload : IsOf(dir, uploads, x.cache[w], d, w)
             /\ ~overlap /\ ~reused => x.sample \in {Nothing, x.ref}
  <2>1. \A w \in Upload : IsOf(dir, uploads, x.cache[w], d, w)
    <3>1. IsOf(dir, uploads, req[r].read, d, u)
      BY <1>1, <1>5, RequestsAreOk DEF AnswerOk
    <3>2. \A w \in Upload : IsOf(dir, uploads, dir[d].cache[w], d, w)
      BY <1>2, <1>5 DEF IInv, KeyInv
    <3>3. QED
      BY <1>4, <3>1, <3>2
  <2>2. ASSUME ~overlap, ~reused
        PROVE  x.sample \in {Nothing, x.ref}
    <3>1. dir[d].sample \in {Nothing, dir[d].ref}
      BY <1>2, <1>5, <2>2 DEF IInv, VoiceInv, SampleOk
    <3>2. Speaks(dir, req[r].read, d)
      BY <1>1, <1>5, <2>2, RequestsAreOk
    <3>3. dir[d].caches = TRUE => dir[d].ref # Nothing
      BY <1>2 DEF IInv, DirInv, Stored
    <3>4. QED
      BY <1>4, <3>1, <3>2, <3>3 DEF Speaks
  <2>3. QED
    BY <2>1, <2>2
<1> HIDE DEF x, d, u
<1>6. QED
  BY <1>1, <1>2, <1>3, <1>4, <1>5, AnswerUsed

-----------------------------------------------------------------------------
(* The invariant holds.                                                     *)

LEMMA IInvInit == Init => IInv
<1> SUFFICES ASSUME Init
             PROVE  IInv
  OBVIOUS
<1>1. PICK k \in Driver : worker = Fresh(k)
  BY DEF Init
<1>2. /\ worker \in Workers /\ worker.job = NoJob /\ worker.prompts = <<>>
      /\ NoJob.pc = "none" /\ NoJob.of = Nobody
  BY <1>1, Records DEF NoJob
<1>3. /\ dir \in [Place -> Directories]
      /\ \A d \in Place : dir[d] = Absent
      /\ req \in [Req -> Requests]
      /\ \A r \in Req : req[r] = Idle
  BY Records DEF Init
<1>4. /\ Absent.ref = Nothing /\ Absent.caches = FALSE /\ Absent.sample = Nothing
      /\ \A u \in Upload : Absent.speaker[u] = Nothing /\ Absent.cache[u] = Nothing
  BY DEF Absent
<1>5. Types
  <2>1. uploads \in Recordings
    BY Constants DEF Init, Recordings
  <2>2. active \in Name \cup {None} /\ reused \in BOOLEAN /\ overlap \in BOOLEAN
    BY DEF Init
  <2>3. QED
    BY <1>2, <1>3, <2>1, <2>2 DEF Types
<1>6. DirInv
  BY <1>3, <1>4 DEF DirInv, Stored, IsOf
<1>7. RequestInv
  BY <1>3, IdleIsOk DEF RequestInv
<1>8. JobInv
  BY <1>2 DEF JobInv
<1>9. KeyInv
  BY <1>2, <1>3, <1>4, IdleIsOk DEF KeyInv, Keyed, IsOf
<1>10. VoiceInv
  BY <1>2, <1>3, <1>4, IdleIsOk DEF VoiceInv, StageAlone, SampleOk
<1>11. QED
  BY <1>5, <1>6, <1>7, <1>8, <1>9, <1>10 DEF IInv

LEMMA IInvStep == IInv /\ [Next]_vars => IInv'
<1> SUFFICES ASSUME IInv, [Next]_vars
             PROVE  IInv'
  OBVIOUS
<1>1. ASSUME NEW n \in Name, Enroll(n) \/ EnrollFails(n) \/ Commit(n) \/ Delete(n)
      PROVE  IInv'
  BY <1>1, EnrollKeeps, CommitKeeps, DeleteKeeps
<1>2. CASE ClearStage \/ StageRefused \/ Crash
  BY <1>2, ClearStageKeeps, StageRefusedKeeps, CrashKeeps
<1>3. ASSUME NEW n \in Name \cup {None},
             Activate(n) \/ SampleCached(n) \/ \E r \in Req : Sample(r, n) \/ Speak(r, n)
      PROVE  IInv'
  BY <1>3, ActivateKeeps, SampleCachedKeeps, SampleKeeps, SpeakKeeps
<1>4. ASSUME NEW r \in Req,
             \/ Stage(r) \/ Works(r) \/ Breaks(r) \/ Retries(r) \/ Fails(r)
             \/ Previewed(r) \/ Sampled(r)
      PROVE  IInv'
  BY <1>4, StageKeeps, WorksKeeps, BreaksKeeps, RetriesKeeps, FailsKeeps,
     PreviewedKeeps, SampledKeeps
<1>5. CASE Drives \/ Piece \/ Answers \/ DriverFails \/ WorkerDies
  BY <1>5, DrivesKeeps, PieceKeeps, AnswersKeeps, DriverFailsKeeps, WorkerDiesKeeps
<1>6. CASE UNCHANGED vars
  BY <1>6 DEF vars, IInv, Types, DirInv, RequestInv, JobInv, KeyInv, VoiceInv
<1>7. QED
  BY <1>1, <1>2, <1>3, <1>4, <1>5, <1>6 DEF Next

LEMMA Invariance == Spec => []IInv
  BY IInvInit, IInvStep, PTL DEF Spec

-----------------------------------------------------------------------------
(* What follows.                                                            *)

(* Directories, requests and the worker of main.py and the drivers keep     *)
(* their shape.                                                             *)
THEOREM TypesHold == Spec => []Types
<1>1. IInv => Types
  BY DEF IInv
<1>2. QED
  BY <1>1, Invariance, PTL

(* The voice that a driver clones is that of the recording its profile has, *)
(* unless the profile got another while the request worked on it.           *)
THEOREM VoicesAreOfTheirProfile == Spec => []VoiceIsOfProfile
<1>1. IInv => VoiceIsOfProfile
  BY DEF IInv, VoiceInv, SpeaksOk, Speaks, VoiceIsOfProfile, Busy, Job, Ref
<1>2. QED
  BY <1>1, Invariance, PTL

(* A preview that .preview_cache serves is of the present recording, and so *)
(* is the sample, unless the name was enrolled again over an older one or   *)
(* under a request.                                                         *)
THEOREM PreviewsAreOfTheirReference == Spec => []PreviewIsOfReference
<1>1. ASSUME IInv, worker.kind # "omnivoice", NEW d \in Place
      PROVE  /\ dir[d].ref # Nothing => Hit(d) \in {Nothing, dir[d].ref}
             /\ ~reused /\ ~overlap => dir[d].sample \in {Nothing, dir[d].ref}
  <2>1. ASSUME dir[d].ref # Nothing
        PROVE  Hit(d) \in {Nothing, dir[d].ref}
    <3>1. Seen(dir, uploads, d, dir[d].ref)
      BY <1>1, <2>1 DEF IInv, DirInv, Stored
    <3>2. dir[d].ref \in Upload
      BY <1>1, <3>1, Facts, Constants DEF Seen, Upload, Recordings
    <3>3. IsOf(dir, uploads, dir[d].cache[dir[d].ref], d, dir[d].ref)
      BY <1>1, <3>2 DEF IInv, KeyInv
    <3>4. QED
      BY <3>3 DEF IsOf, Past, Hit, CacheKey
  <2>2. ~reused /\ ~overlap => dir[d].sample \in {Nothing, dir[d].ref}
    BY <1>1 DEF IInv, VoiceInv, SampleOk
  <2>3. QED
    BY <2>1, <2>2
<1>2. IInv => DOMAIN dir = Place
  BY DEF IInv, Types
<1>3. IInv => PreviewIsOfReference
  BY <1>1, <1>2 DEF PreviewIsOfReference
<1>4. QED
  BY <1>3, Invariance, PTL

(* The pieces of a cloned utterance are of one attempt of synthesize_stream *)
(* and in order, although a worker that dies is restarted under it.         *)
THEOREM UtterancesAreSpokenOnce == Spec => []SpokenOnce
<1>1. ASSUME IInv, NEW r \in Req, NEW i \in 1 .. Len(req[r].out)
      PROVE  req[r].out[i] = <<req[r].out[1][1], i>>
  <2>1. \A k \in 1 .. Len(req[r].out) : req[r].out[k] = <<req[r].attempt, k>>
    BY <1>1 DEF IInv, RequestInv, RequestOk
  <2>2. Len(req[r].out) \in Nat
    BY <1>1, Facts, LenProperties DEF Requests
  <2>3. 1 \in 1 .. Len(req[r].out)
    BY <2>2
  <2>4. req[r].out[1] = <<req[r].attempt, 1>>
    BY <2>1, <2>3
  <2>5. req[r].out[1][1] = req[r].attempt
    BY <2>4
  <2>6. QED
    BY <2>1, <2>5
<1>2. IInv => SpokenOnce
  BY <1>1 DEF SpokenOnce
<1>3. QED
  BY <1>2, Invariance, PTL

=============================================================================
