------------------------- MODULE ModelRegistryProofs -------------------------
(***************************************************************************)
(* Proofs about ModelActivation and ModelInstall.                          *)
(*                                                                         *)
(* Of an activation, RegistryInv says what an uninstallation relies on:    *)
(* slots that were set together are flagged and installed.  LoneInv says   *)
(* of a request that nothing has overlapped, for each of its awaits, what  *)
(* slots and adapters are there; the outcome it reports is then read off   *)
(* its last step.  Both hold for any models, any number of requests in     *)
(* flight and any number of restarts.                                      *)
(*                                                                         *)
(* Of an installation, FreshInv says how much of its revision a job that   *)
(* began alone and with nothing staged has fetched, CheckedInv what a      *)
(* comparison of checksums leaves known until the promotion, and StoreInv  *)
(* that no thread holds a file of a store that is known to be whole.       *)
(***************************************************************************)
EXTENDS ModelActivation, ModelInstall, TLAPS, SequenceTheorems

Models == Model \cup {None}

ActivatePC == {"load", "reload", "unload", "stopping", "starting"}
SwapPC == {"preload", "swapped", "rollback"}

Requests ==
    [pc : {"idle"} \cup ActivatePC \cup SwapPC,
     kind : {"none", "activate", "swap"}, model : Models, prev : Models,
     side : Side, restart : BOOLEAN, alone : BOOLEAN,
     out : {"none", "ok", "failed", "rolled_back", "stuck"},
     slot : [Side -> Models], served : [Side -> Models]]

Types ==
    /\ cap \in {"ASR", "TRANSLATION", "TTS", "VAD"}
    /\ slot \in [Side -> Models]
    /\ installed \subseteq Model
    /\ known \in [Side -> Models]
    /\ served \in [Side -> Models]
    /\ active \in BOOLEAN
    /\ split \in BOOLEAN
    /\ req \in [Req -> Requests]

(* Slots that were set together name a model that is flagged, and so out of *)
(* reach of an uninstallation, and installed.                               *)
RegistryInv == ~split => \A s \in Side : slot[s] \in flag \cap installed

(* The request q fits the code it has reached.                              *)
Fits(q) ==
    /\ q.pc # "idle" => q.model \in Model
    /\ q.pc \in ActivatePC => q.kind = "activate"
    /\ q.pc \in SwapPC => q.kind = "swap"
    /\ q.pc \in {"stopping", "starting"} => q.restart
    /\ q.pc \in {"load", "reload", "unload"} => ~q.restart

(* What the slots sl and the adapters sv are at the await that a request q  *)
(* has reached without being overlapped.                                    *)
Tells(q, sl, sv) ==
    /\ q.pc \in {"load", "reload"} => sv = q.served
    /\ q.pc \in {"unload", "starting"} => sv = Both(q.model)
    /\ q.pc \in ActivatePC \ {"load"} /\ q.model \notin Remote =>
          sl = Both(q.model)
    /\ q.pc = "swapped" => sl[q.side] = q.model /\ sv[q.side] = q.model

LoneBusy(r) == Busy(r) /\ req[r].alone

(* A request that is alone is the only one in flight.                       *)
LoneInv ==
    /\ \A r \in Req : Fits(req[r])
    /\ \A r, q \in Req : LoneBusy(r) /\ Busy(q) => q = r
    /\ \A r \in Req : LoneBusy(r) => Tells(req[r], slot, served)

IInv == Types /\ RegistryInv /\ LoneInv

(* What a step of the request r does to the requests: it goes on to x, or   *)
(* ends.                                                                    *)
Advances(r, x) ==
    /\ req' = [req EXCEPT ![r] = x]
    /\ Fits(x)
    /\ x.pc # "idle" => x.alone = req[r].alone
    /\ x.pc # "idle" /\ x.alone => Tells(x, slot', served')

(* What the lemmas below show of every step of the request r.               *)
Own(r) ==
    /\ slot' \in [Side -> Models] /\ served' \in [Side -> Models]
    /\ split' \in BOOLEAN /\ active' \in BOOLEAN
    /\ installed' \subseteq Model
    /\ RegistryInv'
    /\ \E x \in Requests : Advances(r, x)

-----------------------------------------------------------------------------
(* Records and functions.                                                   *)

LEMMA IdleIsRequest == Idle \in Requests /\ Idle.pc = "idle"
<1>1. NoSet \in [Side -> Models]
  BY DEF NoSet, Models
<1>2. QED
  BY <1>1, Zenon DEF Idle, Requests, Models, Side, ActivatePC, SwapPC

(* An ended request keeps only its outcome.                                 *)
LEMMA EndedRequest ==
    ASSUME NEW out \in {"none", "ok", "failed", "rolled_back", "stuck"}
    PROVE  /\ [Idle EXCEPT !.out = out] \in Requests
           /\ [Idle EXCEPT !.out = out].pc = "idle"
           /\ [Idle EXCEPT !.out = out].out = out
  BY IdleIsRequest DEF Requests

LEMMA MovedRequest ==
    ASSUME NEW q \in Requests, NEW pc \in {"idle"} \cup ActivatePC \cup SwapPC
    PROVE  LET x == [q EXCEPT !.pc = pc]
           IN  /\ x \in Requests
               /\ x.pc = pc /\ x.kind = q.kind /\ x.model = q.model
               /\ x.prev = q.prev /\ x.side = q.side /\ x.restart = q.restart
               /\ x.alone = q.alone /\ x.slot = q.slot /\ x.served = q.served
  BY DEF Requests

LEMMA BothSides ==
    ASSUME NEW m \in Models
    PROVE  Both(m) \in [Side -> Models] /\ \A s \in Side : Both(m)[s] = m
  BY DEF Both

(* _set_slot_adapter binds an adapter for the side it is asked for.         *)
LEMMA BoundSide ==
    ASSUME served \in [Side -> Models], NEW side \in Side, NEW m \in Models
    PROVE  Bound(side, m) \in [Side -> Models] /\ Bound(side, m)[side] = m
  BY BothSides DEF Bound

-----------------------------------------------------------------------------
(* The registry.                                                            *)

(* set_active_model with an installed model keeps RegistryInv: both slots   *)
(* name it and it is flagged, or they have been set one without the other.  *)
LEMMA Commits ==
    ASSUME Types, NEW S \in SUBSET Side, NEW m \in Models, m \in installed',
           SetActive(S, m)
    PROVE  /\ slot' \in [Side -> Models] /\ split' \in BOOLEAN
           /\ RegistryInv'
           /\ \A s \in S : slot'[s] = m
           /\ S = Side => slot' = Both(m)
  BY DEF Types, SetActive, RegistryInv, Both

LEMMA Keeps ==
    ASSUME Types, RegistryInv, KeepRegistry, installed \subseteq installed'
    PROVE  /\ slot' \in [Side -> Models] /\ split' \in BOOLEAN
           /\ RegistryInv'
           /\ slot' = slot
  BY DEF Types, KeepRegistry, RegistryInv

-----------------------------------------------------------------------------
(* How a request goes on.                                                   *)

LEMMA Ends ==
    ASSUME Types, NEW r \in Req,
           NEW out \in {"none", "ok", "failed", "rolled_back", "stuck"},
           End(r, out)
    PROVE  /\ \E x \in Requests : Advances(r, x)
           /\ req'[r].pc = "idle" /\ req'[r].out = out
<1> DEFINE x == [Idle EXCEPT !.out = out]
<1>1. x \in Requests /\ x.pc = "idle" /\ x.out = out
  BY EndedRequest
<1>2. req' = [req EXCEPT ![r] = x]
  BY DEF End
<1> HIDE DEF x
<1>3. Advances(r, x)
  BY <1>1, <1>2 DEF Advances, Fits, ActivatePC, SwapPC
<1>4. QED
  BY <1>1, <1>2, <1>3 DEF Types

LEMMA Goes ==
    ASSUME Types, NEW r \in Req, NEW pc \in ActivatePC \cup SwapPC,
           Goto(r, pc), Fits([req[r] EXCEPT !.pc = pc]),
           req[r].alone => Tells([req[r] EXCEPT !.pc = pc], slot', served')
    PROVE  /\ \E x \in Requests : Advances(r, x)
           /\ req'[r].pc = pc
<1> DEFINE x == [req[r] EXCEPT !.pc = pc]
<1>1. x \in Requests /\ x.pc = pc /\ x.alone = req[r].alone
  <2>1. req[r] \in Requests /\ pc \in {"idle"} \cup ActivatePC \cup SwapPC
    BY DEF Types
  <2>2. QED
    BY <2>1, MovedRequest
<1>2. req' = [req EXCEPT ![r] = x]
  BY DEF Goto
<1>3. Fits(x) /\ (req[r].alone => Tells(x, slot', served'))
  OBVIOUS
<1> HIDE DEF x
<1>4. Advances(r, x)
  BY <1>1, <1>2, <1>3 DEF Advances
<1>5. QED
  BY <1>1, <1>2, <1>4 DEF Types

-----------------------------------------------------------------------------
(* The steps of an activation.                                              *)

(* Restore ends the request, with the slots as they were or on the model    *)
(* selected when it began.                                                  *)
LEMMA Restores ==
    ASSUME Types, RegistryInv, NEW r \in Req, Restore(r), UNCHANGED installed
    PROVE  /\ slot' \in [Side -> Models] /\ split' \in BOOLEAN
           /\ RegistryInv'
           /\ \E x \in Requests : Advances(r, x)
           /\ req'[r].pc = "idle" /\ req'[r].out = "failed"
           /\ req[r].prev \in installed => slot' = Both(req[r].prev)
<1>1. req[r].prev \in Models
  BY DEF Types, Requests
<1>2. \/ SetActive(Side, req[r].prev) /\ req[r].prev \in installed'
      \/ KeepRegistry /\ req[r].prev \notin installed
  BY DEF Restore
<1>3. /\ \E x \in Requests : Advances(r, x)
      /\ req'[r].pc = "idle" /\ req'[r].out = "failed"
  BY Ends DEF Restore
<1>4. QED
  BY <1>1, <1>2, <1>3, Commits, Keeps

(* Finish ends the request: with success on the model, or, for a remote     *)
(* entry that is gone, as a failure.                                        *)
LEMMA Finishes ==
    ASSUME Types, RegistryInv, NEW r \in Req, Finish(r), UNCHANGED installed
    PROVE  /\ slot' \in [Side -> Models] /\ split' \in BOOLEAN
           /\ RegistryInv'
           /\ \E x \in Requests : Advances(r, x)
           /\ req'[r].pc = "idle"
           /\ \/ /\ req'[r].out = "ok"
                 /\ IF req[r].model \in Remote THEN slot' = Both(req[r].model)
                                               ELSE slot' = slot
              \/ /\ req'[r].out = "failed"
                 /\ req[r].model \in Remote \ installed
<1>1. req[r].model \in Models
  BY DEF Types, Requests
<1>2. CASE req[r].model \notin Remote
  BY <1>2, Ends, Keeps DEF Finish
<1>3. CASE req[r].model \in Remote \cap installed
  <2>1. SetActive(Side, req[r].model) /\ End(r, "ok")
    BY <1>3 DEF Finish
  <2>2. QED
    BY <1>1, <1>3, <2>1, Ends, Commits
<1>4. CASE req[r].model \in Remote \ installed
  <2>1. Restore(r)
    BY <1>4 DEF Finish
  <2>2. QED
    BY <1>4, <2>1, Restores
<1>5. QED
  BY <1>2, <1>3, <1>4

(* CommitLocal puts the model of a local activation into both slots.        *)
LEMMA LocalCommits ==
    ASSUME Types, RegistryInv, NEW r \in Req, req[r].pc # "idle",
           req[r].model \in Model, CommitLocal(r)
    PROVE  /\ slot' \in [Side -> Models] /\ split' \in BOOLEAN
           /\ RegistryInv'
           /\ installed' \subseteq Model
           /\ req[r].model \notin Remote => slot' = Both(req[r].model)
<1>1. CASE req[r].model \in Remote
  BY <1>1, Keeps DEF CommitLocal, Types
<1>2. CASE req[r].model \notin Remote
  <2>1. /\ installed' = installed \cup {req[r].model}
        /\ SetActive(Side, req[r].model)
    BY <1>2 DEF CommitLocal
  <2>2. req[r].model \in Models /\ req[r].model \in installed'
    BY <2>1 DEF Models
  <2>3. installed' \subseteq Model
    BY <2>1 DEF Types
  <2>4. QED
    BY <2>1, <2>2, <2>3, Commits
<1>3. QED
  BY <1>1, <1>2

(* A step of r, and what r's caller is told if it ends.                     *)
Faithful(r) == Own(r) /\ (~Busy(r)' /\ req[r].alone => Outcome(r))

(* What is known of a request that takes a step.                            *)
LEMMA Standing ==
    ASSUME IInv, NEW r \in Req, req[r].pc # "idle"
    PROVE  /\ Types /\ RegistryInv
           /\ req[r] \in Requests
           /\ req[r].model \in Model /\ req[r].model \in Models
           /\ req[r].prev \in Models /\ req[r].side \in Side
           /\ Fits(req[r])
           /\ req[r].alone => Tells(req[r], slot, served)
           /\ Both(req[r].model) \in [Side -> Models]
<1>1. req[r] \in Requests /\ Fits(req[r])
  BY DEF IInv, Types, LoneInv
<1>2. req[r].model \in Model /\ req[r].model \in Models
  BY <1>1 DEF Fits, Models
<1>3. req[r].prev \in Models /\ req[r].side \in Side
  BY <1>1 DEF Requests
<1>4. req[r].alone => Tells(req[r], slot, served)
  BY DEF IInv, LoneInv, LoneBusy, Busy
<1>5. QED
  BY <1>1, <1>2, <1>3, <1>4, BothSides DEF IInv

LEMMA LoadFailsOwn ==
    ASSUME IInv, NEW r \in Req, LoadFails(r) PROVE Faithful(r)
<1>1. req[r].pc = "load"
  BY DEF LoadFails
<1>2. Restore(r) /\ UNCHANGED <<installed, served, active>>
  BY DEF LoadFails
<1>3. req[r].alone => served = req[r].served
  BY <1>1, Standing DEF Tells
<1>4. Own(r)
  BY <1>1, <1>2, Standing, Restores DEF Own, Types
<1>5. ASSUME req[r].alone PROVE Outcome(r)
  BY <1>1, <1>2, <1>3, <1>5, Standing, Restores DEF Outcome
<1>6. QED
  BY <1>4, <1>5 DEF Faithful

LEMMA RebindFailsOwn ==
    ASSUME IInv, NEW r \in Req, RebindFails(r) PROVE Faithful(r)
<1>1. req[r].pc = "reload"
  BY DEF RebindFails
<1>2. Restore(r) /\ UNCHANGED <<installed, served, active>>
  BY DEF RebindFails
<1>3. req[r].alone => served = req[r].served
  BY <1>1, Standing DEF Tells
<1>4. Own(r)
  BY <1>1, <1>2, Standing, Restores DEF Own, Types
<1>5. ASSUME req[r].alone PROVE Outcome(r)
  BY <1>1, <1>2, <1>3, <1>5, Standing, Restores DEF Outcome
<1>6. QED
  BY <1>4, <1>5 DEF Faithful

LEMMA StartFailsOwn ==
    ASSUME IInv, NEW r \in Req, StartFails(r) PROVE Faithful(r)
<1>1. req[r].pc = "starting"
  BY DEF StartFails
<1>2. Restore(r) /\ UNCHANGED <<installed, served, active>>
  BY DEF StartFails
<1>3. req[r].restart
  BY <1>1, Standing DEF Fits
<1>4. Own(r)
  BY <1>1, <1>2, Standing, Restores DEF Own, Types
<1>5. Outcome(r)
  BY <1>1, <1>2, <1>3, Standing, Restores DEF Outcome
<1>6. QED
  BY <1>4, <1>5 DEF Faithful

LEMMA ReboundOwn ==
    ASSUME IInv, NEW r \in Req, Rebound(r) PROVE Faithful(r)
<1>1. req[r].pc = "reload" /\ req[r].kind = "activate"
  BY DEF Rebound
<1>2. /\ served' = Both(req[r].model) /\ Goto(r, "unload") /\ KeepRegistry
      /\ UNCHANGED <<installed, active>>
  BY DEF Rebound
<1> DEFINE x == [req[r] EXCEPT !.pc = "unload"]
<1>3. /\ x \in Requests /\ x.pc = "unload" /\ x.kind = "activate"
      /\ x.model = req[r].model /\ x.restart = req[r].restart
  BY <1>1, Standing, MovedRequest DEF ActivatePC
<1>4. Fits(x)
  <2> HIDE DEF x
  <2>1. QED
    BY <1>1, <1>3, Standing DEF Fits, ActivatePC, SwapPC
<1>5. slot' = slot /\ slot' \in [Side -> Models] /\ split' \in BOOLEAN /\ RegistryInv'
  BY <1>1, <1>2, Standing, Keeps
<1>6. ASSUME req[r].alone PROVE Tells(x, slot', served')
  <2>1. Tells(req[r], slot, served)
    BY <1>1, <1>6, Standing
  <2> HIDE DEF x
  <2>2. QED
    BY <1>1, <1>2, <1>3, <1>5, <2>1 DEF Tells, ActivatePC
<1>7. /\ \E y \in Requests : Advances(r, y)
      /\ req'[r].pc = "unload"
  BY <1>1, <1>2, <1>4, <1>6, Standing, Goes DEF ActivatePC
<1>8. Own(r)
  BY <1>1, <1>2, <1>5, <1>7, Standing DEF Own, Types
<1>9. QED
  BY <1>7, <1>8 DEF Faithful, Busy

LEMMA PreviousUnloadedOwn ==
    ASSUME IInv, NEW r \in Req, PreviousUnloaded(r) PROVE Faithful(r)
<1>1. req[r].pc = "unload" /\ req[r].kind = "activate"
  BY DEF PreviousUnloaded
<1>2. Finish(r) /\ UNCHANGED <<installed, served, active>>
  BY DEF PreviousUnloaded
<1>3. req[r].alone => /\ served = Both(req[r].model)
                      /\ req[r].model \notin Remote => slot = Both(req[r].model)
  BY <1>1, Standing DEF Tells, ActivatePC
<1>4. Own(r)
  BY <1>1, <1>2, Standing, Finishes DEF Own, Types
<1>5. ASSUME req[r].alone PROVE Outcome(r)
  BY <1>1, <1>2, <1>3, <1>5, Standing, Finishes DEF Outcome
<1>6. QED
  BY <1>4, <1>5 DEF Faithful

LEMMA StartedOwn ==
    ASSUME IInv, NEW r \in Req, Started(r) PROVE Faithful(r)
<1>1. req[r].pc = "starting"
  BY DEF Started
<1>2. Finish(r) /\ UNCHANGED <<installed, served, active>>
  BY DEF Started
<1>3. req[r].alone => /\ served = Both(req[r].model)
                      /\ req[r].model \notin Remote => slot = Both(req[r].model)
  BY <1>1, Standing DEF Tells, ActivatePC
<1>4. Own(r)
  BY <1>1, <1>2, Standing, Finishes DEF Own, Types
<1>5. ASSUME req[r].alone PROVE Outcome(r)
  <2>1. req[r].kind = "activate"
    BY <1>1, Standing DEF Fits, ActivatePC
  <2>2. QED
    BY <1>1, <1>2, <1>3, <1>5, <2>1, Standing, Finishes DEF Outcome
<1>6. QED
  BY <1>4, <1>5 DEF Faithful

LEMMA StoppedOwn ==
    ASSUME IInv, NEW r \in Req, Stopped(r) PROVE Faithful(r)
<1>1. req[r].pc = "stopping"
  BY DEF Stopped
<1>2. /\ served' = Both(req[r].model) /\ active' = TRUE /\ UNCHANGED installed
  BY DEF Stopped
<1>3. /\ req[r].kind = "activate" /\ req[r].restart
      /\ req[r].alone /\ req[r].model \notin Remote => slot = Both(req[r].model)
  BY <1>1, Standing DEF Tells, Fits, ActivatePC
<1>4. CASE active
  <2>1. Finish(r)
    BY <1>4 DEF Stopped
  <2>2. Own(r)
    BY <1>1, <1>2, <2>1, Standing, Finishes DEF Own, Types
  <2>3. ASSUME req[r].alone PROVE Outcome(r)
    BY <1>1, <1>2, <1>3, <2>1, <2>3, Standing, Finishes DEF Outcome
  <2>4. QED
    BY <2>2, <2>3 DEF Faithful
<1>5. CASE ~active
  <2>1. Goto(r, "starting") /\ KeepRegistry
    BY <1>5 DEF Stopped
  <2> DEFINE x == [req[r] EXCEPT !.pc = "starting"]
  <2>2. /\ x \in Requests /\ x.pc = "starting" /\ x.kind = "activate"
        /\ x.model = req[r].model /\ x.restart = req[r].restart
    <3>1. req[r] \in Requests /\ req[r].kind = "activate"
      BY <1>1, <1>3, Standing
    <3>2. QED
      BY <3>1, MovedRequest DEF ActivatePC
  <2>3. Fits(x)
    <3> HIDE DEF x
    <3>1. QED
      BY <1>1, <1>3, <2>2, Standing DEF Fits, ActivatePC, SwapPC
  <2>4. slot' = slot /\ slot' \in [Side -> Models] /\ split' \in BOOLEAN /\ RegistryInv'
    BY <1>1, <1>2, <2>1, Standing, Keeps
  <2>5. ASSUME req[r].alone PROVE Tells(x, slot', served')
    <3> HIDE DEF x
    <3>1. QED
      BY <1>2, <1>3, <2>2, <2>4, <2>5 DEF Tells, ActivatePC
  <2>6. /\ \E y \in Requests : Advances(r, y)
        /\ req'[r].pc = "starting"
    BY <1>1, <2>1, <2>3, <2>5, Standing, Goes DEF ActivatePC
  <2>7. Own(r)
    BY <1>1, <1>2, <2>4, <2>6, Standing DEF Own, Types
  <2>8. QED
    BY <2>6, <2>7 DEF Faithful, Busy
<1>6. QED
  BY <1>4, <1>5, Standing, <1>1 DEF Types

LEMMA LoadedOwn ==
    ASSUME IInv, NEW r \in Req, Loaded(r) PROVE Faithful(r)
<1>1. req[r].pc = "load" /\ req[r].kind = "activate"
  BY DEF Loaded
<1>2. ~req[r].restart
  BY <1>1, Standing DEF Fits
<1>3. req[r].alone => served = req[r].served
  BY <1>1, Standing DEF Tells
<1>4. req[r] \in Requests /\ req[r].model \in Model
  BY <1>1, Standing
<1>5. CASE /\ Goto(r, "reload") /\ CommitLocal(r) /\ UNCHANGED <<served, active>>
  <2> DEFINE x == [req[r] EXCEPT !.pc = "reload"]
  <2>1. /\ x \in Requests /\ x.pc = "reload" /\ x.kind = "activate"
        /\ x.model = req[r].model /\ x.restart = req[r].restart
        /\ x.served = req[r].served
    BY <1>1, <1>4, MovedRequest DEF ActivatePC
  <2>2. Fits(x)
    <3> HIDE DEF x
    <3>1. QED
      BY <1>2, <1>4, <2>1 DEF Fits, ActivatePC, SwapPC
  <2>3. ASSUME req[r].alone PROVE Tells(x, slot', served')
    <3>1. req[r].model \notin Remote => slot' = Both(req[r].model)
      BY <1>1, <1>4, <1>5, Standing, LocalCommits
    <3> HIDE DEF x
    <3>2. QED
      BY <1>3, <1>5, <2>1, <2>3, <3>1 DEF Tells, ActivatePC
  <2>4. /\ \E y \in Requests : Advances(r, y)
        /\ req'[r].pc = "reload"
    BY <1>1, <1>5, <2>2, <2>3, Standing, Goes DEF ActivatePC
  <2>5. Own(r)
    BY <1>1, <1>4, <1>5, <2>4, Standing, LocalCommits DEF Own, Types
  <2>6. QED
    BY <2>4, <2>5 DEF Faithful, Busy
<1>6. CASE /\ active' = FALSE
           /\ req' = [req EXCEPT ![r].pc = "stopping", ![r].restart = TRUE]
           /\ CommitLocal(r)
           /\ UNCHANGED served
  <2> DEFINE x == [req[r] EXCEPT !.pc = "stopping", !.restart = TRUE]
  <2>1. /\ x \in Requests /\ x.pc = "stopping" /\ x.kind = "activate"
        /\ x.model = req[r].model /\ x.restart = TRUE
        /\ x.alone = req[r].alone
    BY <1>1, <1>4 DEF Requests, ActivatePC
  <2>2. req' = [req EXCEPT ![r] = x]
    BY <1>6
  <2>3. req'[r].pc = "stopping"
    BY <1>6, <1>1, Standing DEF Types, Requests
  <2>4. req[r].model \notin Remote => slot' = Both(req[r].model)
    BY <1>1, <1>4, <1>6, Standing, LocalCommits
  <2> HIDE DEF x
  <2>5. Advances(r, x)
    <3>1. Fits(x)
      BY <1>4, <2>1 DEF Fits, ActivatePC, SwapPC
    <3>2. Tells(x, slot', served')
      BY <2>1, <2>4 DEF Tells, ActivatePC
    <3>3. QED
      BY <2>1, <2>2, <3>1, <3>2 DEF Advances
  <2>6. Own(r)
    BY <1>1, <1>4, <1>6, <2>1, <2>5, Standing, LocalCommits DEF Own, Types
  <2>7. QED
    BY <2>3, <2>6 DEF Faithful, Busy
<1>7. CASE /\ served' = Both(req[r].model) /\ UNCHANGED active
           /\ req[r].model \in Remote
           /\ Finish(r) /\ UNCHANGED installed
  <2>1. Own(r)
    BY <1>1, <1>7, Standing, Finishes DEF Own, Types
  <2>2. Outcome(r)
    BY <1>1, <1>7, Standing, Finishes DEF Outcome
  <2>3. QED
    BY <2>1, <2>2 DEF Faithful
<1>8. CASE /\ served' = Both(req[r].model) /\ UNCHANGED active
           /\ req[r].model \notin Remote
           /\ CommitLocal(r) /\ End(r, "ok")
  <2>1. Own(r)
    BY <1>1, <1>4, <1>8, Standing, LocalCommits, Ends DEF Own, Types
  <2>2. req'[r].out = "ok" /\ slot' = Both(req[r].model)
    BY <1>1, <1>4, <1>8, Standing, LocalCommits, Ends
  <2>3. Outcome(r)
    BY <1>1, <1>8, <2>2 DEF Outcome
  <2>4. QED
    BY <2>1, <2>3 DEF Faithful
<1>9. QED
  BY <1>5, <1>6, <1>7, <1>8 DEF Loaded

-----------------------------------------------------------------------------
(* The steps of a swap.                                                     *)

(* FAILED: the request goes on to the rollback, or ends.                    *)
LEMMA FailsOwn ==
    ASSUME IInv, NEW r \in Req, req[r].pc \in SwapPC, Fail(r)
    PROVE  /\ \E x \in Requests : Advances(r, x)
           /\ req'[r].pc = "idle" => req'[r].out = "failed"
<1>1. req[r].kind = "swap" /\ req[r] \in Requests /\ Fits(req[r])
  BY Standing DEF Fits, SwapPC
<1>2. CASE Goto(r, "rollback")
  <2> DEFINE x == [req[r] EXCEPT !.pc = "rollback"]
  <2>1. /\ x \in Requests /\ x.pc = "rollback" /\ x.kind = "swap"
        /\ x.model = req[r].model
    BY <1>1, MovedRequest DEF SwapPC
  <2>2. Fits(x) /\ Tells(x, slot', served')
    <3>1. req[r].model \in Model
      BY Standing DEF SwapPC
    <3> HIDE DEF x
    <3>2. QED
      BY <2>1, <3>1 DEF Fits, Tells, ActivatePC, SwapPC
  <2>3. QED
    BY <1>2, <2>2, Goes DEF IInv, SwapPC
<1>3. CASE End(r, "failed")
  BY <1>3, Ends DEF IInv
<1>4. QED
  BY <1>2, <1>3 DEF Fail

LEMMA PreloadFailsOwn ==
    ASSUME IInv, NEW r \in Req, PreloadFails(r) PROVE Faithful(r)
<1>1. req[r].pc = "preload"
  BY DEF PreloadFails
<1>2. Fail(r) /\ KeepRegistry /\ UNCHANGED <<installed, served, active>>
  BY DEF PreloadFails
<1>3. req[r].kind = "swap"
  BY <1>1, Standing DEF Fits, SwapPC
<1>4. /\ \E x \in Requests : Advances(r, x)
      /\ req'[r].pc = "idle" => req'[r].out = "failed"
  BY <1>1, <1>2, FailsOwn DEF SwapPC
<1>5. Own(r)
  BY <1>1, <1>2, <1>4, Standing, Keeps DEF Own, Types
<1>6. QED
  BY <1>3, <1>4, <1>5 DEF Faithful, Outcome, Busy

LEMMA SwappedOwn ==
    ASSUME IInv, NEW r \in Req, Swapped(r) PROVE Faithful(r)
<1>1. req[r].pc = "swapped"
  BY DEF Swapped
<1>2. KeepRegistry /\ UNCHANGED <<installed, served, active>>
  BY DEF Swapped
<1>3. req[r].kind = "swap"
  BY <1>1, Standing DEF Fits, SwapPC
<1>4. /\ slot' = slot /\ slot' \in [Side -> Models] /\ split' \in BOOLEAN
      /\ RegistryInv'
  BY <1>1, <1>2, Standing, Keeps
<1>5. CASE End(r, "ok")
  <2>1. Own(r)
    BY <1>1, <1>2, <1>4, <1>5, Standing, Ends DEF Own, Types
  <2>2. ASSUME req[r].alone PROVE Outcome(r)
    <3>1. /\ slot[req[r].side] = req[r].model
          /\ served[req[r].side] = req[r].model
      BY <1>1, <2>2, Standing DEF Tells
    <3>2. req'[r].out = "ok"
      BY <1>1, <1>5, Standing, Ends
    <3>3. QED
      BY <1>2, <1>3, <1>4, <3>1, <3>2 DEF Outcome
  <2>3. QED
    BY <2>1, <2>2 DEF Faithful
<1>6. CASE Fail(r)
  <2>1. /\ \E x \in Requests : Advances(r, x)
        /\ req'[r].pc = "idle" => req'[r].out = "failed"
    BY <1>1, <1>6, FailsOwn DEF SwapPC
  <2>2. Own(r)
    BY <1>1, <1>2, <1>4, <2>1, Standing DEF Own, Types
  <2>3. QED
    BY <1>3, <2>1, <2>2 DEF Faithful, Outcome, Busy
<1>7. QED
  BY <1>5, <1>6 DEF Swapped

LEMMA PreloadedOwn ==
    ASSUME IInv, NEW r \in Req, Preloaded(r) PROVE Faithful(r)
<1>1. req[r].pc = "preload"
  BY DEF Preloaded
<1>2. served' = Bound(req[r].side, req[r].model) /\ UNCHANGED <<installed, active>>
  BY DEF Preloaded
<1>3. /\ req[r].kind = "swap" /\ req[r] \in Requests
      /\ req[r].model \in Model /\ req[r].model \in Models
      /\ req[r].side \in Side /\ Types /\ RegistryInv
  BY <1>1, Standing DEF Fits, SwapPC
<1>4. served' \in [Side -> Models] /\ served'[req[r].side] = req[r].model
  BY <1>2, <1>3, BoundSide DEF Types
<1>5. CASE /\ req[r].model \in installed
           /\ SetActive(Slots(req[r].side), req[r].model)
           /\ Goto(r, "swapped")
  <2>1. Slots(req[r].side) \in SUBSET Side /\ req[r].side \in Slots(req[r].side)
    BY <1>3 DEF Slots
  <2>2. /\ slot' \in [Side -> Models] /\ split' \in BOOLEAN /\ RegistryInv'
        /\ slot'[req[r].side] = req[r].model
    BY <1>2, <1>3, <1>5, <2>1, Commits
  <2> DEFINE x == [req[r] EXCEPT !.pc = "swapped"]
  <2>3. /\ x \in Requests /\ x.pc = "swapped" /\ x.kind = "swap"
        /\ x.model = req[r].model /\ x.side = req[r].side
    BY <1>3, MovedRequest DEF SwapPC
  <2>4. Fits(x) /\ Tells(x, slot', served')
    <3> HIDE DEF x
    <3>1. QED
      BY <1>3, <1>4, <2>2, <2>3 DEF Fits, Tells, ActivatePC, SwapPC
  <2>5. /\ \E y \in Requests : Advances(r, y)
        /\ req'[r].pc = "swapped"
    BY <1>3, <1>5, <2>4, Goes DEF SwapPC
  <2>6. Own(r)
    BY <1>2, <1>3, <1>4, <2>2, <2>5 DEF Own, Types
  <2>7. QED
    BY <2>5, <2>6 DEF Faithful, Busy
<1>6. CASE KeepRegistry /\ Fail(r)
  <2>1. /\ \E x \in Requests : Advances(r, x)
        /\ req'[r].pc = "idle" => req'[r].out = "failed"
    BY <1>1, <1>6, FailsOwn DEF SwapPC
  <2>2. Own(r)
    BY <1>2, <1>3, <1>4, <1>6, <2>1, Keeps DEF Own, Types
  <2>3. QED
    BY <1>3, <2>1, <2>2 DEF Faithful, Outcome, Busy
<1>7. QED
  BY <1>5, <1>6 DEF Preloaded

LEMMA RolledBackOwn ==
    ASSUME IInv, NEW r \in Req, RolledBack(r) PROVE Faithful(r)
<1>1. req[r].pc = "rollback"
  BY DEF RolledBack
<1>2. served' = Bound(req[r].side, req[r].prev) /\ UNCHANGED <<installed, active>>
  BY DEF RolledBack
<1>3. /\ req[r].kind = "swap" /\ req[r].prev \in Models
      /\ req[r].side \in Side /\ Types /\ RegistryInv
  BY <1>1, Standing DEF Fits, SwapPC
<1>4. served' \in [Side -> Models] /\ served'[req[r].side] = req[r].prev
  BY <1>2, <1>3, BoundSide DEF Types
<1>5. CASE /\ req[r].prev \in installed
           /\ SetActive(Slots(req[r].side), req[r].prev)
           /\ End(r, "rolled_back")
  <2>1. Slots(req[r].side) \in SUBSET Side /\ req[r].side \in Slots(req[r].side)
    BY <1>3 DEF Slots
  <2>2. /\ slot' \in [Side -> Models] /\ split' \in BOOLEAN /\ RegistryInv'
        /\ slot'[req[r].side] = req[r].prev
    BY <1>2, <1>3, <1>5, <2>1, Commits
  <2>3. /\ \E x \in Requests : Advances(r, x)
        /\ req'[r].out = "rolled_back"
    BY <1>3, <1>5, Ends
  <2>4. Own(r)
    BY <1>2, <1>3, <1>4, <2>2, <2>3 DEF Own, Types
  <2>5. Outcome(r)
    BY <1>4, <2>2, <2>3 DEF Outcome
  <2>6. QED
    BY <2>4, <2>5 DEF Faithful
<1>6. CASE KeepRegistry /\ End(r, "stuck")
  <2>1. /\ \E x \in Requests : Advances(r, x)
        /\ req'[r].out = "stuck"
    BY <1>3, <1>6, Ends
  <2>2. Own(r)
    BY <1>2, <1>3, <1>4, <1>6, <2>1, Keeps DEF Own, Types
  <2>3. QED
    BY <2>1, <2>2 DEF Faithful, Outcome
<1>7. QED
  BY <1>5, <1>6 DEF RolledBack

LEMMA RollbackFailsOwn ==
    ASSUME IInv, NEW r \in Req, RollbackFails(r) PROVE Faithful(r)
<1>1. /\ req[r].pc = "rollback" /\ End(r, "stuck") /\ KeepRegistry
      /\ UNCHANGED <<installed, served, active>>
  BY DEF RollbackFails
<1>2. /\ \E x \in Requests : Advances(r, x)
      /\ req'[r].out = "stuck"
  BY <1>1, Standing, Ends
<1>3. Own(r)
  BY <1>1, <1>2, Standing, Keeps DEF Own, Types
<1>4. QED
  BY <1>2, <1>3 DEF Faithful, Outcome

-----------------------------------------------------------------------------
(* Every step keeps the invariant.                                          *)

(* A step of one request leaves the others, and so whoever is alone, alone. *)
LEMMA OwnKeeps ==
    ASSUME IInv, NEW r \in Req, req[r].pc # "idle", Own(r), UNCHANGED <<cap, known>>
    PROVE  IInv'
<1>1. PICK x \in Requests : Advances(r, x)
  BY DEF Own
<1>2. req' \in [Req -> Requests] /\ req'[r] = x
      /\ \A q \in Req : q # r => req'[q] = req[q]
  BY <1>1 DEF Advances, IInv, Types
<1>3. Types'
  BY <1>2 DEF Own, IInv, Types
<1>4. \A q \in Req : Fits(req[q])'
  BY <1>1, <1>2 DEF Advances, IInv, LoneInv, Fits
<1>5. \A q \in Req : (Busy(q)' => Busy(q)) /\ (LoneBusy(q)' => LoneBusy(q))
  BY <1>1, <1>2 DEF Advances, Busy, LoneBusy
<1>6. \A q, p \in Req : LoneBusy(q)' /\ Busy(p)' => p = q
  BY <1>5 DEF IInv, LoneInv
<1>7. ASSUME NEW q \in Req, LoneBusy(q)'
      PROVE  Tells(req[q], slot, served)'
  <2>1. q = r
    BY <1>5, <1>7 DEF IInv, LoneInv, Busy
  <2>2. Tells(x, slot', served')
    BY <1>1, <1>2, <1>7, <2>1 DEF Advances, LoneBusy, Busy
  <2>3. QED
    BY <1>2, <2>1, <2>2 DEF Tells
<1>8. LoneInv'
  BY <1>4, <1>6, <1>7 DEF LoneInv
<1>9. QED
  BY <1>3, <1>8 DEF Own, IInv

(* An operation that overlaps the requests in flight disturbs them all.     *)
LEMMA DisturbedRequests ==
    ASSUME Types, \A q \in Req : Fits(req[q])
    PROVE  /\ Disturbed(req) \in [Req -> Requests]
           /\ \A q \in Req : LET x == Disturbed(req)[q] IN
                 /\ Fits(x)
                 /\ x.pc = "idle" <=> ~Busy(q)
                 /\ x.pc = "idle" \/ ~x.alone
<1>1. NoSet \in [Side -> Models]
  BY DEF NoSet, Models
<1> SUFFICES ASSUME NEW q \in Req
             PROVE  LET x == Disturbed(req)[q] IN
                    /\ x \in Requests
                    /\ Fits(x)
                    /\ x.pc = "idle" <=> ~Busy(q)
                    /\ x.pc = "idle" \/ ~x.alone
  BY Zenon DEF Disturbed
<1>2. req[q] \in Requests /\ Fits(req[q])
  BY DEF Types
<1>3. CASE req[q].pc = "idle"
  <2>1. Disturbed(req)[q] = Idle
    BY <1>3 DEF Disturbed
  <2>2. QED
    BY <1>3, <2>1, IdleIsRequest DEF Fits, Busy, ActivatePC, SwapPC
<1>4. CASE req[q].pc # "idle"
  <2> DEFINE x == [req[q] EXCEPT !.alone = FALSE, !.slot = NoSet, !.served = NoSet]
  <2>1. Disturbed(req)[q] = x
    BY <1>4 DEF Disturbed
  <2>2. /\ x \in Requests /\ x.pc = req[q].pc /\ x.kind = req[q].kind
        /\ x.model = req[q].model /\ x.restart = req[q].restart /\ x.alone = FALSE
    BY <1>1, <1>2 DEF Requests
  <2> HIDE DEF x
  <2>3. Fits(x)
    BY <1>2, <2>2 DEF Fits
  <2>4. QED
    BY <1>4, <2>1, <2>2, <2>3 DEF Busy
<1>5. QED
  BY <1>3, <1>4

LEMMA AlongsideKeeps ==
    ASSUME IInv, Alongside, slot' \in [Side -> Models], known' \in [Side -> Models],
           served' \in [Side -> Models], active' \in BOOLEAN, split' \in BOOLEAN,
           installed' \subseteq Model, RegistryInv'
    PROVE  IInv'
<1>1. req' = Disturbed(req) /\ UNCHANGED cap
  BY DEF Alongside
<1>2. Types' /\ \A q \in Req : Fits(req'[q]) /\ (req'[q].pc = "idle" \/ ~req'[q].alone)
  BY <1>1, DisturbedRequests DEF IInv, Types, LoneInv
<1>3. LoneInv'
  BY <1>2 DEF LoneInv, LoneBusy, Busy, Fits
<1>4. QED
  BY <1>2, <1>3 DEF IInv

LEMMA BootKeeps ==
    ASSUME IInv, Boot, slot' \in [Side -> Models], split' \in BOOLEAN,
           served' \in [Side -> Models], RegistryInv'
    PROVE  IInv'
<1>1. /\ req' = [r \in Req |-> Idle] /\ active' = FALSE
      /\ installed' = installed \cup {Default} /\ UNCHANGED <<cap, known>>
  BY DEF Boot
<1>2. Types'
  BY <1>1, IdleIsRequest, ActivationAssumption DEF IInv, Types
<1>3. LoneInv'
  BY <1>1, IdleIsRequest DEF LoneInv, LoneBusy, Busy, Fits, ActivatePC, SwapPC
<1>4. QED
  BY <1>2, <1>3 DEF IInv

(* A new request starts its first await; it is alone if nothing else is in  *)
(* flight.                                                                  *)
LEMMA BeginKeeps ==
    ASSUME IInv, NEW r \in Req, NEW m \in Model, NEW side \in Side,
           NEW kind, NEW pc,
           \/ kind = "activate" /\ pc = "load"
           \/ kind = "swap" /\ pc = "preload",
           Begin(r, kind, m, side, pc), KeepRegistry,
           UNCHANGED <<cap, installed, known, served, active>>
    PROVE  IInv' /\ Busy(r)'
<1> DEFINE prev == IF kind = "activate" THEN Selected ELSE slot[side]
           quiet == Quiet
           sl == IF Quiet THEN slot ELSE NoSet
           sv == IF Quiet THEN served ELSE NoSet
           x == [Idle EXCEPT !.pc = pc, !.kind = kind, !.model = m, !.side = side,
                             !.prev = prev, !.alone = quiet, !.slot = sl,
                             !.served = sv]
<1>1. /\ prev \in Models /\ quiet \in BOOLEAN
      /\ sl \in [Side -> Models] /\ sv \in [Side -> Models]
  <2>1. NoSet \in [Side -> Models]
    BY DEF NoSet, Models
  <2>2. prev \in Models
    BY DEF IInv, Types, Selected, Preferred, Side
  <2>3. QED
    BY <2>1, <2>2 DEF IInv, Types, Quiet
<1>2. req' = [Disturbed(req) EXCEPT ![r] = x]
  BY DEF Begin
<1>3. m \in Models /\ (quiet <=> \A q \in Req : ~Busy(q)) /\ (quiet => sv = served)
  BY DEF Models, Quiet
<1> HIDE DEF prev, quiet, sl, sv
<1>4. /\ x \in Requests /\ x.pc = pc /\ x.kind = kind /\ x.model = m
      /\ x.alone = quiet /\ x.served = sv /\ x.restart = FALSE
  <2>1. pc \in {"idle"} \cup ActivatePC \cup SwapPC /\ kind \in {"none", "activate", "swap"}
    BY DEF ActivatePC, SwapPC
  <2>2. x.restart = FALSE
    BY DEF Idle
  <2>3. QED
    BY <1>1, <1>3, <2>1, <2>2, IdleIsRequest DEF Requests
<1> HIDE DEF x
<1>5. /\ Disturbed(req) \in [Req -> Requests]
      /\ \A q \in Req : /\ Fits(Disturbed(req)[q])
                        /\ Disturbed(req)[q].pc = "idle" <=> ~Busy(q)
                        /\ Disturbed(req)[q].pc = "idle" \/ ~Disturbed(req)[q].alone
  BY DisturbedRequests DEF IInv, LoneInv
<1>6. /\ req' \in [Req -> Requests] /\ req'[r] = x
      /\ \A q \in Req : q # r => req'[q] = Disturbed(req)[q]
  BY <1>2, <1>4, <1>5
<1>7. Types' /\ RegistryInv'
  BY <1>6, Keeps DEF IInv, Types
<1>8. Fits(x) /\ (x.alone => Tells(x, slot', served'))
  <2>1. Fits(x)
    BY <1>4 DEF Fits, ActivatePC, SwapPC
  <2>2. x.alone => Tells(x, slot', served')
    BY <1>3, <1>4 DEF Tells, ActivatePC
  <2>3. QED
    BY <2>1, <2>2
<1>9. LoneInv'
  <2>1. \A q \in Req : Fits(req'[q])
    BY <1>5, <1>6, <1>8
  <2>2. \A q \in Req : LoneBusy(q)' => q = r
    BY <1>5, <1>6 DEF LoneBusy, Busy
  <2>3. LoneBusy(r)' => \A q \in Req : q # r => ~Busy(q)'
    BY <1>3, <1>4, <1>5, <1>6 DEF LoneBusy, Busy
  <2>4. \A q \in Req : LoneBusy(q)' => Tells(req'[q], slot', served')
    BY <1>6, <1>8, <2>2 DEF LoneBusy
  <2>5. QED
    BY <2>1, <2>2, <2>3, <2>4 DEF LoneInv, Fits, Tells
<1>10. QED
  BY <1>4, <1>6, <1>7, <1>9 DEF IInv, Busy

(* Every step of a request keeps the invariant and tells its caller what    *)
(* happened.                                                                *)
LEMMA RequestStep ==
    ASSUME IInv, NEW r \in Req, ActivateStep(r) \/ SwapStep(r)
    PROVE  IInv' /\ Faithful(r) /\ \A q \in Req : q # r => req'[q] = req[q]
<1>1. Faithful(r)
  BY LoadFailsOwn, LoadedOwn, ReboundOwn, RebindFailsOwn, PreviousUnloadedOwn,
     StoppedOwn, StartedOwn, StartFailsOwn, PreloadedOwn, PreloadFailsOwn,
     SwappedOwn, RolledBackOwn, RollbackFailsOwn
  DEF ActivateStep, SwapStep
<1>2. req[r].pc # "idle" /\ UNCHANGED <<cap, known>>
  BY DEF ActivateStep, SwapStep, LoadFails, Loaded, Rebound, RebindFails,
         PreviousUnloaded, Stopped, Started, StartFails, Preloaded,
         PreloadFails, Swapped, RolledBack, RollbackFails, Rest
<1>3. IInv'
  BY <1>1, <1>2, OwnKeeps DEF Faithful
<1>4. \A q \in Req : q # r => req'[q] = req[q]
  BY <1>1 DEF Faithful, Own, Advances, IInv, Types
<1>5. QED
  BY <1>1, <1>3, <1>4

LEMMA IInvInit == Init => IInv
<1> SUFFICES ASSUME Init PROVE IInv
  OBVIOUS
<1>1. /\ cap \in Capability /\ slot = Both(Default) /\ flag = {Default}
      /\ installed \subseteq Model /\ Default \in installed
      /\ known = NoSet /\ served = Both(Default) /\ active = FALSE
      /\ req = [r \in Req |-> Idle] /\ split = FALSE
  BY DEF Init
<1>2. Default \in Models /\ NoSet \in [Side -> Models]
  BY ActivationAssumption DEF Models, NoSet
<1>3. Types
  BY <1>1, <1>2, BothSides, IdleIsRequest, ActivationAssumption DEF Types
<1>4. RegistryInv
  BY <1>1, <1>2, BothSides DEF RegistryInv
<1>5. LoneInv
  BY <1>1, IdleIsRequest DEF LoneInv, LoneBusy, Busy, Fits, ActivatePC, SwapPC
<1>6. QED
  BY <1>3, <1>4, <1>5 DEF IInv

LEMMA IInvStep == IInv /\ [Next]_vars => IInv'
<1> SUFFICES ASSUME IInv, [Next]_vars PROVE IInv'
  OBVIOUS
<1>1. ASSUME NEW r \in Req, NEW m \in Model, Activate(r, m) PROVE IInv'
  <2>1. Begin(r, "activate", m, "en", "load") /\ "en" \in Side
    BY <1>1 DEF Activate, Side
  <2>2. KeepRegistry /\ UNCHANGED <<cap, installed, known, served, active>>
    BY <1>1 DEF Activate
  <2>3. QED
    BY <2>1, <2>2, BeginKeeps
<1>2. ASSUME NEW r \in Req, NEW m \in Model, NEW side \in Side, Swap(r, m, side)
      PROVE  IInv'
  <2>1. Begin(r, "swap", m, side, "preload")
    BY <1>2 DEF Swap
  <2>2. KeepRegistry /\ UNCHANGED <<cap, installed, known, served, active>>
    BY <1>2 DEF Swap
  <2>3. QED
    BY <2>1, <2>2, BeginKeeps
<1>3. ASSUME NEW r \in Req, ActivateStep(r) \/ SwapStep(r) PROVE IInv'
  BY <1>3, RequestStep
<1>4. ASSUME NEW r \in Req, CrashInCommit(r) PROVE IInv'
  <2>1. /\ Boot /\ served' = Restored' /\ split' = TRUE
        /\ slot' = [slot EXCEPT !["en"] = req[r].model]
    BY <1>4 DEF CrashInCommit
  <2>2. req[r].model \in Models
    BY DEF IInv, Types, Requests
  <2>3. slot' \in [Side -> Models]
    BY <2>1, <2>2 DEF IInv, Types
  <2>4. served' \in [Side -> Models]
    BY <2>1, <2>3, BothSides, ActivationAssumption
    DEF Restored, Selected, Preferred, Side, Models
  <2>5. RegistryInv'
    BY <2>1 DEF RegistryInv
  <2>6. QED
    BY <2>1, <2>3, <2>4, <2>5, BootKeeps
<1>5. ASSUME NEW m \in Model, Uninstall(m) PROVE IInv'
  \* A model that is uninstalled is not flagged, so no slot set together
  \* with the other names it.
  <2>1. RegistryInv'
    BY <1>5 DEF Uninstall, KeepRegistry, IInv, RegistryInv
  <2>2. QED
    BY <1>5, <2>1, AlongsideKeeps DEF Uninstall, KeepRegistry, IInv, Types
<1>6. ASSUME NEW m \in Model, Installed(m) PROVE IInv'
  <2>1. RegistryInv'
    BY <1>6 DEF Installed, KeepRegistry, IInv, RegistryInv
  <2>2. QED
    BY <1>6, <2>1, AlongsideKeeps DEF Installed, KeepRegistry, IInv, Types
<1>7. CASE SaveKnownGood
  BY <1>7, AlongsideKeeps DEF SaveKnownGood, KeepRegistry, IInv, Types, RegistryInv
<1>8. CASE RollbackKnownGood
  <2>1. slot' \in [Side -> Models]
    BY <1>8 DEF RollbackKnownGood, IInv, Types
  <2>2. QED
    BY <1>8, <2>1, AlongsideKeeps DEF RollbackKnownGood, IInv, Types, RegistryInv
<1>9. CASE Toggle
  BY <1>9, AlongsideKeeps DEF Toggle, KeepRegistry, IInv, Types, RegistryInv
<1>10. CASE Crash
  <2>1. /\ Boot /\ served' = Restored /\ KeepRegistry
        /\ installed \subseteq installed'
    BY <1>10 DEF Crash, Boot
  <2>2. served' \in [Side -> Models]
    BY <2>1, BothSides, ActivationAssumption
    DEF Restored, Selected, Preferred, Side, Models, IInv, Types
  <2>3. QED
    BY <2>1, <2>2, Keeps, BootKeeps DEF IInv
<1>11. CASE UNCHANGED vars
  BY <1>11
  DEF vars, IInv, Types, RegistryInv, LoneInv, LoneBusy, Busy, Fits, Tells
<1>12. QED
  BY <1>1, <1>2, <1>3, <1>4, <1>5, <1>6, <1>7, <1>8, <1>9, <1>10, <1>11 DEF Next

-----------------------------------------------------------------------------
(* The theorems.                                                            *)

LEMMA Invariance == Spec => []IInv
<1>1. QED
  BY IInvInit, IInvStep, PTL DEF Spec

(* Variables keep their types, whatever requests, uninstallations and       *)
(* restarts interleave.                                                     *)
THEOREM TypesHold == Spec => []Types
<1>1. IInv => Types
  BY DEF IInv
<1>2. QED
  BY <1>1, Invariance, PTL

(* A model that both slots were set to is never uninstalled or cleaned up,  *)
(* at whatever point the activations in flight are.                         *)
THEOREM SlotModelsAreKept == Spec => []SlotModelIsKept
<1>1. IInv => SlotModelIsKept
  BY DEF IInv, RegistryInv, SlotModelIsKept
<1>2. QED
  BY <1>1, Invariance, PTL

(* What the caller of an activation or a swap that nothing overlaps is told *)
(* is what the registry and the adapters then are.                          *)
THEOREM LoneRequestsAreTold == Spec => LoneRequestsTellTheTruth
<1>1. IInv /\ [Next]_vars =>
        \A r \in Req : Busy(r) /\ ~Busy(r)' /\ req[r].alone => Outcome(r)
  <2>1. SUFFICES ASSUME IInv, [Next]_vars, NEW r \in Req, Busy(r), ~Busy(r)',
                        req[r].alone
                 PROVE  Outcome(r)
    OBVIOUS
  <2>2. ASSUME NEW q \in Req, ActivateStep(q) \/ SwapStep(q) PROVE Outcome(r)
    <3>1. q = r
      BY <2>1, <2>2, RequestStep DEF Busy
    <3>2. QED
      BY <2>1, <2>2, <3>1, RequestStep DEF Faithful
  <2>3. ASSUME NEW q \in Req, NEW m \in Model, NEW side \in Side,
               Activate(q, m) \/ Swap(q, m, side)
        PROVE  FALSE
    \* The requests in flight stay in flight.
    <3>1. ~Busy(q) /\ \A p \in Req : p # q => req'[p] = Disturbed(req)[p]
      <4>1. Disturbed(req) \in [Req -> Requests]
        BY <2>1, DisturbedRequests DEF IInv, LoneInv
      <4>2. QED
        BY <2>3, <4>1 DEF Activate, Swap, Begin
    <3>2. Disturbed(req)[r].pc # "idle"
      BY <2>1, DisturbedRequests DEF IInv, LoneInv
    <3>3. QED
      BY <2>1, <3>1, <3>2 DEF Busy
  <2>4. ASSUME Alongside PROVE FALSE
    <3>1. Disturbed(req)[r].pc # "idle"
      BY <2>1, DisturbedRequests DEF IInv, LoneInv
    <3>2. QED
      BY <2>1, <2>4, <3>1 DEF Alongside, Busy
  <2>5. ASSUME Boot PROVE Outcome(r)
    BY <2>5 DEF Boot, Idle, Outcome
  <2>6. ASSUME UNCHANGED vars PROVE FALSE
    BY <2>1, <2>6 DEF vars, Busy
  <2>7. QED
    BY <2>1, <2>2, <2>3, <2>4, <2>5, <2>6
    DEF Next, CrashInCommit, Uninstall, Installed, SaveKnownGood,
        RollbackKnownGood, Toggle, Crash, Side
<1>2. QED
  BY <1>1, Invariance, PTL DEF Spec, LoneRequestsTellTheTruth

-----------------------------------------------------------------------------
(* ModelInstall: what is known of a job and its threads.                    *)

Chunk == (Revision \cup {"none", "hole"}) \X Nat
Directories == [File -> Seq(Chunk)]

Jobs == [pc : {"none", "queued", "fetching", "checking", "testing", "ended"},
         n : 0 .. MaxInstalls, rev : Revision \cup {"none"}, sums : BOOLEAN,
         cancel : BOOLEAN, left : SUBSET File, fresh : BOOLEAN, alone : BOOLEAN]
Threads == [st : {"none", "ready", "running", "done", "failed"},
            rev : Revision \cup {"none"}, mode : {"none", "wb", "ab", "path"},
            file : File \cup {"none"}, at : Nat, left : SUBSET File,
            dir : {"stage", "store", "gone"}]

InstallTypes ==
    /\ fetcher \in {"hub", "raw", "local"}
    /\ status \in {"unknown", "none", "downloading", "installed", "failed"}
    /\ job \in Jobs
    /\ thread \in [Install -> Threads]
    /\ stage \in [made : BOOLEAN, has : Directories]
    /\ store \in Directories
    /\ origin \in [rev : Revision \cup {"none"}, fresh : BOOLEAN, checked : BOOLEAN]
    /\ halved \in BOOLEAN

(* A job that runs has a number of its own, and its thread works only while *)
(* it fetches; one that began alone has stayed so.                          *)
JobInv ==
    /\ \A n \in Install : n > job.n => thread[n].st = "none"
    /\ Live =>
          /\ job.n \in Install /\ job.rev \in Revision /\ job.left \subseteq FilesOf[job.rev]
          /\ job.pc = "queued" => thread[job.n].st = "none"
          /\ job.pc # "fetching" => ~Working(job.n)
          /\ job.alone => \A n \in Install \ {job.n} : ~Working(n)

(* A thread that works knows what it fetches, and begins in the staging      *)
(* directory.                                                               *)
ThreadInv ==
    \A n \in Install : Working(n) =>
        /\ thread[n].rev \in Revision
        /\ thread[n].mode # "path" => thread[n].file \in File
        /\ thread[n].st = "ready" => thread[n].dir = "stage"

(* Files of revision r of which those in "done" have been fetched.          *)
HasOnly(r, done) ==
    \A f \in File : stage.has[f] = IF f \in done THEN Whole(r, f) ELSE <<>>

(* What the thread t of a job that began with nothing has fetched so far.   *)
RawFetches(t) ==
    /\ t.mode = "wb" /\ t.dir = "stage" /\ t.rev = job.rev
    /\ t.file \in FilesOf[job.rev] \ job.left
    /\ \A f \in File \ {t.file} :
          stage.has[f] = IF f \in FilesOf[job.rev] \ job.left THEN Whole(job.rev, f) ELSE <<>>
    /\ t.st = "ready" => t.at = 0
    /\ t.st = "running" =>
          /\ t.at < Chunks[t.file]
          /\ stage.has[t.file] = [i \in 1 .. t.at |-> <<job.rev, i>>]
    /\ t.st = "done" => stage.has[t.file] = Whole(job.rev, t.file)

PathFetches(t) ==
    /\ t.mode = "path" /\ t.rev = job.rev /\ t.left \subseteq FilesOf[job.rev]
    /\ HasOnly(job.rev, FilesOf[job.rev] \ t.left)
    /\ t.st = "ready" => t.left = FilesOf[job.rev]
    /\ t.st = "done" => t.left = {}
    /\ job.left = {}

FreshInv ==
    Live /\ job.fresh /\ job.alone =>
        CASE job.pc = "queued" -> job.left = FilesOf[job.rev] /\ HasOnly(job.rev, {})
          [] job.pc = "fetching" -> IF fetcher = "raw" THEN RawFetches(thread[job.n])
                                    ELSE PathFetches(thread[job.n])
          [] OTHER -> HasOnly(job.rev, FilesOf[job.rev])

CheckedInv ==
    job.pc = "testing" /\ job.sums /\ job.alone => ChecksumsMatch

(* Nobody writes to an installation that is known to be whole.              *)
StoreInv ==
    origin.fresh \/ origin.checked =>
        \A n \in Install : ~(HoldsFile(n) /\ thread[n].dir = "store")

InstallInv ==
    /\ InstallTypes /\ JobInv /\ ThreadInv
    /\ FreshInv /\ CheckedInv /\ StoreInv
    /\ CleanInstallIsWhole /\ InstalledIsOnDisk

-----------------------------------------------------------------------------
(* Files and what a thread writes into them.                                *)

LEMMA WholeType ==
    ASSUME NEW r \in Revision, NEW f \in File
    PROVE  /\ Whole(r, f) \in Seq(Chunk)
           /\ f \in FilesOf[r] => Whole(r, f) # <<>> /\ Len(Whole(r, f)) = Chunks[f]
<1>1. CASE f \in FilesOf[r]
  <2>1. Chunks[f] \in Nat \ {0}
    BY InstallAssumption
  <2>2. \A i \in 1 .. Chunks[f] : <<r, i>> \in Chunk
    BY <2>1 DEF Chunk
  <2>3. [i \in 1 .. Chunks[f] |-> <<r, i>>] \in Seq(Chunk)
    BY <2>1, <2>2
  <2>4. QED
    BY <1>1, <2>1, <2>3 DEF Whole
<1>2. CASE f \notin FilesOf[r]
  BY <1>2 DEF Whole
<1>3. QED
  BY <1>1, <1>2

LEMMA WriteAtType ==
    ASSUME NEW s \in Seq(Chunk), NEW p \in Nat, NEW c \in Chunk
    PROVE  /\ WriteAt(s, p, c) \in Seq(Chunk)
           /\ WriteAt(s, p, c) # <<>>
           /\ Len(s) = p =>
                WriteAt(s, p, c) = [i \in 1 .. p + 1 |-> IF i = p + 1 THEN c ELSE s[i]]
<1> DEFINE n == IF Len(s) > p THEN Len(s) ELSE p + 1
           e(i) == IF i = p + 1 THEN c ELSE IF i <= Len(s) THEN s[i] ELSE Hole
<1>1. Len(s) \in Nat /\ n \in Nat /\ n >= 1 /\ (Len(s) = p => n = p + 1)
  OBVIOUS
<1>2. \A i \in 1 .. n : e(i) \in Chunk
  <2>1. Hole \in Chunk
    BY DEF Hole, Chunk
  <2>2. QED
    BY <1>1, <2>1
<1>3. WriteAt(s, p, c) = [i \in 1 .. n |-> e(i)]
  BY DEF WriteAt
<1>4. \A i \in 1 .. p + 1 : Len(s) = p => e(i) = IF i = p + 1 THEN c ELSE s[i]
  OBVIOUS
<1> HIDE DEF n, e
<1>5. [i \in 1 .. n |-> e(i)] \in Seq(Chunk) /\ Len([i \in 1 .. n |-> e(i)]) = n
  BY <1>1, <1>2
<1>6. [i \in 1 .. n |-> e(i)] # <<>>
  BY <1>1, <1>5
<1>7. ASSUME Len(s) = p
      PROVE  [i \in 1 .. n |-> e(i)] = [i \in 1 .. p + 1 |-> IF i = p + 1 THEN c ELSE s[i]]
  BY <1>1, <1>4, <1>7
<1>8. QED
  BY <1>3, <1>5, <1>6, <1>7

LEMMA WrittenType ==
    ASSUME NEW s \in Seq(Chunk), NEW t \in Threads, t.rev \in Revision
    PROVE  Written(s, t) \in Seq(Chunk) /\ Written(s, t) # <<>>
<1>1. t.at \in Nat /\ <<t.rev, t.at + 1>> \in Chunk
  BY DEF Threads, Chunk
<1>2. Append(s, <<t.rev, t.at + 1>>) \in Seq(Chunk) /\ Append(s, <<t.rev, t.at + 1>>) # <<>>
  BY <1>1, AppendProperties
<1>3. QED
  BY <1>1, <1>2, WriteAtType DEF Written

LEMMA NothingThere ==
    /\ NoFiles \in Directories
    /\ NoJob \in Jobs /\ NoThread \in Threads
    /\ NoOrigin \in [rev : Revision \cup {"none"}, fresh : BOOLEAN, checked : BOOLEAN]
  BY InstallAssumption
  DEF NoFiles, Directories, NoJob, Jobs, NoThread, Threads, NoOrigin

LEMMA Repository ==
    /\ MaxInstalls \in Nat
    /\ \A r \in Revision : FilesOf[r] \subseteq File /\ FilesOf[r] # {}
    /\ \A f \in File : Chunks[f] \in Nat \ {0}
  BY InstallAssumption

-----------------------------------------------------------------------------
(* How a job ends.                                                          *)

(* Removing a directory changes no more of a thread than where it writes.   *)
LEMMA UnlinkKeeps ==
    ASSUME InstallTypes, NEW d
    PROVE  /\ Unlink(d) \in [Install -> Threads]
           /\ \A n \in Install :
                 /\ Unlink(d)[n] = thread[n] \/ Unlink(d)[n] = [thread[n] EXCEPT !.dir = "gone"]
                 /\ ~HoldsFile(n) => Unlink(d)[n] = thread[n]
                 /\ Unlink(d)[n].st = thread[n].st
                 /\ Unlink(d)[n].dir \in {thread[n].dir, "gone"}
<1>1. \A n \in Install : thread[n] \in Threads
  BY DEF InstallTypes
<1>2. \A n \in Install : [thread[n] EXCEPT !.dir = "gone"] \in Threads
  BY <1>1 DEF Threads
<1>3. \A n \in Install :
         Unlink(d)[n] = IF HoldsFile(n) /\ thread[n].dir = d
                        THEN [thread[n] EXCEPT !.dir = "gone"] ELSE thread[n]
  BY DEF Unlink
<1>4. \A n \in Install : [thread[n] EXCEPT !.dir = "gone"].st = thread[n].st
  BY <1>1 DEF Threads
<1>5. \A n \in Install : [thread[n] EXCEPT !.dir = "gone"].dir = "gone"
  BY <1>1 DEF Threads
<1>6. Unlink(d) \in [Install -> Threads]
  BY <1>1, <1>2 DEF Unlink
<1>7. QED
  BY <1>3, <1>4, <1>5, <1>6

(* Threads that only write elsewhere keep what is known of them.            *)
LEMMA RemovalKeeps ==
    ASSUME InstallInv, NEW d, thread' = Unlink(d)
    PROVE  /\ \A n \in Install : thread'[n].st = thread[n].st /\ (Working(n)' <=> Working(n))
           /\ ThreadInv'
           /\ \A n \in Install : HoldsFile(n)' /\ thread'[n].dir = "store" =>
                                     HoldsFile(n) /\ thread[n].dir = "store"
<1>1. \A n \in Install : thread[n] \in Threads
  BY DEF InstallInv, InstallTypes
<1>2. \A n \in Install :
         /\ thread'[n] = thread[n] \/ thread'[n] = [thread[n] EXCEPT !.dir = "gone"]
         /\ ~HoldsFile(n) => thread'[n] = thread[n]
         /\ thread'[n].st = thread[n].st
         /\ thread'[n].dir \in {thread[n].dir, "gone"}
  BY UnlinkKeeps DEF InstallInv
<1>3. \A n \in Install :
         /\ thread'[n].rev = thread[n].rev /\ thread'[n].mode = thread[n].mode
         /\ thread'[n].file = thread[n].file
  BY <1>1, <1>2 DEF Threads
<1>4. QED
  <2>1. \A n \in Install : thread[n].st = "ready" => thread'[n] = thread[n]
    BY <1>2 DEF HoldsFile
  <2>2. ThreadInv'
    <3>1. SUFFICES ASSUME NEW n \in Install, Working(n)'
                   PROVE  /\ thread'[n].rev \in Revision
                          /\ thread'[n].mode # "path" => thread'[n].file \in File
                          /\ thread'[n].st = "ready" => thread'[n].dir = "stage"
      BY DEF ThreadInv
    <3>2. thread'[n].st = thread[n].st /\ Working(n)
      BY <1>2, <3>1 DEF Working
    <3>3. QED
      BY <1>3, <2>1, <3>1, <3>2 DEF InstallInv, ThreadInv
  <2>3. QED
    BY <1>2, <1>3, <2>2 DEF Working, HoldsFile

LEMMA JobFailsStep ==
    ASSUME InstallInv, JobFails
    PROVE  InstallInv'
<1>1. /\ job' = [job EXCEPT !.pc = "ended"] /\ status' = "failed"
      /\ stage' = [made |-> FALSE, has |-> NoFiles]
      /\ thread' = Unlink("stage")
      /\ UNCHANGED <<fetcher, origin, store, orphaned, halved, restarts>>
  BY DEF JobFails
<1>2. InstallTypes'
  BY <1>1, UnlinkKeeps, NothingThere DEF InstallInv, InstallTypes, Jobs
<1>3. job' \in Jobs /\ job'.pc = "ended" /\ ~Live' /\ job'.n = job.n
  BY <1>1 DEF InstallInv, InstallTypes, Jobs, Live
<1>4. JobInv'
  BY <1>1, <1>3, RemovalKeeps DEF InstallInv, JobInv
<1>5. ThreadInv' /\ StoreInv'
  BY <1>1, RemovalKeeps DEF InstallInv, StoreInv
<1>6. FreshInv' /\ CheckedInv'
  BY <1>3 DEF FreshInv, CheckedInv
<1>7. CleanInstallIsWhole' /\ InstalledIsOnDisk'
  BY <1>1 DEF InstallInv, CleanInstallIsWhole, InstalledIsOnDisk
<1>8. QED
  BY <1>2, <1>4, <1>5, <1>6, <1>7 DEF InstallInv

(* What a job knows when all its threads are done: a fresh one that it has  *)
(* everything, a checked one that what it has is whole.                     *)
Fetched ==
    /\ Live /\ ~Working(job.n)
    /\ job.fresh /\ job.alone => HasOnly(job.rev, FilesOf[job.rev])

Checked == job.sums /\ job.alone => ChecksumsMatch

LEMMA PromoteStep ==
    ASSUME InstallInv, Fetched, Checked, HasWeights, Promote
    PROVE  InstallInv'
<1>1. /\ store' = stage.has /\ stage' = [made |-> FALSE, has |-> NoFiles]
      /\ origin' = [rev |-> job.rev, fresh |-> job.fresh /\ job.alone,
                    checked |-> job.sums /\ job.alone]
      /\ status' = "installed" /\ job' = [job EXCEPT !.pc = "ended"]
      /\ halved' = FALSE /\ UNCHANGED <<fetcher, orphaned, restarts>>
  BY DEF Promote, Promoted
<1>2. \A n \in Install :
         /\ thread'[n] \in Threads
         /\ thread'[n].st = thread[n].st /\ thread'[n].rev = thread[n].rev
         /\ thread'[n].mode = thread[n].mode /\ thread'[n].file = thread[n].file
         /\ thread[n].st = "ready" => thread'[n].dir = thread[n].dir
  <2> SUFFICES ASSUME NEW n \in Install
               PROVE  /\ thread'[n] \in Threads
                      /\ thread'[n].st = thread[n].st /\ thread'[n].rev = thread[n].rev
                      /\ thread'[n].mode = thread[n].mode /\ thread'[n].file = thread[n].file
                      /\ thread[n].st = "ready" => thread'[n].dir = thread[n].dir
    OBVIOUS
  <2>1. thread[n] \in Threads
    BY DEF InstallInv, InstallTypes
  <2>2. thread'[n] = IF HoldsFile(n)
                     THEN [thread[n] EXCEPT !.dir = IF @ = "stage" THEN "store" ELSE "gone"]
                     ELSE thread[n]
    BY DEF Promote
  <2>3. QED
    BY <2>1, <2>2 DEF Threads, HoldsFile
<1>3. thread' \in [Install -> Threads]
  <2>1. \E e \in [Install -> {thread'[n] : n \in Install}] : thread' = e
    BY DEF Promote
  <2>2. QED
    BY <1>2, <2>1
<1>4. job' \in Jobs /\ job'.pc = "ended" /\ ~Live' /\ job'.n = job.n
  BY <1>1 DEF InstallInv, InstallTypes, Jobs, Live
<1>5. job \in Jobs /\ job.rev \in Revision /\ job.n \in Install
  BY DEF InstallInv, InstallTypes, JobInv, Fetched
<1>6. InstallTypes'
  BY <1>1, <1>3, <1>4, <1>5, NothingThere DEF InstallInv, InstallTypes, Jobs
<1>7. JobInv'
  BY <1>2, <1>4 DEF InstallInv, JobInv
<1>8. ThreadInv'
  BY <1>2 DEF InstallInv, ThreadInv, Working
<1>9. FreshInv' /\ CheckedInv'
  BY <1>4 DEF FreshInv, CheckedInv
<1>10. StoreInv'
  <2>1. job.alone => \A n \in Install : ~Working(n)
    BY <1>5 DEF InstallInv, JobInv, Fetched
  <2>2. \A n \in Install : HoldsFile(n)' => Working(n)
    BY <1>2 DEF HoldsFile, Working
  <2>3. QED
    BY <1>1, <1>5, <2>1, <2>2 DEF StoreInv, Jobs
<1>11. CleanInstallIsWhole'
  <2>1. FilesOf[job.rev] \subseteq File
    BY <1>5, Repository
  <2>2. job.fresh /\ job.alone => \A f \in File : stage.has[f] = Whole(job.rev, f)
    BY DEF Fetched, HasOnly, Whole
  <2>3. job.sums /\ job.alone =>
           \A f \in FilesOf[job.rev] : stage.has[f] = Whole(job.rev, f)
    BY DEF Checked, ChecksumsMatch
  <2>4. origin'.rev = job.rev /\ (origin'.fresh <=> job.fresh /\ job.alone)
        /\ (origin'.checked <=> job.sums /\ job.alone)
    BY <1>1, <1>5 DEF Jobs
  <2>5. QED
    BY <1>1, <2>2, <2>3, <2>4 DEF CleanInstallIsWhole, Whole
<1>12. InstalledIsOnDisk'
  <2>1. PICK f \in Weights : stage.has[f] # <<>>
    BY DEF HasWeights
  <2>2. f \in File
    BY InstallAssumption
  <2>3. NoFiles[f] = <<>>
    BY <2>2 DEF NoFiles
  <2>4. QED
    BY <1>1, <2>1, <2>3 DEF InstalledIsOnDisk, OnDisk, NoFiles
<1>13. QED
  BY <1>6, <1>7, <1>8, <1>9, <1>10, <1>11, <1>12 DEF InstallInv

-----------------------------------------------------------------------------
(* The steps of the job.                                                    *)

LEMMA JobMoves ==
    ASSUME InstallInv, Fetched, NEW p \in {"checking", "testing"},
           p = "testing" => Checked,
           job' = [job EXCEPT !.pc = p], UNCHANGED <<status, stage, thread>>, Keep
    PROVE  InstallInv'
<1>1. /\ job \in Jobs /\ job' \in Jobs /\ job'.pc = p /\ Live'
      /\ job'.n = job.n /\ job'.rev = job.rev /\ job'.sums = job.sums
      /\ job'.left = job.left /\ job'.fresh = job.fresh /\ job'.alone = job.alone
  BY DEF InstallInv, InstallTypes, Jobs, Live
<1>2. /\ \A n \in Install : (Working(n)' <=> Working(n)) /\ thread'[n] = thread[n]
      /\ stage' = stage
  BY DEF Working
<1>3. JobInv'
  BY <1>1, <1>2 DEF InstallInv, JobInv, Fetched
<1>4. FreshInv' /\ CheckedInv'
  BY <1>1, <1>2 DEF FreshInv, CheckedInv, Fetched, Checked, HasOnly, ChecksumsMatch
<1>5. InstallTypes' /\ ThreadInv' /\ StoreInv' /\ CleanInstallIsWhole' /\ InstalledIsOnDisk'
  BY <1>1, <1>2 DEF InstallInv, InstallTypes, ThreadInv, StoreInv, CleanInstallIsWhole,
       InstalledIsOnDisk, OnDisk, HoldsFile, Keep
<1>6. QED
  BY <1>3, <1>4, <1>5 DEF InstallInv

LEMMA SmokeStep ==
    ASSUME InstallInv, Fetched, Checked, Smoke
    PROVE  InstallInv'
<1>1. CASE fetcher # "local"
  BY <1>1, JobMoves DEF Smoke
<1>2. CASE fetcher = "local"
  BY <1>2, PromoteStep, JobFailsStep DEF Smoke
<1>3. QED
  BY <1>1, <1>2

LEMMA ValidateStep ==
    ASSUME InstallInv, Fetched, Validate
    PROVE  InstallInv'
<1>1. CASE stage.has = NoFiles
  BY <1>1, JobFailsStep DEF Validate
<1>2. CASE stage.has # NoFiles /\ job.sums
  BY <1>2, JobMoves DEF Validate
<1>3. CASE stage.has # NoFiles /\ ~job.sums
  BY <1>3, SmokeStep DEF Validate, Checked
<1>4. QED
  BY <1>1, <1>2, <1>3

(* A job hands its next fetch to a thread of its own.                       *)
LEMMA JobFetches ==
    ASSUME InstallInv, Live, ~Working(job.n),
           NEW left \in SUBSET File, left \subseteq FilesOf[job.rev],
           NEW t \in Threads, t.st = "ready", t.rev = job.rev, t.dir = "stage",
           t.mode # "path" => t.file \in File,
           job' = [job EXCEPT !.pc = "fetching", !.left = left],
           thread' = [thread EXCEPT ![job.n] = t],
           stage' = [stage EXCEPT !.made = TRUE],
           UNCHANGED status, Keep,
           job'.fresh /\ job'.alone =>
               IF fetcher = "raw" THEN RawFetches(t)' ELSE PathFetches(t)'
    PROVE  InstallInv'
<1>1. /\ job \in Jobs /\ job.n \in Install /\ job.rev \in Revision
      /\ thread \in [Install -> Threads] /\ stage \in [made : BOOLEAN, has : Directories]
  BY DEF InstallInv, InstallTypes, JobInv
<1>2. /\ job' \in Jobs /\ job'.pc = "fetching" /\ job'.left = left
      /\ job'.n = job.n /\ job'.rev = job.rev /\ job'.sums = job.sums
      /\ job'.fresh = job.fresh /\ job'.alone = job.alone
  BY <1>1 DEF Jobs
<1>3. /\ thread' \in [Install -> Threads] /\ thread'[job.n] = t
      /\ \A n \in Install \ {job.n} : thread'[n] = thread[n]
  BY <1>1
<1>4. stage' \in [made : BOOLEAN, has : Directories] /\ stage'.has = stage.has
  BY <1>1
<1>5. InstallTypes'
  BY <1>2, <1>3, <1>4 DEF InstallInv, InstallTypes, Keep
<1>6. JobInv'
  <2>1. \A n \in Install : n > job.n => n # job.n
    BY <1>1, <1>2 DEF Install
  <2>2. QED
    BY <1>1, <1>2, <1>3, <2>1 DEF InstallInv, JobInv, Working, Live
<1>7. ThreadInv'
  BY <1>1, <1>3 DEF InstallInv, ThreadInv, Working
<1>8. FreshInv' /\ CheckedInv'
  BY <1>2, <1>3 DEF FreshInv, CheckedInv, Keep
<1>9. StoreInv'
  BY <1>3 DEF InstallInv, StoreInv, HoldsFile, Keep
<1>10. CleanInstallIsWhole' /\ InstalledIsOnDisk'
  BY DEF InstallInv, CleanInstallIsWhole, InstalledIsOnDisk, OnDisk, Keep
<1>11. QED
  BY <1>5, <1>6, <1>7, <1>8, <1>9, <1>10 DEF InstallInv

LEMMA FetchNextStep ==
    ASSUME InstallInv, Live, ~Working(job.n),
           job.fresh /\ job.alone => HasOnly(job.rev, FilesOf[job.rev] \ job.left),
           fetcher # "raw" => job.pc = "queued",
           FetchNext(job.left)
    PROVE  InstallInv'
<1>1. /\ job \in Jobs /\ job.n \in Install /\ job.rev \in Revision
      /\ job.left \subseteq FilesOf[job.rev] /\ FilesOf[job.rev] \subseteq File
      /\ stage \in [made : BOOLEAN, has : Directories]
  BY Repository DEF InstallInv, InstallTypes, JobInv
<1>2. /\ job.n \in Nat /\ \A f \in File : Len(stage.has[f]) \in Nat
      /\ \A f \in File : stage.has[f] \in Seq(Chunk)
  BY <1>1 DEF Install, Directories
<1>3. CASE fetcher = "raw" /\ ToFetch(job.left) = {}
  <2>1. Fetched
    <3> SUFFICES ASSUME job.fresh, job.alone
                 PROVE  HasOnly(job.rev, FilesOf[job.rev])
      BY DEF Fetched
    <3>1. \A f \in job.left : stage.has[f] = <<>>
      BY <1>1 DEF HasOnly
    <3>2. \A f \in job.left : Len(stage.has[f]) = Chunks[f]
      BY <1>3 DEF ToFetch
    <3>3. job.left = {}
      BY <1>1, <3>1, <3>2, InstallAssumption
    <3>4. QED
      BY <3>3
  <2>2. QED
    BY <1>3, <2>1, ValidateStep DEF FetchNext
<1>4. CASE fetcher = "raw" /\ ToFetch(job.left) # {}
  <2>1. PICK f \in ToFetch(job.left) :
          /\ job' = [job EXCEPT !.pc = "fetching", !.left = job.left \ {f}]
          /\ thread' = [thread EXCEPT ![job.n] = RawThread(f)]
          /\ stage' = [stage EXCEPT !.made = TRUE]
          /\ UNCHANGED status /\ Keep
    BY <1>4 DEF FetchNext
  <2>2. f \in File /\ f \in job.left
    BY <1>1 DEF ToFetch
  <2>3. PICK t \in Threads : t = RawThread(f)
    <3>1. RawThread(f) \in Threads
      BY <1>1, <1>2, <2>2 DEF RawThread, Threads
    <3>2. QED
      BY <3>1
  <2>4. /\ t.st = "ready" /\ t.rev = job.rev /\ t.file = f /\ t.dir = "stage"
        /\ t.at = Len(stage.has[f])
        /\ t.mode = IF stage.has[f] = <<>> THEN "wb" ELSE "ab"
    BY <2>3 DEF RawThread
  <2>5. /\ job'.rev = job.rev /\ job'.left = job.left \ {f} /\ stage'.has = stage.has
        /\ job'.fresh = job.fresh /\ job'.alone = job.alone
    BY <1>1, <2>1 DEF Jobs
  <2>6. job.fresh /\ job.alone => RawFetches(t)'
    <3> SUFFICES ASSUME job.fresh, job.alone
                 PROVE  RawFetches(t)'
      OBVIOUS
    <3>1. \A g \in File : stage.has[g] = IF g \in FilesOf[job.rev] \ job.left
                                         THEN Whole(job.rev, g) ELSE <<>>
      BY DEF HasOnly
    <3>2. stage.has[f] = <<>> /\ Len(stage.has[f]) = 0
      BY <2>2, <3>1
    <3>3. \A g \in File \ {f} : g \in FilesOf[job'.rev] \ job'.left
                                  <=> g \in FilesOf[job.rev] \ job.left
      BY <2>5
    <3>4. f \in FilesOf[job'.rev] \ job'.left
      BY <1>1, <2>2, <2>5
    <3>5. /\ t.mode = "wb" /\ t.dir = "stage" /\ t.rev = job'.rev /\ t.file = f
          /\ t.st = "ready" /\ t.at = 0
      BY <2>4, <2>5, <3>2
    <3>6. /\ t.mode = "wb" /\ t.dir = "stage" /\ t.rev = job'.rev
          /\ t.file \in FilesOf[job'.rev] \ job'.left
          /\ \A g \in File \ {t.file} :
                stage'.has[g] = IF g \in FilesOf[job'.rev] \ job'.left
                                THEN Whole(job'.rev, g) ELSE <<>>
      BY <2>5, <3>1, <3>3, <3>4, <3>5
    <3>7. QED
      BY <3>5, <3>6 DEF RawFetches
  <2>7. QED
    BY <1>1, <1>4, <2>1, <2>2, <2>3, <2>4, <2>5, <2>6, JobFetches DEF Keep
<1>5. CASE fetcher # "raw"
  <2>1. /\ job' = [job EXCEPT !.pc = "fetching", !.left = {}]
        /\ thread' = [thread EXCEPT ![job.n] = PathThread]
        /\ stage' = [stage EXCEPT !.made = TRUE]
        /\ UNCHANGED status /\ Keep
    BY <1>5 DEF FetchNext
  <2>2. PICK t \in Threads : t = PathThread
    BY <1>1 DEF PathThread, Threads
  <2>3. t.st = "ready" /\ t.rev = job.rev /\ t.mode = "path"
        /\ t.left = FilesOf[job.rev] /\ t.dir = "stage"
    BY <2>2 DEF PathThread
  <2>4. /\ job'.rev = job.rev /\ job'.left = {} /\ stage'.has = stage.has
        /\ job'.fresh = job.fresh /\ job'.alone = job.alone
    BY <1>1, <2>1 DEF Jobs
  <2>5. job.fresh /\ job.alone => HasOnly(job.rev, {})
    BY <1>5 DEF InstallInv, FreshInv
  <2>6. job.fresh /\ job.alone => PathFetches(t)'
    <3> SUFFICES ASSUME job.fresh, job.alone
                 PROVE  PathFetches(t)'
      OBVIOUS
    <3>1. \A f \in File : stage'.has[f] = <<>>
      BY <2>4, <2>5 DEF HasOnly
    <3>2. FilesOf[job'.rev] \ t.left = {} /\ t.left \subseteq FilesOf[job'.rev]
      BY <2>3, <2>4
    <3>3. QED
      BY <2>3, <2>4, <3>1, <3>2 DEF PathFetches, HasOnly
  <2>7. QED
    BY <1>1, <1>5, <2>1, <2>2, <2>3, <2>4, <2>6, JobFetches DEF Keep
<1>6. QED
  BY <1>3, <1>4, <1>5

LEMMA JobStepKeeps ==
    ASSUME InstallInv, JobStep
    PROVE  InstallInv'
<1>1. CASE JobBegins
  <2>1. Live /\ ~Working(job.n) /\ job.left \subseteq FilesOf[job.rev] /\ FetchNext(job.left)
    BY <1>1 DEF JobBegins, Live, InstallInv, JobInv
  <2>2. job.fresh /\ job.alone => HasOnly(job.rev, FilesOf[job.rev] \ job.left)
    <3>1. job.fresh /\ job.alone => job.left = FilesOf[job.rev] /\ HasOnly(job.rev, {})
      BY <1>1, <2>1 DEF JobBegins, InstallInv, FreshInv
    <3>2. job.left = FilesOf[job.rev] => FilesOf[job.rev] \ job.left = {}
      OBVIOUS
    <3>3. QED
      BY <3>1, <3>2
  <2>3. job.pc = "queued"
    BY <1>1 DEF JobBegins
  <2>4. QED
    BY <2>1, <2>2, <2>3, FetchNextStep
<1>2. CASE JobFindsNothing \/ JobFetchFails
  BY <1>2, JobFailsStep DEF JobFindsNothing, JobFetchFails
<1>3. CASE JobFetched
  <2>1. Live /\ ~Working(job.n) /\ thread[job.n].st = "done" /\ job.pc = "fetching"
    BY <1>3 DEF JobFetched, Live, Working
  <2>2. ASSUME fetcher = "raw", job.fresh, job.alone
        PROVE  HasOnly(job.rev, FilesOf[job.rev] \ job.left)
    <3>1. RawFetches(thread[job.n])
      BY <2>1, <2>2 DEF InstallInv, FreshInv
    <3>2. QED
      BY <2>1, <3>1 DEF RawFetches, HasOnly
  <2>3. CASE fetcher = "raw"
    BY <1>3, <2>1, <2>2, <2>3, FetchNextStep DEF JobFetched
  <2>4. CASE fetcher # "raw"
    <3>1. job.fresh /\ job.alone => PathFetches(thread[job.n])
      BY <2>1, <2>4 DEF InstallInv, FreshInv
    <3>2. FilesOf[job.rev] \ {} = FilesOf[job.rev]
      OBVIOUS
    <3>3. Fetched
      BY <2>1, <3>1, <3>2 DEF Fetched, PathFetches
    <3>4. QED
      BY <1>3, <2>4, <3>3, ValidateStep DEF JobFetched
  <2>5. QED
    BY <2>3, <2>4
<1>4. CASE JobChecked
  <2>1. Fetched
    BY <1>4 DEF JobChecked, Live, InstallInv, JobInv, FreshInv, Fetched
  <2>2. ChecksumsMatch => Checked
    BY DEF Checked
  <2>3. QED
    BY <1>4, <2>1, <2>2, SmokeStep, JobFailsStep DEF JobChecked
<1>5. CASE JobTested
  <2>1. Fetched
    BY <1>5 DEF JobTested, Live, InstallInv, JobInv, FreshInv, Fetched
  <2>2. Checked
    BY <1>5 DEF JobTested, InstallInv, CheckedInv, Checked
  <2>3. QED
    BY <1>5, <2>1, <2>2, PromoteStep, JobFailsStep DEF JobTested
<1>6. CASE JobCancelled
  <2>1. /\ job' = [job EXCEPT !.pc = "ended"]
        /\ UNCHANGED <<fetcher, status, thread, stage, store, origin,
                       orphaned, halved, restarts>>
    BY <1>6 DEF JobCancelled, Keep
  <2>2. job' \in Jobs /\ job'.pc = "ended" /\ ~Live' /\ job'.n = job.n
    BY <2>1 DEF InstallInv, InstallTypes, Jobs, Live
  <2>3. InstallTypes' /\ JobInv' /\ ThreadInv' /\ FreshInv' /\ CheckedInv' /\ StoreInv'
    BY <2>1, <2>2 DEF InstallInv, InstallTypes, JobInv, ThreadInv, FreshInv, CheckedInv,
         StoreInv, Working, HoldsFile
  <2>4. CleanInstallIsWhole' /\ InstalledIsOnDisk'
    BY <2>1 DEF InstallInv, CleanInstallIsWhole, InstalledIsOnDisk, OnDisk
  <2>5. QED
    BY <2>3, <2>4 DEF InstallInv
<1>7. QED
  BY <1>1, <1>2, <1>3, <1>4, <1>5, <1>6 DEF JobStep

-----------------------------------------------------------------------------
(* The controller's operations and the restarts.                            *)

LEMMA InstallModelKeeps ==
    ASSUME InstallInv, NEW r \in Revision, NEW sums \in BOOLEAN, InstallModel(r, sums)
    PROVE  InstallInv'
<1>1. /\ status' = "downloading"
      /\ UNCHANGED <<fetcher, thread, stage, store, origin, halved, restarts>>
  BY DEF InstallModel
<1>2. ThreadInv' /\ StoreInv' /\ CleanInstallIsWhole' /\ InstalledIsOnDisk'
  BY <1>1 DEF InstallInv, ThreadInv, StoreInv, CleanInstallIsWhole, InstalledIsOnDisk,
       Working, HoldsFile
<1>3. CASE Live
  <2>1. job' = job
    BY <1>3 DEF InstallModel
  <2>2. InstallTypes' /\ JobInv' /\ FreshInv' /\ CheckedInv'
    BY <1>1, <2>1 DEF InstallInv, InstallTypes, JobInv, FreshInv, CheckedInv, Live, Working,
         HasOnly, RawFetches, PathFetches, ChecksumsMatch
  <2>3. QED
    BY <1>2, <2>2 DEF InstallInv
<1>4. CASE ~Live
  <2>1. /\ job.n < MaxInstalls
        /\ job' = [pc |-> "queued", n |-> job.n + 1, rev |-> r, sums |-> sums,
                   cancel |-> FALSE, left |-> FilesOf[r], fresh |-> stage.has = NoFiles,
                   alone |-> \A n \in Install : ~Working(n)]
    BY <1>4 DEF InstallModel
  <2>2. /\ job \in Jobs /\ job.n \in 0 .. MaxInstalls /\ MaxInstalls \in Nat
        /\ FilesOf[r] \subseteq File
    BY Repository DEF InstallInv, InstallTypes, Jobs
  <2>3. /\ job'.pc = "queued" /\ job'.n = job.n + 1 /\ job'.rev = r /\ job'.left = FilesOf[r]
        /\ (job'.fresh <=> stage.has = NoFiles)
        /\ (job'.alone <=> \A n \in Install : ~Working(n))
    BY <2>1
  <2>4. job' \in Jobs /\ job'.n \in Install
    BY <2>1, <2>2 DEF Jobs, Install
  <2>5. InstallTypes'
    BY <1>1, <2>4 DEF InstallInv, InstallTypes
  <2>6. JobInv'
    <3>1. thread[job'.n].st = "none"
      BY <2>2, <2>3, <2>4 DEF InstallInv, JobInv
    <3>2. \A n \in Install : n > job'.n => n > job.n
      BY <2>2, <2>3 DEF Install
    <3>3. QED
      BY <1>1, <2>3, <2>4, <3>1, <3>2 DEF InstallInv, JobInv, Working
  <2>7. FreshInv' /\ CheckedInv'
    BY <1>1, <2>3 DEF FreshInv, CheckedInv, HasOnly, NoFiles
  <2>8. QED
    BY <1>2, <2>5, <2>6, <2>7 DEF InstallInv
<1>5. QED
  BY <1>3, <1>4

LEMMA CancelInstallKeeps ==
    ASSUME InstallInv, CancelInstall
    PROVE  InstallInv'
<1>1. /\ job' = [job EXCEPT !.cancel = TRUE] /\ status' = "none"
      /\ UNCHANGED <<fetcher, thread, stage, store, origin, orphaned, halved, restarts>>
  BY DEF CancelInstall
<1>2. /\ job' \in Jobs /\ job'.pc = job.pc /\ job'.n = job.n /\ job'.rev = job.rev
      /\ job'.sums = job.sums /\ job'.left = job.left /\ job'.fresh = job.fresh
      /\ job'.alone = job.alone
  BY <1>1 DEF InstallInv, InstallTypes, Jobs
<1>3. InstallTypes' /\ JobInv' /\ FreshInv' /\ CheckedInv'
  BY <1>1, <1>2 DEF InstallInv, InstallTypes, JobInv, FreshInv, CheckedInv, Live, Working,
       HasOnly, RawFetches, PathFetches, ChecksumsMatch
<1>4. ThreadInv' /\ StoreInv' /\ CleanInstallIsWhole' /\ InstalledIsOnDisk'
  BY <1>1 DEF InstallInv, ThreadInv, StoreInv, CleanInstallIsWhole, InstalledIsOnDisk,
       Working, HoldsFile
<1>5. QED
  BY <1>3, <1>4 DEF InstallInv

(* What a job has staged does not depend on threads that hold files of      *)
(* other directories.                                                       *)
LEMMA UninstallModelKeeps ==
    ASSUME InstallInv, UninstallModel
    PROVE  InstallInv'
<1>1. /\ store' = NoFiles /\ thread' = Unlink("store") /\ status' = "none"
      /\ origin' = NoOrigin
      /\ UNCHANGED <<fetcher, job, stage, orphaned, halved, restarts>>
  BY DEF UninstallModel
<1>2. InstallTypes'
  BY <1>1, UnlinkKeeps, NothingThere DEF InstallInv, InstallTypes
<1>3. JobInv' /\ ThreadInv'
  BY <1>1, RemovalKeeps DEF InstallInv, JobInv, Live
<1>4. FreshInv'
  <2>1. \A n \in Install : thread[n].dir = "stage" \/ ~HoldsFile(n) => thread'[n] = thread[n]
    BY <1>1 DEF Unlink
  <2>2. Live /\ job.fresh /\ job.alone /\ job.pc = "fetching" => thread'[job.n] = thread[job.n]
    BY <2>1 DEF InstallInv, JobInv, FreshInv, RawFetches, PathFetches, HoldsFile
  <2>3. SUFFICES ASSUME Live, job.fresh, job.alone, job.pc = "fetching"
                 PROVE  IF fetcher = "raw" THEN RawFetches(thread[job.n])'
                                           ELSE PathFetches(thread[job.n])'
    BY <1>1 DEF InstallInv, FreshInv, Live, HasOnly
  <2>4. thread'[job'.n] = thread[job.n] /\ job' = job /\ stage' = stage
    BY <1>1, <2>2, <2>3
  <2>5. CASE fetcher = "raw"
    <3>1. RawFetches(thread[job.n])
      BY <2>3, <2>5 DEF InstallInv, FreshInv
    <3>2. QED
      BY <2>4, <2>5, <3>1 DEF RawFetches
  <2>6. CASE fetcher # "raw"
    <3>1. PathFetches(thread[job.n])
      BY <2>3, <2>6 DEF InstallInv, FreshInv
    <3>2. QED
      BY <2>4, <2>6, <3>1 DEF PathFetches, HasOnly
  <2>7. QED
    BY <2>5, <2>6
<1>5. CheckedInv' /\ StoreInv' /\ CleanInstallIsWhole' /\ InstalledIsOnDisk'
  BY <1>1 DEF InstallInv, CheckedInv, ChecksumsMatch, StoreInv, CleanInstallIsWhole,
       InstalledIsOnDisk, NoOrigin
<1>6. QED
  BY <1>2, <1>3, <1>4, <1>5 DEF InstallInv

LEMMA EnsureInstallStateKeeps ==
    ASSUME InstallInv, EnsureInstallState
    PROVE  InstallInv'
<1>1. /\ OnDisk /\ status' = "installed"
      /\ UNCHANGED <<fetcher, job, thread, stage, store, origin, orphaned, halved, restarts>>
  BY DEF EnsureInstallState
<1>2. QED
  BY <1>1 DEF InstallInv, InstallTypes, JobInv, ThreadInv, FreshInv, CheckedInv, StoreInv,
       CleanInstallIsWhole, InstalledIsOnDisk, OnDisk, Live, Working, HoldsFile, HasOnly,
       RawFetches, PathFetches, ChecksumsMatch

LEMMA RestartKeeps ==
    ASSUME InstallInv, Restart,
           \/ UNCHANGED <<status, stage, store, origin, halved>>
           \/ store' = NoFiles /\ origin' = NoOrigin /\ halved' = TRUE /\ UNCHANGED <<status, stage>>
    PROVE  InstallInv'
<1>1. /\ job' = [NoJob EXCEPT !.n = job.n] /\ thread' = [n \in Install |-> NoThread]
      /\ UNCHANGED fetcher
  BY DEF Restart
<1>2. job' \in Jobs /\ job'.pc = "none" /\ ~Live'
  BY <1>1 DEF InstallInv, InstallTypes, Jobs, NoJob, Live
<1>3. thread' \in [Install -> Threads] /\ \A n \in Install : thread'[n].st = "none"
  BY <1>1, NothingThere DEF NoThread
<1>4. InstallTypes'
  BY <1>1, <1>2, <1>3, NothingThere DEF InstallInv, InstallTypes
<1>5. JobInv' /\ ThreadInv' /\ FreshInv' /\ CheckedInv' /\ StoreInv'
  BY <1>2, <1>3 DEF JobInv, ThreadInv, FreshInv, CheckedInv, StoreInv, Working, HoldsFile
<1>6. CleanInstallIsWhole' /\ InstalledIsOnDisk'
  BY DEF InstallInv, CleanInstallIsWhole, InstalledIsOnDisk, OnDisk, NoOrigin
<1>7. QED
  BY <1>4, <1>5, <1>6 DEF InstallInv

-----------------------------------------------------------------------------
(* The executor threads.                                                    *)

(* A step of a thread leaves the job alone, which is the job's own thread   *)
(* when it began alone.                                                     *)
LEMMA ThreadsKeepJob ==
    ASSUME InstallInv, NEW n \in Install, Working(n), NEW t,
           thread' = [thread EXCEPT ![n] = t], UNCHANGED job,
           t.rev = thread[n].rev, t.mode = thread[n].mode, t.file = thread[n].file,
           t.st # "ready"
    PROVE  /\ thread'[n] = t /\ \A i \in Install \ {n} : thread'[i] = thread[i]
           /\ JobInv' /\ ThreadInv'
           /\ Live /\ job.alone => job.pc = "fetching" /\ n = job.n
<1>1. thread \in [Install -> Threads]
  BY DEF InstallInv, InstallTypes
<1>2. /\ thread'[n] = t
      /\ \A i \in Install \ {n} : thread'[i] = thread[i] /\ (Working(i)' <=> Working(i))
  BY <1>1 DEF Working
<1>3. ~(n > job.n)
  BY DEF InstallInv, JobInv, Working
<1>4. \A i \in Install : i > job.n => i # n
  BY <1>3
<1>5. Live /\ job.alone => job.pc = "fetching" /\ n = job.n
  BY DEF InstallInv, JobInv
<1>6. Live => \/ job.pc = "fetching"
              \/ n # job.n
  BY DEF InstallInv, JobInv
<1>7. JobInv'
  BY <1>2, <1>4, <1>5, <1>6 DEF InstallInv, JobInv, Live, Working
<1>8. ThreadInv'
  BY <1>2 DEF InstallInv, ThreadInv, Working
<1>9. QED
  BY <1>2, <1>5, <1>7, <1>8

LEMMA ThreadFailsKeeps ==
    ASSUME InstallInv, NEW n \in Install, ThreadFails(n)
    PROVE  InstallInv'
<1>1. /\ Working(n) /\ thread' = [thread EXCEPT ![n].st = "failed"]
      /\ UNCHANGED <<fetcher, status, job, stage, store, origin, orphaned, halved, restarts>>
  BY DEF ThreadFails, ThreadOnly
<1>2. thread \in [Install -> Threads]
  BY DEF InstallInv, InstallTypes
<1>3. PICK t \in Threads : t = [thread[n] EXCEPT !.st = "failed"]
  BY <1>2 DEF Threads
<1>4. /\ t.st = "failed" /\ t.rev = thread[n].rev /\ t.mode = thread[n].mode
      /\ t.file = thread[n].file /\ t.dir = thread[n].dir /\ t.left = thread[n].left
      /\ thread' = [thread EXCEPT ![n] = t]
  BY <1>1, <1>2, <1>3 DEF Threads
<1>5. /\ thread'[n] = t /\ \A i \in Install \ {n} : thread'[i] = thread[i]
      /\ JobInv' /\ ThreadInv'
      /\ Live /\ job.alone => job.pc = "fetching" /\ n = job.n
  BY <1>1, <1>4, ThreadsKeepJob
<1>6. InstallTypes'
  BY <1>1, <1>2, <1>4 DEF InstallInv, InstallTypes
<1>7. FreshInv'
  <2>1. SUFFICES ASSUME Live, job.fresh, job.alone
                 PROVE  IF fetcher = "raw" THEN RawFetches(t)' ELSE PathFetches(t)'
    BY <1>1, <1>5 DEF FreshInv, Live
  <2>2. job.pc = "fetching" /\ n = job.n
    BY <1>5, <2>1
  <2>3. CASE fetcher = "raw"
    <3>1. RawFetches(thread[n])
      BY <2>1, <2>2, <2>3 DEF InstallInv, FreshInv
    <3>2. QED
      BY <1>1, <1>4, <2>3, <3>1 DEF RawFetches
  <2>4. CASE fetcher # "raw"
    <3>1. PathFetches(thread[n])
      BY <2>1, <2>2, <2>4 DEF InstallInv, FreshInv
    <3>2. QED
      BY <1>1, <1>4, <2>4, <3>1 DEF PathFetches, HasOnly
  <2>5. QED
    BY <2>3, <2>4
<1>8. CheckedInv' /\ StoreInv' /\ CleanInstallIsWhole' /\ InstalledIsOnDisk'
  BY <1>1, <1>4, <1>5 DEF InstallInv, CheckedInv, ChecksumsMatch, StoreInv,
       CleanInstallIsWhole, InstalledIsOnDisk, OnDisk, HoldsFile
<1>9. QED
  BY <1>5, <1>6, <1>7, <1>8 DEF InstallInv

LEMMA RawOpensKeeps ==
    ASSUME InstallInv, NEW n \in Install, RawOpens(n),
           stage.made /\ thread[n].at < Chunks[thread[n].file]
    PROVE  InstallInv'
<1>1. /\ thread[n].st = "ready" /\ thread[n].mode # "path"
      /\ thread' = [thread EXCEPT ![n].st = "running"]
      /\ stage' = IF thread[n].mode = "wb" THEN [stage EXCEPT !.has[thread[n].file] = <<>>]
                  ELSE stage
      /\ UNCHANGED <<fetcher, status, job, store, origin, orphaned, halved, restarts>>
  BY DEF RawOpens, ThreadOnly
<1>2. thread \in [Install -> Threads] /\ stage \in [made : BOOLEAN, has : Directories]
  BY DEF InstallInv, InstallTypes
<1>3. PICK t \in Threads : t = [thread[n] EXCEPT !.st = "running"]
  BY <1>2 DEF Threads
<1>4. /\ t.st = "running" /\ t.rev = thread[n].rev /\ t.mode = thread[n].mode
      /\ t.file = thread[n].file /\ t.dir = thread[n].dir /\ t.at = thread[n].at
      /\ thread' = [thread EXCEPT ![n] = t]
  BY <1>1, <1>2, <1>3 DEF Threads
<1>5. /\ thread'[n] = t /\ \A i \in Install \ {n} : thread'[i] = thread[i]
      /\ JobInv' /\ ThreadInv'
      /\ Live /\ job.alone => job.pc = "fetching" /\ n = job.n
  BY <1>1, <1>4, ThreadsKeepJob DEF Working
<1>6. thread[n].file \in File
  BY <1>1 DEF InstallInv, ThreadInv, Working
<1>7. /\ stage' \in [made : BOOLEAN, has : Directories]
      /\ \A f \in File \ {thread[n].file} : stage'.has[f] = stage.has[f]
      /\ thread[n].mode = "wb" => stage'.has[thread[n].file] = <<>>
  <2>1. CASE thread[n].mode = "wb"
    <3>1. <<>> \in Seq(Chunk)
      OBVIOUS
    <3>2. [stage.has EXCEPT ![thread[n].file] = <<>>] \in Directories
      BY <1>2, <3>1 DEF Directories
    <3>3. stage' = [stage EXCEPT !.has = [stage.has EXCEPT ![thread[n].file] = <<>>]]
      BY <1>1, <2>1
    <3>4. QED
      BY <1>2, <1>6, <3>2, <3>3 DEF Directories
  <2>2. CASE thread[n].mode # "wb"
    BY <1>1, <1>2, <2>2
  <2>3. QED
    BY <2>1, <2>2
<1>8. InstallTypes'
  BY <1>1, <1>2, <1>4, <1>7 DEF InstallInv, InstallTypes
<1>9. FreshInv'
  <2>1. SUFFICES ASSUME Live, job.fresh, job.alone
                 PROVE  IF fetcher = "raw" THEN RawFetches(t)' ELSE PathFetches(t)'
    BY <1>1, <1>5 DEF FreshInv, Live
  <2>2. job.pc = "fetching" /\ n = job.n
    BY <1>5, <2>1
  <2>3. fetcher = "raw" /\ RawFetches(thread[n])
    BY <1>1, <2>1, <2>2 DEF InstallInv, FreshInv, PathFetches
  <2>4. t.at = 0 /\ stage'.has[t.file] = <<>> /\ thread[n].at < Chunks[t.file]
    BY <1>1, <1>4, <1>7, <2>3 DEF RawFetches
  <2>5. [i \in 1 .. t.at |-> <<job'.rev, i>>] = <<>>
    BY <2>4
  <2>6. QED
    BY <1>1, <1>4, <1>7, <2>3, <2>4, <2>5 DEF RawFetches
<1>10. CheckedInv'
  BY <1>1, <1>5 DEF CheckedInv, Live
<1>11. StoreInv' /\ CleanInstallIsWhole' /\ InstalledIsOnDisk'
  <2>1. t.dir = "stage"
    BY <1>1, <1>4 DEF InstallInv, ThreadInv, Working
  <2>2. t.dir # "store"
    BY <2>1
  <2>3. StoreInv'
    BY <1>1, <1>5, <2>2 DEF InstallInv, StoreInv, HoldsFile
  <2>4. QED
    BY <1>1, <2>3 DEF InstallInv, CleanInstallIsWhole, InstalledIsOnDisk, OnDisk
<1>12. QED
  BY <1>5, <1>8, <1>9, <1>10, <1>11 DEF InstallInv

LEMMA RawWritesKeeps ==
    ASSUME InstallInv, NEW n \in Install, RawWrites(n)
    PROVE  InstallInv'
<1> DEFINE old == thread[n]
           file == old.file
           last == old.at + 1 = Chunks[file]
<1>1. /\ old.st = "running" /\ old.mode # "path"
      /\ thread' = [thread EXCEPT ![n].at = @ + 1, ![n].st = IF last THEN "done" ELSE @]
      /\ stage' = IF old.dir = "stage"
                  THEN [stage EXCEPT !.has[file] = Written(@, old)] ELSE stage
      /\ store' = IF old.dir = "store"
                  THEN [store EXCEPT ![file] = Written(@, old)] ELSE store
      /\ UNCHANGED <<fetcher, status, job, origin, orphaned, halved, restarts>>
  BY DEF RawWrites, ThreadOnly
<1>2. /\ thread \in [Install -> Threads] /\ stage \in [made : BOOLEAN, has : Directories]
      /\ store \in Directories
  BY DEF InstallInv, InstallTypes
<1>3. /\ file \in File /\ old.rev \in Revision /\ old.at \in Nat /\ old \in Threads
      /\ stage.has[file] \in Seq(Chunk) /\ store[file] \in Seq(Chunk)
      /\ \A f \in File \ {file} : f # file
  BY <1>1, <1>2 DEF InstallInv, ThreadInv, Working, Threads, Directories
<1>4. PICK t \in Threads : t = [old EXCEPT !.at = old.at + 1,
                                           !.st = IF last THEN "done" ELSE "running"]
  <2>1. old.at + 1 \in Nat
    BY <1>3
  <2>2. [old EXCEPT !.at = old.at + 1, !.st = IF last THEN "done" ELSE "running"] \in Threads
    BY <1>3, <2>1 DEF Threads
  <2>3. QED
    BY <2>2
<1>5. /\ t.st = IF last THEN "done" ELSE "running"
      /\ t.rev = old.rev /\ t.mode = old.mode /\ t.file = old.file /\ t.dir = old.dir
      /\ t.at = old.at + 1
  <2>1. ASSUME NEW s, NEW a, t = [old EXCEPT !.at = a, !.st = s]
        PROVE  /\ t.st = s /\ t.at = a
               /\ t.rev = old.rev /\ t.mode = old.mode /\ t.file = old.file /\ t.dir = old.dir
    BY <1>3, <2>1 DEF Threads
  <2>2. QED
    BY <1>4, <2>1
<1>6. thread' = [thread EXCEPT ![n] = t]
  <2>1. t = [old EXCEPT !.at = old.at + 1, !.st = IF last THEN "done" ELSE old.st]
    BY <1>1, <1>4
  <2>2. QED
    BY <1>1, <1>2, <2>1
<1>7. /\ thread'[n] = t /\ \A i \in Install \ {n} : thread'[i] = thread[i]
      /\ JobInv' /\ ThreadInv'
      /\ Live /\ job.alone => job.pc = "fetching" /\ n = job.n
  BY <1>1, <1>5, <1>6, ThreadsKeepJob DEF Working
<1>8. /\ stage' \in [made : BOOLEAN, has : Directories] /\ store' \in Directories
      /\ \A f \in File \ {file} : stage'.has[f] = stage.has[f] /\ store'[f] = store[f]
      /\ old.dir = "stage" => stage'.has[file] = Written(stage.has[file], old)
      /\ old.dir = "store" => store' # NoFiles
      /\ old.dir # "store" => store' = store
  <2>1. /\ Written(stage.has[file], old) \in Seq(Chunk)
        /\ Written(store[file], old) \in Seq(Chunk) /\ Written(store[file], old) # <<>>
    BY <1>3, WrittenType
  <2>2. /\ [stage.has EXCEPT ![file] = Written(stage.has[file], old)] \in Directories
        /\ [store EXCEPT ![file] = Written(store[file], old)] \in Directories
    BY <1>2, <2>1 DEF Directories
  <2>3. old.dir = "stage" =>
          stage' = [stage EXCEPT !.has =
                      [stage.has EXCEPT ![file] = Written(stage.has[file], old)]]
    BY <1>1
  <2>4. NoFiles[file] = <<>>
    BY <1>3 DEF NoFiles
  <2>5. old.dir = "store" => store'[file] = Written(store[file], old)
    BY <1>1, <1>2, <1>3 DEF Directories
  <2> HIDE DEF old, file
  <2>6. /\ stage' \in [made : BOOLEAN, has : Directories]
        /\ \A f \in File \ {file} : stage'.has[f] = stage.has[f]
        /\ old.dir = "stage" => stage'.has[file] = Written(stage.has[file], old)
    <3>1. CASE old.dir = "stage"
      BY <1>2, <1>3, <2>2, <2>3, <3>1 DEF Directories
    <3>2. CASE old.dir # "stage"
      BY <1>1, <1>2, <3>2
    <3>3. QED
      BY <3>1, <3>2
  <2>7. /\ store' \in Directories
        /\ \A f \in File \ {file} : store'[f] = store[f]
    <3>1. CASE old.dir = "store"
      BY <1>1, <1>2, <1>3, <2>2, <3>1 DEF Directories
    <3>2. CASE old.dir # "store"
      BY <1>1, <1>2, <3>2
    <3>3. QED
      BY <3>1, <3>2
  <2>8. QED
    BY <1>1, <2>1, <2>4, <2>5, <2>6, <2>7
<1>9. InstallTypes'
  <2>1. thread' \in [Install -> Threads]
    BY <1>2, <1>6
  <2> HIDE DEF old, file, last
  <2>2. QED
    BY <1>1, <1>8, <2>1 DEF InstallInv, InstallTypes
<1>10. FreshInv'
  <2>1. SUFFICES ASSUME Live, job.fresh, job.alone
                 PROVE  IF fetcher = "raw" THEN RawFetches(t)' ELSE PathFetches(t)'
    BY <1>1, <1>7 DEF FreshInv, Live
  <2>2. job.pc = "fetching" /\ n = job.n
    BY <1>7, <2>1
  <2>3. fetcher = "raw" /\ RawFetches(old)
    BY <1>1, <2>1, <2>2 DEF InstallInv, FreshInv, PathFetches
  <2>4. /\ old.mode = "wb" /\ old.dir = "stage" /\ old.rev = job.rev
        /\ file \in FilesOf[job.rev] /\ old.at < Chunks[file]
        /\ stage.has[file] = [i \in 1 .. old.at |-> <<job.rev, i>>]
    BY <1>1, <2>3 DEF RawFetches
  <2>5. stage'.has[file] = [i \in 1 .. t.at |-> <<job.rev, i>>]
    <3>1. Len(stage.has[file]) = old.at
      BY <1>3, <2>4
    <3>2. <<old.rev, old.at + 1>> \in Chunk
      BY <1>3 DEF Chunk
    <3>3. stage'.has[file] = WriteAt(stage.has[file], old.at, <<old.rev, old.at + 1>>)
      BY <1>8, <2>4 DEF Written
    <3>4. stage'.has[file] =
            [i \in 1 .. old.at + 1 |->
                IF i = old.at + 1 THEN <<old.rev, old.at + 1>> ELSE stage.has[file][i]]
      BY <1>3, <3>1, <3>2, <3>3, WriteAtType
    <3>5. \A i \in 1 .. old.at + 1 :
            (IF i = old.at + 1 THEN <<old.rev, old.at + 1>> ELSE stage.has[file][i])
              = <<job.rev, i>>
      BY <1>3, <2>4
    <3>6. QED
      BY <1>5, <3>4, <3>5
  <2>6. ~last => t.at < Chunks[file]
    BY <1>3, <1>5, <2>4, Repository
  <2>7. last => t.at = Chunks[file]
    BY <1>5
  <2>8. last => stage'.has[file] = Whole(job.rev, file)
    BY <2>4, <2>5, <2>7 DEF Whole
  <2>9. /\ t.mode = "wb" /\ t.dir = "stage" /\ t.rev = job'.rev /\ t.file = file
        /\ file \in FilesOf[job'.rev] \ job'.left
        /\ \A f \in File \ {file} :
              stage'.has[f] = IF f \in FilesOf[job'.rev] \ job'.left
                              THEN Whole(job'.rev, f) ELSE <<>>
    BY <1>1, <1>5, <1>8, <2>3 DEF RawFetches
  <2>10. t.st = "running" => t.at < Chunks[file]
    BY <1>5, <2>6
  <2>11. t.st = "done" => stage'.has[file] = Whole(job'.rev, file)
    BY <1>1, <1>5, <2>8
  <2>12. t.st # "ready" /\ job' = job /\ fetcher' = "raw"
    BY <1>1, <1>5, <2>3
  <2> HIDE DEF old, file, last
  <2>13. RawFetches(t)'
    BY <2>5, <2>9, <2>10, <2>11, <2>12 DEF RawFetches
  <2>14. QED
    BY <2>3, <2>13
<1>11. CheckedInv'
  BY <1>1, <1>7 DEF CheckedInv, Live
<1>12. StoreInv'
  <2>1. HoldsFile(n) /\ old.dir = t.dir
    BY <1>1, <1>5 DEF HoldsFile
  <2>2. SUFFICES ASSUME origin.fresh \/ origin.checked, NEW i \in Install,
                        HoldsFile(i)', thread'[i].dir = "store"
                 PROVE  FALSE
    BY <1>1 DEF StoreInv
  <2>3. HoldsFile(i) /\ thread[i].dir = "store"
    BY <1>7, <2>1, <2>2 DEF HoldsFile
  <2>4. QED
    BY <2>2, <2>3 DEF InstallInv, StoreInv
<1>13. CleanInstallIsWhole'
  <2>1. origin.fresh \/ origin.checked => store' = store
    BY <1>1, <1>8 DEF InstallInv, StoreInv, HoldsFile
  <2>2. QED
    BY <1>1, <2>1 DEF InstallInv, CleanInstallIsWhole
<1>14. InstalledIsOnDisk'
  BY <1>1, <1>8 DEF InstallInv, InstalledIsOnDisk, OnDisk
<1>15. QED
  BY <1>7, <1>9, <1>10, <1>11, <1>12, <1>13, <1>14 DEF InstallInv

LEMMA PathOpensKeeps ==
    ASSUME InstallInv, NEW n \in Install, PathOpens(n)
    PROVE  InstallInv'
<1>1. /\ thread[n].st = "ready" /\ thread[n].mode = "path"
      /\ thread' = [thread EXCEPT ![n].st = "running"]
      /\ stage' = [made |-> TRUE, has |-> IF fetcher = "local" THEN NoFiles ELSE stage.has]
      /\ UNCHANGED <<fetcher, status, job, store, origin, orphaned, halved, restarts>>
  BY DEF PathOpens, ThreadOnly
<1>2. thread \in [Install -> Threads] /\ stage \in [made : BOOLEAN, has : Directories]
  BY DEF InstallInv, InstallTypes
<1>3. PICK t \in Threads : t = [thread[n] EXCEPT !.st = "running"]
  BY <1>2 DEF Threads
<1>4. /\ t.st = "running" /\ t.rev = thread[n].rev /\ t.mode = thread[n].mode
      /\ t.file = thread[n].file /\ t.dir = thread[n].dir /\ t.left = thread[n].left
      /\ thread' = [thread EXCEPT ![n] = t]
  BY <1>1, <1>2, <1>3 DEF Threads
<1>5. /\ thread'[n] = t /\ \A i \in Install \ {n} : thread'[i] = thread[i]
      /\ JobInv' /\ ThreadInv'
      /\ Live /\ job.alone => job.pc = "fetching" /\ n = job.n
  BY <1>1, <1>4, ThreadsKeepJob DEF Working
<1>6. /\ stage' \in [made : BOOLEAN, has : Directories]
      /\ stage'.has = IF fetcher = "local" THEN NoFiles ELSE stage.has
  BY <1>1, <1>2, NothingThere
<1>7. InstallTypes'
  BY <1>1, <1>2, <1>4, <1>6 DEF InstallInv, InstallTypes
<1>8. FreshInv'
  <2>1. SUFFICES ASSUME Live, job.fresh, job.alone
                 PROVE  IF fetcher = "raw" THEN RawFetches(t)' ELSE PathFetches(t)'
    BY <1>1, <1>5 DEF FreshInv, Live
  <2>2. job.pc = "fetching" /\ n = job.n
    BY <1>5, <2>1
  <2>3. fetcher # "raw" /\ PathFetches(thread[n])
    BY <1>1, <2>1, <2>2 DEF InstallInv, FreshInv, RawFetches
  <2>4. t.left = FilesOf[job.rev] /\ FilesOf[job.rev] \ t.left = {}
    BY <1>1, <1>4, <2>3 DEF PathFetches
  <2>5. \A f \in File : stage.has[f] = <<>>
    BY <1>4, <2>3, <2>4 DEF PathFetches, HasOnly
  <2>6. \A f \in File : stage'.has[f] = <<>>
    BY <1>6, <2>5 DEF NoFiles
  <2>7. HasOnly(job.rev, FilesOf[job.rev] \ t.left)'
    BY <1>1, <2>4, <2>6 DEF HasOnly
  <2>8. QED
    BY <1>1, <1>4, <2>3, <2>7 DEF PathFetches
<1>9. CheckedInv'
  BY <1>1, <1>5 DEF CheckedInv, Live
<1>10. StoreInv' /\ CleanInstallIsWhole' /\ InstalledIsOnDisk'
  BY <1>1, <1>4, <1>5 DEF InstallInv, StoreInv, CleanInstallIsWhole, InstalledIsOnDisk,
       OnDisk, HoldsFile
<1>11. QED
  BY <1>5, <1>7, <1>8, <1>9, <1>10 DEF InstallInv

LEMMA PathWritesKeeps ==
    ASSUME InstallInv, NEW n \in Install, PathWrites(n)
    PROVE  InstallInv'
<1> DEFINE old == thread[n]
<1>1. PICK f \in old.left :
        /\ thread' = [thread EXCEPT ![n].left = @ \ {f},
                                    ![n].st = IF old.left = {f} THEN "done" ELSE @]
        /\ stage' = [made |-> TRUE, has |-> [stage.has EXCEPT ![f] = Whole(old.rev, f)]]
  BY DEF PathWrites
<1>2. /\ old.st = "running" /\ old.mode = "path"
      /\ UNCHANGED <<fetcher, status, job, store, origin, orphaned, halved, restarts>>
  BY DEF PathWrites, ThreadOnly
<1>3. /\ thread \in [Install -> Threads] /\ stage \in [made : BOOLEAN, has : Directories]
      /\ old \in Threads /\ f \in File /\ old.rev \in Revision
  BY <1>1, <1>2 DEF InstallInv, InstallTypes, ThreadInv, Working, Threads
<1>4. PICK t \in Threads : t = [old EXCEPT !.left = old.left \ {f},
                                           !.st = IF old.left = {f} THEN "done" ELSE "running"]
  <2>1. [old EXCEPT !.left = old.left \ {f},
                    !.st = IF old.left = {f} THEN "done" ELSE "running"] \in Threads
    BY <1>3 DEF Threads
  <2>2. QED
    BY <2>1
<1>5. /\ t.st = IF old.left = {f} THEN "done" ELSE "running"
      /\ t.rev = old.rev /\ t.mode = old.mode /\ t.file = old.file /\ t.dir = old.dir
      /\ t.left = old.left \ {f}
  <2>1. ASSUME NEW s, NEW l, t = [old EXCEPT !.left = l, !.st = s]
        PROVE  /\ t.st = s /\ t.left = l
               /\ t.rev = old.rev /\ t.mode = old.mode /\ t.file = old.file /\ t.dir = old.dir
    BY <1>3, <2>1 DEF Threads
  <2>2. QED
    BY <1>4, <2>1
<1>6. thread' = [thread EXCEPT ![n] = t]
  <2>1. t = [old EXCEPT !.left = old.left \ {f},
                        !.st = IF old.left = {f} THEN "done" ELSE old.st]
    BY <1>2, <1>4
  <2>2. QED
    BY <1>1, <1>3, <2>1
<1>7. /\ thread'[n] = t /\ \A i \in Install \ {n} : thread'[i] = thread[i]
      /\ JobInv' /\ ThreadInv'
      /\ Live /\ job.alone => job.pc = "fetching" /\ n = job.n
  BY <1>2, <1>5, <1>6, ThreadsKeepJob DEF Working
<1>8. /\ stage' \in [made : BOOLEAN, has : Directories]
      /\ stage'.has[f] = Whole(old.rev, f)
      /\ \A g \in File \ {f} : stage'.has[g] = stage.has[g]
  <2>1. Whole(old.rev, f) \in Seq(Chunk)
    BY <1>3, WholeType
  <2>2. [stage.has EXCEPT ![f] = Whole(old.rev, f)] \in Directories
    BY <1>3, <2>1 DEF Directories
  <2>3. QED
    BY <1>1, <1>3, <2>2 DEF Directories
<1>9. InstallTypes'
  <2>1. thread' \in [Install -> Threads]
    BY <1>3, <1>6
  <2>2. QED
    BY <1>2, <1>8, <2>1 DEF InstallInv, InstallTypes
<1>10. FreshInv'
  <2>1. SUFFICES ASSUME Live, job.fresh, job.alone
                 PROVE  IF fetcher = "raw" THEN RawFetches(t)' ELSE PathFetches(t)'
    BY <1>2, <1>7 DEF FreshInv, Live
  <2>2. job.pc = "fetching" /\ n = job.n
    BY <1>7, <2>1
  <2>3. fetcher # "raw" /\ PathFetches(old)
    BY <1>2, <2>1, <2>2 DEF InstallInv, FreshInv, RawFetches
  <2>4. /\ old.rev = job.rev /\ old.left \subseteq FilesOf[job.rev] /\ job.left = {}
        /\ \A g \in File : stage.has[g] = IF g \in FilesOf[job.rev] \ old.left
                                          THEN Whole(job.rev, g) ELSE <<>>
    BY <2>3 DEF PathFetches, HasOnly
  <2>5. \A g \in File : stage'.has[g] = IF g \in FilesOf[job.rev] \ t.left
                                        THEN Whole(job.rev, g) ELSE <<>>
    <3>1. SUFFICES ASSUME NEW g \in File
                   PROVE  stage'.has[g] = IF g \in FilesOf[job.rev] \ t.left
                                          THEN Whole(job.rev, g) ELSE <<>>
      OBVIOUS
    <3>2. CASE g = f
      BY <1>1, <1>5, <1>8, <2>4, <3>2
    <3>3. CASE g # f
      <4>1. g \in FilesOf[job.rev] \ t.left <=> g \in FilesOf[job.rev] \ old.left
        BY <1>5, <3>3
      <4>2. QED
        BY <1>8, <2>4, <3>1, <3>3, <4>1
    <3>4. QED
      BY <3>2, <3>3
  <2>6. /\ t.mode = "path" /\ t.rev = job'.rev /\ t.left \subseteq FilesOf[job'.rev]
        /\ t.st # "ready" /\ (t.st = "done" => t.left = {}) /\ job'.left = {}
    BY <1>2, <1>5, <2>4
  <2>7. HasOnly(job.rev, FilesOf[job.rev] \ t.left)'
    BY <1>2, <2>5 DEF HasOnly
  <2> HIDE DEF old
  <2>8. PathFetches(t)'
    BY <2>6, <2>7 DEF PathFetches
  <2>9. QED
    BY <2>3, <2>8
<1>11. CheckedInv'
  BY <1>2, <1>7 DEF CheckedInv, Live
<1>12. StoreInv' /\ CleanInstallIsWhole' /\ InstalledIsOnDisk'
  BY <1>2, <1>5, <1>7 DEF InstallInv, StoreInv, CleanInstallIsWhole, InstalledIsOnDisk,
       OnDisk, HoldsFile
<1>13. QED
  BY <1>7, <1>9, <1>10, <1>11, <1>12 DEF InstallInv

LEMMA RawOpenFails ==
    ASSUME InstallInv, NEW n \in Install, RawOpens(n),
           ~(stage.made /\ thread[n].at < Chunks[thread[n].file])
    PROVE  InstallInv'
<1>1. ThreadFails(n)
  BY DEF RawOpens, ThreadFails, Working
<1>2. QED
  BY <1>1, ThreadFailsKeeps

-----------------------------------------------------------------------------
(* The theorems.                                                            *)

LEMMA InstallInvInit == InstallInit => InstallInv
<1> SUFFICES ASSUME InstallInit PROVE InstallInv
  OBVIOUS
<1>1. /\ job = NoJob /\ thread = [n \in Install |-> NoThread]
      /\ stage = [made |-> FALSE, has |-> NoFiles] /\ store = NoFiles /\ origin = NoOrigin
      /\ fetcher \in Fetchers /\ status \in {"unknown", "none"} /\ halved = FALSE
  BY DEF InstallInit
<1>2. InstallTypes
  BY <1>1, NothingThere, InstallAssumption DEF InstallTypes
<1>3. ~Live /\ job.pc = "none" /\ \A n \in Install : thread[n].st = "none"
  BY <1>1 DEF Live, NoJob, NoThread
<1>4. QED
  BY <1>1, <1>2, <1>3 DEF InstallInv, JobInv, ThreadInv, FreshInv, CheckedInv, StoreInv,
       CleanInstallIsWhole, InstalledIsOnDisk, HoldsFile, Working, NoOrigin

LEMMA InstallInvStep == InstallInv /\ [InstallNext]_installVars => InstallInv'
<1> SUFFICES ASSUME InstallInv, [InstallNext]_installVars PROVE InstallInv'
  OBVIOUS
<1>1. CASE Operation
  BY <1>1, InstallModelKeeps, CancelInstallKeeps, UninstallModelKeeps, EnsureInstallStateKeeps
  DEF Operation
<1>2. CASE JobStep
  BY <1>2, JobStepKeeps
<1>3. ASSUME NEW n \in Install, ThreadStep(n) \/ ThreadFails(n) PROVE InstallInv'
  BY <1>3, RawOpensKeeps, RawOpenFails, RawWritesKeeps, PathOpensKeeps, PathWritesKeeps,
     ThreadFailsKeeps DEF ThreadStep
<1>4. CASE CrashBetweenSteps
  BY <1>4, RestartKeeps DEF CrashBetweenSteps
<1>5. CASE CrashInUninstall \/ CrashInPromote
  BY <1>5, RestartKeeps DEF CrashInUninstall, CrashInPromote
<1>6. CASE UNCHANGED installVars
  BY <1>6 DEF installVars, InstallInv, InstallTypes, JobInv, ThreadInv, FreshInv, CheckedInv,
       StoreInv, CleanInstallIsWhole, InstalledIsOnDisk, OnDisk, Live, Working, HoldsFile,
       HasOnly, RawFetches, PathFetches, ChecksumsMatch
<1>7. QED
  BY <1>1, <1>2, <1>3, <1>4, <1>5, <1>6 DEF InstallNext

LEMMA InstallInvAlways == InstallSpec => []InstallInv
  BY InstallInvInit, InstallInvStep, PTL DEF InstallSpec

(* An installation that began with nothing staged and no thread of an       *)
(* earlier one at work leaves exactly the files of its revision in the      *)
(* model store, and one checked against its checksums leaves those whole,   *)
(* for any files, revisions and number of installations and restarts.       *)
THEOREM CleanInstall == InstallSpec => []CleanInstallIsWhole
<1>1. InstallInv => CleanInstallIsWhole
  BY DEF InstallInv
<1>2. QED
  BY <1>1, InstallInvAlways, PTL

(* What registry.json calls installed is on disk, unless the process died   *)
(* inside an uninstall or a promotion and nothing was promoted since.       *)
THEOREM InstalledOnDisk == InstallSpec => []InstalledIsOnDisk
<1>1. InstallInv => InstalledIsOnDisk
  BY DEF InstallInv
<1>2. QED
  BY <1>1, InstallInvAlways, PTL
=============================================================================
