--------------------------- MODULE AccountsProofs ---------------------------
(***************************************************************************)
(* Proofs about Accounts, for any number of sessions, mailed tokens,       *)
(* concurrent transactions, lost answers and revocations.                  *)
(***************************************************************************)
EXTENDS Accounts, FiniteSetTheorems, WellFoundedInduction, TLAPS

(* Mailed tokens.                                                          *)
Txns == [pc : {"idle", "bulk"}, kind : {"none", "issue", "confirm"}, tok : Token \cup {0},
         holds : SUBSET Token, want : SUBSET Token]

TokenTypes ==
    /\ mail \in [Token -> {"none", "fresh", "used"}]
    /\ txn \in [Txn -> Txns]
    /\ spent \in [Token -> Nat]

(* A row has one holder, and is as fresh as it was when it was locked.     *)
RowsLocked ==
    \A x \in Txn : \A t \in txn[x].holds :
        /\ mail[t] = "fresh"
        /\ \A y \in Txn \ {x} : t \notin txn[y].holds

ConfirmHoldsItsToken ==
    \A x \in Txn : txn[x].kind = "confirm" => txn[x].tok \in txn[x].holds

SpentIsUsed == \A t \in Token : spent[t] = 0 \/ (spent[t] = 1 /\ mail[t] = "used")

TokenInv == TokenTypes /\ RowsLocked /\ ConfirmHoldsItsToken /\ SpentIsUsed

-----------------------------------------------------------------------------
(* Sessions.                                                               *)

Kinds == {"none", "refresh", "login", "logout", "logoutAll", "change"}
Calls == [pc : {"idle", "sent", "read", "answered"}, kind : Kinds, tok : Id \cup {NoId},
          got : {"none", "session", "denied", "done"}, new : Id \cup {NoId}, heard : BOOLEAN]

SessionTypes ==
    /\ session \in [Id -> {"live", "revoked"}]
    /\ stored \in Id \cup {NoId}
    /\ access \in {NoId, stored}
    /\ call \in [Slot -> Calls]
    /\ lost \in Nat /\ revoked \in Nat /\ overlap \in BOOLEAN

LiveIds == {i \in Id : Live(i)}
LiveBut(i) == Cardinality(LiveIds \ {i})

Answered(s) == call[s].pc = "answered"
Pending(s)  == call[s].pc \in {"sent", "read"}

(* A request whose answer the client has missed is counted, and what it    *)
(* did not overlap with is alone.                                          *)
OneCall ==
    /\ \A s \in Slot : Busy(s) /\ ~call[s].heard => lost > 0
    /\ ~overlap => \A s, t \in Slot : Busy(s) /\ Busy(t) => s = t

(* What the client's request in flight was sent with.                      *)
SentFor(s) ==
    Pending(s) /\ call[s].heard =>
        /\ call[s].kind \in Kinds \ {"none", "login"} => call[s].tok = stored
        /\ call[s].kind = "login" => stored = NoId
        /\ call[s].kind \in {"refresh", "logoutAll", "change"} => stored # NoId

(* The live sessions beyond the one the client will hold when it has heard *)
(* the answer; a session that may yet be opened unheard is counted.        *)
OpensUnheard(s) ==
    Pending(s) /\ ~call[s].heard /\ call[s].kind \in {"refresh", "login", "change"}

WillHold(s) ==
    IF ~(Answered(s) /\ call[s].heard) THEN stored
    ELSE IF call[s].kind \in {"logout", "logoutAll"} THEN NoId
    ELSE IF call[s].got = "session" THEN call[s].new
    ELSE IF call[s].kind = "refresh" /\ call[s].got = "denied" THEN NoId
    ELSE stored

Ledger(s) ==
    /\ SentFor(s)
    /\ LiveBut(WillHold(s)) + (IF OpensUnheard(s) THEN 1 ELSE 0) <= lost

(* A client that missed no answer and was not revoked is in session.       *)
InSession(s) ==
    lost = 0 /\ revoked = 0 =>
        IF Answered(s)
        THEN \/ call[s].kind \in {"logout", "logoutAll"} /\ call[s].got # "denied"
             \/ call[s].got = "session" /\ Live(call[s].new)
        ELSE stored # NoId => Live(stored)

AtRest ==
    /\ LiveBut(stored) <= lost
    /\ lost = 0 /\ revoked = 0 /\ stored # NoId => Live(stored)

Accounted ==
    ~overlap =>
        /\ Quiet => AtRest
        /\ \A s \in Slot : Busy(s) => Ledger(s) /\ InSession(s)

SessionInv == SessionTypes /\ OneCall /\ Accounted

-----------------------------------------------------------------------------
(* Mailed tokens: the steps.                                               *)

LEMMA TokenInit == Init => TokenInv
  BY AccountsAssumption
  DEF Init, TokenInv, TokenTypes, RowsLocked, ConfirmHoldsItsToken, SpentIsUsed, Txns, NoTxn

(* What the client and the service do to sessions leaves mailed tokens.    *)
LEMMA SessionsLeaveTokens == Sessions => UNCHANGED tokens
  BY DEF Sessions, ClientStep, StartRefresh, UserCall, Deliver, Lose, Vanish, Relaunch, Handle,
         RefreshReads, RefreshCommits, LoginCommits, LogoutCommits, Authenticates,
         LogoutAllCommits, ChangeCommits, OtherDevice, Server, Service, tokens

LEMMA TxnUpdate ==
  ASSUME NEW r \in Txns, NEW W \in SUBSET Token, NEW H \in SUBSET Token
  PROVE  [r EXCEPT !.want = W, !.holds = H] \in Txns
  BY DEF Txns

LEMMA TokenStep == TokenInv /\ [Next]_vars => TokenInv'
<1> SUFFICES ASSUME TokenInv, [Next]_vars PROVE TokenInv'
  OBVIOUS
<1> USE DEF TokenInv, TokenTypes, RowsLocked, ConfirmHoldsItsToken, SpentIsUsed, Txns, NoTxn
<1>1. ASSUME UNCHANGED tokens PROVE TokenInv'
  BY <1>1 DEF tokens
<1>2. ASSUME NEW x \in Txn, BeginIssue(x) PROVE TokenInv'
  <2>1. Fresh \in SUBSET Token
    BY DEF Fresh
  <2>2. /\ txn' = [txn EXCEPT ![x] = [NoTxn EXCEPT !.pc = "bulk", !.kind = "issue",
                                                 !.want = Fresh]]
        /\ UNCHANGED <<mail, spent>>
    BY <1>2 DEF BeginIssue
  <2>3. txn'[x] = [pc |-> "bulk", kind |-> "issue", tok |-> 0, holds |-> {}, want |-> Fresh]
    BY <2>2
  <2>4. TokenTypes'
    BY <2>1, <2>2, <2>3
  <2>5. \A y \in Txn \ {x} : txn'[y] = txn[y]
    BY <2>2
  <2>6. QED
    BY <2>2, <2>3, <2>4, <2>5
<1>3. ASSUME NEW x \in Txn, NEW t \in Token, BeginConfirm(x, t) PROVE TokenInv'
  BY <1>3 DEF BeginConfirm, Accepted, Fresh, Free
<1>4. ASSUME NEW x \in Txn, NEW t \in Token, LockRow(x, t) PROVE TokenInv'
  <2>1. PICK H \in {txn[x].holds, txn[x].holds \cup {t}} :
          /\ t \in H \ txn[x].holds => mail[t] = "fresh"
          /\ txn' = [txn EXCEPT ![x].want = txn[x].want \ {t}, ![x].holds = H]
    BY <1>4 DEF LockRow, Fresh
  <2>2. \A y \in Txn \ {x} : txn'[y] = txn[y] /\ t \notin txn[y].holds
    BY <1>4, <2>1 DEF LockRow, Free
  <2>3. /\ txn'[x].holds = H /\ txn'[x].kind = txn[x].kind /\ txn'[x].tok = txn[x].tok
        /\ UNCHANGED <<mail, spent>>
    BY <1>4, <2>1 DEF LockRow
  <2>4. TokenTypes'
    <3>1. H \in SUBSET Token /\ txn[x].want \ {t} \in SUBSET Token
      OBVIOUS
    <3>2. txn[x] \in Txns
      OBVIOUS
    <3>3. txn' = [txn EXCEPT ![x] = [txn[x] EXCEPT !.want = txn[x].want \ {t}, !.holds = H]]
      BY <2>1
    <3> HIDE DEF Txns
    <3>4. [txn[x] EXCEPT !.want = txn[x].want \ {t}, !.holds = H] \in Txns
      BY <3>1, <3>2, TxnUpdate
    <3>5. QED
      BY <2>3, <3>3, <3>4
  <2>5. RowsLocked'
    BY <2>1, <2>2, <2>3
  <2>6. ConfirmHoldsItsToken' /\ SpentIsUsed'
    BY <2>1, <2>2, <2>3
  <2>7. QED
    BY <2>4, <2>5, <2>6
<1>5. ASSUME NEW x \in Txn, DeadlockAbort(x) PROVE TokenInv'
  BY <1>5 DEF DeadlockAbort
<1>6. ASSUME NEW x \in Txn, CommitIssue(x) PROVE TokenInv'
  BY <1>6 DEF CommitIssue, Consumed
<1>7. ASSUME NEW x \in Txn, CommitConfirm(x) PROVE TokenInv'
  BY <1>7 DEF CommitConfirm, Consumed
<1>8. QED
  BY <1>1, <1>2, <1>3, <1>4, <1>5, <1>6, <1>7, SessionsLeaveTokens
  DEF Next, Mailed, vars, tokens

(* For any transactions on any number of tokens, whatever rows they lock   *)
(* and in whatever order they commit or are aborted, a mailed token is     *)
(* accepted at most once.                                                  *)
THEOREM TokensAreSpentOnce == Spec => []TokenSpentOnce
<1>1. TokenInv => TokenSpentOnce
  BY DEF TokenInv, SpentIsUsed, TokenSpentOnce
<1>2. QED
  BY <1>1, TokenInit, TokenStep, PTL DEF Spec

-----------------------------------------------------------------------------
(* Finite sets of sessions.                                                *)

LEMMA Smallest == ASSUME NEW S \in SUBSET Nat, S # {} PROVE \E i \in S : \A k \in S : i <= k
<1>1. PICK i \in S : \A k \in S : ~ (<<k, i>> \in OpToRel(<, Nat))
  BY NatLessThanWellFounded, WFMin
<1>2. \A k \in S : ~(k < i)
  BY <1>1 DEF OpToRel
<1>3. QED
  BY <1>2

LEMMA NextIdUnused == ASSUME Unused # {} PROVE NextId \in Unused
<1>1. Unused \in SUBSET Nat
  BY AccountsAssumption DEF Unused, Id
<1>2. QED
  BY <1>1, Smallest DEF NextId

LEMMA Shrinks ==
  ASSUME NEW A, NEW B, IsFiniteSet(A), B \subseteq A
  PROVE  /\ Cardinality(A) \in Nat /\ Cardinality(B) \in Nat
         /\ Cardinality(B) <= Cardinality(A)
  BY FS_Subset, FS_CardinalityType

LEMMA GrowsByOne ==
  ASSUME NEW A, NEW B, NEW x, IsFiniteSet(A), B \subseteq A \cup {x}
  PROVE  /\ Cardinality(A) \in Nat /\ Cardinality(B) \in Nat
         /\ Cardinality(B) <= Cardinality(A) + 1
<1>1. /\ IsFiniteSet(A \cup {x}) /\ Cardinality(A) \in Nat
      /\ Cardinality(A \cup {x}) \in Nat /\ Cardinality(A \cup {x}) <= Cardinality(A) + 1
  BY FS_AddElement, FS_CardinalityType
<1>2. Cardinality(B) \in Nat /\ Cardinality(B) <= Cardinality(A \cup {x})
  BY <1>1, Shrinks
<1>3. QED
  BY <1>1, <1>2

LEMMA SomeIds == ASSUME NEW S \in SUBSET Id PROVE IsFiniteSet(S) /\ Cardinality(S) \in Nat
<1>1. IsFiniteSet(Id)
  BY AccountsAssumption, FS_Interval DEF Id
<1>2. QED
  BY <1>1, FS_Subset, FS_CardinalityType
-----------------------------------------------------------------------------
(* Sessions: types.                                                        *)

LEMMA SlotFinite == IsFiniteSet(Slot)
<1>1. IsFiniteSet({"user"})
  BY FS_Singleton
<1>2. IsFiniteSet({"user"} \cup {"refresh"})
  BY <1>1, FS_AddElement
<1>3. IsFiniteSet(({"user"} \cup {"refresh"}) \cup {"again"})
  BY <1>2, FS_AddElement
<1>4. Slot = ({"user"} \cup {"refresh"}) \cup {"again"}
  BY DEF Slot, RefreshSlot
<1>5. QED
  BY <1>3, <1>4

(* The number of the client's requests that still wait for an answer.      *)
Waiting == {s \in Slot : Listening(s)}

LEMMA WaitingCounted ==
  /\ IsFiniteSet(Waiting) /\ Cardinality(Waiting) \in Nat
  /\ Waiting = {} => Cardinality(Waiting) = 0
  /\ \A s : Waiting = {s} => Cardinality(Waiting) = 1
  /\ Waiting # {} => Cardinality(Waiting) > 0
<1>1. IsFiniteSet(Waiting) /\ Cardinality(Waiting) \in Nat
  BY SlotFinite, FS_Subset, FS_CardinalityType DEF Waiting
<1>2. Cardinality(Waiting) = 0 <=> Waiting = {}
  BY <1>1, FS_EmptySet
<1>3. QED
  BY <1>1, <1>2, FS_Singleton

(* The record of a call that was sent, read, answered or given up.         *)
LEMMA SendIs ==
  ASSUME SessionTypes, NEW s \in Slot, NEW kind \in Kinds, NEW tok \in Id \cup {NoId},
         Send(s, kind, tok)
  PROVE  /\ call' \in [Slot -> Calls]
         /\ call'[s].pc = "sent" /\ call'[s].kind = kind /\ call'[s].tok = tok
         /\ call'[s].got = "none" /\ call'[s].heard
         /\ \A t \in Slot \ {s} : call'[t] = call[t]
<1>1. [NoCall EXCEPT !.pc = "sent", !.kind = kind, !.tok = tok, !.heard = TRUE] \in Calls
  BY DEF NoCall, Calls
<1>2. QED
  BY <1>1 DEF Send, SessionTypes, NoCall

LEMMA ReadIs ==
  ASSUME SessionTypes, NEW s \in Slot, call' = [call EXCEPT ![s].pc = "read"]
  PROVE  /\ call' \in [Slot -> Calls]
         /\ call'[s].pc = "read" /\ call'[s].kind = call[s].kind
         /\ call'[s].tok = call[s].tok /\ call'[s].got = call[s].got
         /\ call'[s].heard = call[s].heard
         /\ \A t \in Slot \ {s} : call'[t] = call[t]
<1>1. call[s] \in Calls /\ [call[s] EXCEPT !.pc = "read"] \in Calls
  BY DEF SessionTypes, Calls
<1>2. QED
  BY <1>1 DEF SessionTypes, Calls

LEMMA AnswerIs ==
  ASSUME SessionTypes, NEW s \in Slot, NEW g \in {"session", "denied", "done"},
         NEW i \in Id \cup {NoId}, Answer(s, g, i)
  PROVE  /\ call' \in [Slot -> Calls]
         /\ call'[s].pc = "answered" /\ call'[s].kind = call[s].kind
         /\ call'[s].got = g /\ call'[s].new = i /\ call'[s].heard = call[s].heard
         /\ \A t \in Slot \ {s} : call'[t] = call[t]
<1>1. call[s] \in Calls
  BY DEF SessionTypes
<1>2. [call[s] EXCEPT !.pc = "answered", !.got = g, !.new = i, !.tok = NoId] \in Calls
  BY <1>1 DEF Calls
<1>3. call' = [call EXCEPT ![s] = [call[s] EXCEPT !.pc = "answered", !.got = g, !.new = i,
                                                  !.tok = NoId]]
  BY DEF Answer, SessionTypes
<1>4. QED
  BY <1>1, <1>2, <1>3 DEF SessionTypes, Calls

LEMMA ForgetIs ==
  ASSUME NEW c \in Calls
  PROVE  /\ [c EXCEPT !.heard = FALSE] \in Calls
         /\ ~[c EXCEPT !.heard = FALSE].heard
         /\ [c EXCEPT !.heard = FALSE].pc = c.pc /\ [c EXCEPT !.heard = FALSE].got = c.got
         /\ [c EXCEPT !.heard = FALSE].kind = c.kind
  BY DEF Calls

-----------------------------------------------------------------------------
(* Sessions: the shape of a step.                                          *)

LEMMA SessionInit == Init => SessionInv
<1> SUFFICES ASSUME Init PROVE SessionInv
  OBVIOUS
<1> USE DEF Init, NoCall, NoId
<1>1. SessionTypes
  <2>1. NoCall \in Calls
    BY DEF Calls, Kinds
  <2>2. QED
    BY <2>1 DEF SessionTypes
<1>2. OneCall
  BY DEF OneCall, Busy
<1>3. LiveIds = {} /\ LiveIds \ {stored} = {}
  BY DEF LiveIds, Live
<1>4. AtRest
  BY <1>3, FS_EmptySet DEF AtRest, LiveBut
<1>5. QED
  BY <1>1, <1>2, <1>4 DEF SessionInv, Accounted, Busy

(* A step that leaves the sessions, the calls and what is stored.          *)
LEMMA SessionFrame ==
  ASSUME SessionInv, UNCHANGED <<session, stored, call, lost, revoked, overlap>>,
         access' \in {NoId, stored}
  PROVE  SessionInv'
<1>1. SessionTypes' /\ OneCall'
  BY DEF SessionInv, SessionTypes, OneCall, Busy
<1>2. UNCHANGED LiveIds /\ \A i : Live(i)' <=> Live(i)
  BY DEF LiveIds, Live, SessionInv
<1>3. AtRest' <=> AtRest
  BY <1>2 DEF AtRest, LiveBut, SessionInv
<1>4. \A s \in Slot : (Ledger(s)' <=> Ledger(s)) /\ (InSession(s)' <=> InSession(s))
  BY <1>2 DEF Ledger, InSession, LiveBut, WillHold, SentFor, OpensUnheard, Pending, Answered,
              SessionInv
<1>5. QED
  BY <1>1, <1>3, <1>4 DEF SessionInv, Accounted, Quiet, Busy

(* What the invariant says of the only call in flight.                     *)
LEMMA Alone ==
  ASSUME SessionInv, ~overlap, NEW s \in Slot, Busy(s)
  PROVE  /\ Ledger(s) /\ InSession(s) /\ \A t \in Slot \ {s} : call[t].pc = "idle"
         /\ ~call[s].heard => lost > 0
  BY DEF SessionInv, OneCall, Accounted, Busy

(* And what re-establishes it after a step of that call.                   *)
LEMMA OneSlot ==
  ASSUME NEW s \in Slot, \A t \in Slot \ {s} : call'[t].pc = "idle",
         Busy(s)' => Ledger(s)' /\ InSession(s)',
         ~Busy(s)' => AtRest'
  PROVE  Accounted'
  BY DEF Accounted, Quiet, Busy

-----------------------------------------------------------------------------
(* Sessions: the service.                                                  *)

(* A handler touches its own call, the sessions and nothing of the client. *)
LEMMA ServiceStep ==
  ASSUME SessionInv, SessionTypes', NEW s \in Slot, Busy(s), Busy(s)',
         UNCHANGED <<stored, lost, overlap>>,
         \A t \in Slot \ {s} : call'[t] = call[t],
         call'[s].heard = call[s].heard,
         ~overlap => Ledger(s)' /\ InSession(s)'
  PROVE  SessionInv'
<1>1. OneCall'
  BY DEF SessionInv, OneCall, Busy
<1>2. Accounted'
  <2>1. CASE overlap
    BY <2>1 DEF Accounted
  <2>2. CASE ~overlap
    BY <2>2, Alone, OneSlot DEF SessionTypes
  <2>3. QED
    BY <2>1, <2>2 DEF SessionInv, SessionTypes
<1>3. QED
  BY <1>1, <1>2 DEF SessionInv

LEMMA LiveSets ==
  /\ LiveIds \in SUBSET Id /\ IsFiniteSet(LiveIds)
  /\ \A w : IsFiniteSet(LiveIds \ {w}) /\ LiveBut(w) \in Nat
<1>1. LiveIds \in SUBSET Id /\ \A w : LiveIds \ {w} \in SUBSET Id
  BY DEF LiveIds
<1>2. QED
  BY <1>1, SomeIds DEF LiveBut

(* How the ledger of a call changes with the live sessions.                *)
LEMMA Fewer ==
  ASSUME NEW w, NEW S, S \subseteq LiveIds \ {w}
  PROVE  Cardinality(S) \in Nat /\ Cardinality(S) <= LiveBut(w)
  BY LiveSets, Shrinks DEF LiveBut

LEMMA OneMore ==
  ASSUME NEW w, NEW x, NEW S, S \subseteq (LiveIds \ {w}) \cup {x}
  PROVE  Cardinality(S) \in Nat /\ Cardinality(S) <= LiveBut(w) + 1
  BY LiveSets, GrowsByOne DEF LiveBut

LEMMA NoneLive ==
  ASSUME session' = RevokeAll, SessionTypes
  PROVE  LiveIds' = {} /\ \A w : Cardinality(LiveIds' \ {w}) = 0
<1>1. LiveIds' = {}
  BY DEF LiveIds, Live, RevokeAll, SessionTypes
<1>2. QED
  BY <1>1, FS_EmptySet

(* While the request is heard and the client missed nothing, the session   *)
(* it was sent with is live.                                               *)
LEMMA TokLive ==
  ASSUME SessionInv, ~overlap, NEW s \in Slot, Pending(s), lost = 0, revoked = 0,
         call[s].kind \in {"refresh", "logoutAll", "change"}
  PROVE  Live(call[s].tok)
<1>1. Busy(s) /\ ~Answered(s)
  BY DEF Busy, Pending, Answered
<1>2. call[s].heard /\ InSession(s) /\ SentFor(s)
  BY <1>1, Alone DEF Ledger
<1>3. QED
  BY <1>1, <1>2 DEF InSession, SentFor, Kinds

LEMMA ReadsOn ==
  ASSUME SessionInv, NEW s \in Slot, call[s].pc = "sent", call' = [call EXCEPT ![s].pc = "read"],
         UNCHANGED <<session, stored, access, lost, overlap, revoked>>
  PROVE  SessionInv'
<1>1. SessionTypes
  BY DEF SessionInv
<1>2. /\ Busy(s) /\ Pending(s) /\ ~Answered(s) /\ Busy(s)' /\ Pending(s)' /\ ~Answered(s)'
      /\ call'[s].kind = call[s].kind /\ call'[s].tok = call[s].tok
      /\ call'[s].heard = call[s].heard /\ \A t \in Slot \ {s} : call'[t] = call[t]
  BY <1>1, ReadIs DEF Busy, Pending, Answered
<1>3. SessionTypes'
  BY <1>1, ReadIs DEF SessionTypes
<1>4. UNCHANGED LiveIds /\ \A i : Live(i)' <=> Live(i)
  BY DEF LiveIds, Live
<1>5. Ledger(s) => Ledger(s)'
  BY <1>2, <1>4 DEF Ledger, SentFor, LiveBut, WillHold, OpensUnheard
<1>6. InSession(s) => InSession(s)'
  BY <1>2, <1>4 DEF InSession
<1>7. QED
  BY <1>2, <1>3, <1>5, <1>6, Alone, ServiceStep

HoldsAfter(s, g, i) ==
    IF ~call[s].heard THEN stored
    ELSE IF call[s].kind \in {"logout", "logoutAll"} THEN NoId
    ELSE IF g = "session" THEN i
    ELSE IF call[s].kind = "refresh" /\ g = "denied" THEN NoId
    ELSE stored

LEMMA Answers ==
  ASSUME SessionInv, NEW s \in Slot, Pending(s),
         UNCHANGED <<stored, access, lost, overlap, revoked>>,
         session' \in [Id -> {"live", "revoked"}],
         NEW g \in {"session", "denied", "done"}, NEW i \in Id \cup {NoId}, Answer(s, g, i),
         ~overlap => /\ Cardinality(LiveIds' \ {HoldsAfter(s, g, i)}) \in Nat
                     /\ Cardinality(LiveIds' \ {HoldsAfter(s, g, i)}) <= lost,
         ~overlap /\ lost = 0 /\ revoked = 0 =>
             \/ call[s].kind \in {"logout", "logoutAll"} /\ g # "denied"
             \/ g = "session" /\ i \in Id /\ session'[i] = "live"
  PROVE  SessionInv'
<1>1. SessionTypes
  BY DEF SessionInv
<1>2. /\ Busy(s) /\ Busy(s)' /\ ~Pending(s)' /\ Answered(s)'
      /\ call'[s].kind = call[s].kind /\ call'[s].got = g /\ call'[s].new = i
      /\ call'[s].heard = call[s].heard /\ \A t \in Slot \ {s} : call'[t] = call[t]
  BY <1>1, AnswerIs DEF Busy, Pending, Answered
<1>3. SessionTypes'
  BY <1>1, AnswerIs DEF SessionTypes
<1>4. WillHold(s)' = HoldsAfter(s, g, i)
  BY <1>2 DEF WillHold, HoldsAfter
<1>5. ~OpensUnheard(s)' /\ SentFor(s)'
  BY <1>2 DEF OpensUnheard, SentFor
<1>6. ~overlap => Ledger(s)'
  BY <1>4, <1>5 DEF Ledger, LiveBut
<1>7. ~overlap => InSession(s)'
  BY <1>2 DEF InSession, Live
<1>8. QED
  BY <1>2, <1>3, <1>6, <1>7, ServiceStep

(* Every handler that refuses or revokes everything leaves nothing live.   *)
LEMMA RefusalStep ==
  ASSUME SessionInv, NEW s \in Slot, Pending(s),
         UNCHANGED <<stored, access, lost, overlap, revoked>>,
         NEW g \in {"denied", "done"}, Answer(s, g, NoId), session' = RevokeAll,
         \/ call[s].kind \in {"logout", "logoutAll"} /\ g # "denied"
         \/ call[s].kind = "refresh" /\ ~Live(call[s].tok)
  PROVE  SessionInv'
<1>1. SessionTypes /\ lost \in Nat
  BY DEF SessionInv, SessionTypes
<1>2. session' \in [Id -> {"live", "revoked"}]
  BY <1>1 DEF SessionTypes, RevokeAll
<1>3. \A w : Cardinality(LiveIds' \ {w}) \in Nat /\ Cardinality(LiveIds' \ {w}) <= lost
  BY <1>1, NoneLive
<1>4. QED
  BY <1>1, <1>2, <1>3, TokLive, Answers

LEMMA RefreshReadsStep ==
  ASSUME SessionInv, NEW s \in Slot, RefreshReads(s)
  PROVE  SessionInv'
<1>1. /\ call[s].pc = "sent" /\ Pending(s) /\ call[s].kind = "refresh"
      /\ UNCHANGED <<stored, access, lost, overlap, revoked>>
  BY DEF RefreshReads, Pending, Service, client, history
<1>2. CASE Live(call[s].tok)
  BY <1>1, <1>2, ReadsOn DEF RefreshReads
<1>3. CASE ~Live(call[s].tok)
  BY <1>1, <1>3, RefusalStep DEF RefreshReads
<1>4. QED
  BY <1>2, <1>3

LEMMA LogoutAllCommitsStep ==
  ASSUME SessionInv, NEW s \in Slot, LogoutAllCommits(s)
  PROVE  SessionInv'
<1>1. /\ Pending(s) /\ call[s].kind = "logoutAll"
      /\ UNCHANGED <<stored, access, lost, overlap, revoked>>
  BY DEF LogoutAllCommits, Pending, Service, client, history
<1>2. QED
  BY <1>1, RefusalStep DEF LogoutAllCommits

(* What the ledger of the one pending call says before its handler commits.*)
LEMMA PendingLedger ==
  ASSUME SessionInv, ~overlap, NEW s \in Slot, Pending(s)
  PROVE  /\ SentFor(s) /\ LiveBut(stored) \in Nat /\ lost \in Nat /\ LiveBut(stored) <= lost
         /\ call[s].heard \/ LiveBut(stored) + 1 <= lost
            \/ call[s].kind \notin {"refresh", "login", "change"}
         /\ call[s].heard \/ lost > 0
<1>1. Busy(s) /\ ~Answered(s)
  BY DEF Busy, Pending, Answered
<1>2. Ledger(s) /\ lost \in Nat /\ WillHold(s) = stored /\ (call[s].heard \/ lost > 0)
  BY <1>1, Alone DEF WillHold, SessionInv, SessionTypes
<1>3. LiveBut(stored) \in Nat
  BY LiveSets
<1>4. LiveBut(stored) <= lost
  BY <1>2, <1>3 DEF Ledger
<1>5. call[s].heard \/ LiveBut(stored) + 1 <= lost
      \/ call[s].kind \notin {"refresh", "login", "change"}
  BY <1>2, <1>3 DEF Ledger, OpensUnheard
<1>6. QED
  BY <1>2, <1>3, <1>4, <1>5 DEF Ledger

(* A handler that opens the session n and revokes none but tok.            *)
LEMMA OpensStep ==
  ASSUME SessionInv, NEW s \in Slot, Pending(s), call[s].kind \in {"refresh", "login", "change"},
         UNCHANGED <<stored, access, lost, overlap, revoked>>,
         NEW n \in Unused, Answer(s, "session", n),
         session' \in [Id -> {"live", "revoked"}], session'[n] = "live",
         LiveIds' \subseteq LiveIds \cup {n},
         ~overlap /\ call[s].heard => LiveIds' \ {n} \subseteq LiveIds \ {stored}
  PROVE  SessionInv'
<1>1. n \in Id
  BY DEF Unused
<1>2. ASSUME ~overlap
      PROVE  /\ Cardinality(LiveIds' \ {HoldsAfter(s, "session", n)}) \in Nat
             /\ Cardinality(LiveIds' \ {HoldsAfter(s, "session", n)}) <= lost
  <2>1. CASE call[s].heard
    <3>1. HoldsAfter(s, "session", n) = n
      BY <2>1 DEF HoldsAfter
    <3>2. /\ Cardinality(LiveIds' \ {n}) \in Nat
          /\ Cardinality(LiveIds' \ {n}) <= LiveBut(stored)
      BY <1>2, <2>1, Fewer
    <3>3. QED
      BY <1>2, <3>1, <3>2, PendingLedger
  <2>2. CASE ~call[s].heard
    <3>1. HoldsAfter(s, "session", n) = stored
      BY <2>2 DEF HoldsAfter
    <3>2. LiveIds' \ {stored} \subseteq (LiveIds \ {stored}) \cup {n}
      OBVIOUS
    <3>3. /\ Cardinality(LiveIds' \ {stored}) \in Nat
          /\ Cardinality(LiveIds' \ {stored}) <= LiveBut(stored) + 1
      BY <3>2, OneMore
    <3>4. QED
      BY <1>2, <2>2, <3>1, <3>3, PendingLedger
  <2>3. QED
    BY <2>1, <2>2
<1>3. QED
  BY <1>1, <1>2, Answers

LEMMA RefreshCommitsStep ==
  ASSUME SessionInv, NEW s \in Slot, RefreshCommits(s)
  PROVE  SessionInv'
<1> DEFINE n == NextId
<1>1. /\ Pending(s) /\ call[s].kind = "refresh" /\ Answer(s, "session", n)
      /\ UNCHANGED <<stored, access, lost, overlap, revoked>>
      /\ session' = [session EXCEPT ![call[s].tok] = "revoked", ![n] = "live"]
  BY DEF RefreshCommits, Pending, Service, client, history
<1>2. n \in Unused
  BY NextIdUnused DEF RefreshCommits
<1> HIDE DEF n
<1>3. /\ session \in [Id -> {"live", "revoked"}] /\ n \in Id
      /\ session' \in [Id -> {"live", "revoked"}] /\ session'[n] = "live"
  BY <1>1, <1>2 DEF SessionInv, SessionTypes, Unused
<1>4. LiveIds' \subseteq (LiveIds \ {call[s].tok}) \cup {n}
  BY <1>1, <1>3 DEF LiveIds, Live
<1>5. ~overlap /\ call[s].heard => call[s].tok = stored
  BY <1>1, PendingLedger DEF SentFor, Kinds
<1>6. QED
  BY <1>1, <1>2, <1>3, <1>4, <1>5, OpensStep

LEMMA LoginCommitsStep ==
  ASSUME SessionInv, NEW s \in Slot, LoginCommits(s)
  PROVE  SessionInv'
<1> DEFINE n == NextId
<1>1. /\ Pending(s) /\ call[s].kind = "login" /\ Answer(s, "session", n)
      /\ UNCHANGED <<stored, access, lost, overlap, revoked>>
      /\ session' = [session EXCEPT ![n] = "live"]
  BY DEF LoginCommits, Pending, Service, client, history
<1>2. n \in Unused
  BY NextIdUnused DEF LoginCommits
<1> HIDE DEF n
<1>3. /\ session \in [Id -> {"live", "revoked"}] /\ n \in Id
      /\ session' \in [Id -> {"live", "revoked"}] /\ session'[n] = "live"
  BY <1>1, <1>2 DEF SessionInv, SessionTypes, Unused
<1>4. LiveIds' \subseteq LiveIds \cup {n}
  BY <1>1, <1>3 DEF LiveIds, Live
<1>5. ~overlap /\ call[s].heard => stored = NoId
  BY <1>1, PendingLedger DEF SentFor
<1>6. NoId \notin LiveIds
  BY AccountsAssumption DEF LiveIds, Id, NoId
<1>7. QED
  BY <1>1, <1>2, <1>3, <1>4, <1>5, <1>6, OpensStep

LEMMA ChangeCommitsStep ==
  ASSUME SessionInv, NEW s \in Slot, ChangeCommits(s)
  PROVE  SessionInv'
<1> DEFINE n == NextId
<1>1. /\ Pending(s) /\ call[s].kind = "change" /\ Answer(s, "session", n)
      /\ UNCHANGED <<stored, access, lost, overlap, revoked>>
      /\ session' = [RevokeAll EXCEPT ![n] = "live"]
  BY DEF ChangeCommits, Pending, Service, client, history
<1>2. n \in Unused
  BY NextIdUnused DEF ChangeCommits
<1> HIDE DEF n
<1>3. /\ session \in [Id -> {"live", "revoked"}] /\ n \in Id
      /\ session' \in [Id -> {"live", "revoked"}] /\ session'[n] = "live"
  BY <1>1, <1>2 DEF SessionInv, SessionTypes, Unused, RevokeAll
<1>4. LiveIds' \subseteq {n}
  BY <1>1, <1>3 DEF LiveIds, Live, RevokeAll
<1>5. QED
  BY <1>1, <1>2, <1>3, <1>4, OpensStep

(* An answer that opens no session: sign-out, or a refused access token.   *)
LEMMA ClosesStep ==
  ASSUME SessionInv, NEW s \in Slot, Pending(s),
         UNCHANGED <<stored, access, lost, overlap, revoked>>,
         session' \in [Id -> {"live", "revoked"}],
         NEW g \in {"denied", "done"}, Answer(s, g, NoId), LiveIds' \subseteq LiveIds,
         call[s].kind \in {"logout", "logoutAll", "change"},
         call[s].heard /\ ~overlap => stored \notin LiveIds',
         \/ call[s].kind = "logout" /\ g # "denied"
         \/ call[s].kind # "logout" /\ ~Live(call[s].tok)
  PROVE  SessionInv'
<1>1. ASSUME ~overlap
      PROVE  /\ Cardinality(LiveIds' \ {HoldsAfter(s, g, NoId)}) \in Nat
             /\ Cardinality(LiveIds' \ {HoldsAfter(s, g, NoId)}) <= lost
  <2>1. HoldsAfter(s, g, NoId) = stored \/ call[s].heard
    BY DEF HoldsAfter
  <2>2. LiveIds' \ {HoldsAfter(s, g, NoId)} \subseteq LiveIds \ {stored}
    BY <1>1, <2>1
  <2>3. /\ Cardinality(LiveIds' \ {HoldsAfter(s, g, NoId)}) \in Nat
        /\ Cardinality(LiveIds' \ {HoldsAfter(s, g, NoId)}) <= LiveBut(stored)
    BY <2>2, Fewer
  <2>4. QED
    BY <1>1, <2>3, PendingLedger
<1>2. ~overlap /\ lost = 0 /\ revoked = 0 => call[s].kind = "logout" /\ g # "denied"
  BY TokLive
<1>3. QED
  BY <1>1, <1>2, Answers

LEMMA LogoutCommitsStep ==
  ASSUME SessionInv, NEW s \in Slot, LogoutCommits(s)
  PROVE  SessionInv'
<1>1. /\ Pending(s) /\ call[s].kind = "logout" /\ Answer(s, "done", NoId)
      /\ UNCHANGED <<stored, access, lost, overlap, revoked>>
      /\ session' = [i \in Id |-> IF i = call[s].tok /\ Live(i) THEN "revoked" ELSE session[i]]
  BY DEF LogoutCommits, Pending, Service, client, history
<1>2. session' \in [Id -> {"live", "revoked"}]
  BY <1>1 DEF SessionInv, SessionTypes
<1>3. LiveIds' \subseteq LiveIds \ {call[s].tok}
  BY <1>1 DEF LiveIds, Live
<1>4. ~overlap /\ call[s].heard => call[s].tok = stored
  BY <1>1, PendingLedger DEF SentFor, Kinds
<1>5. QED
  BY <1>1, <1>2, <1>3, <1>4, ClosesStep

LEMMA AuthenticatesStep ==
  ASSUME SessionInv, NEW s \in Slot, Authenticates(s)
  PROVE  SessionInv'
<1>1. /\ call[s].pc = "sent" /\ Pending(s) /\ call[s].kind \in {"logoutAll", "change"}
      /\ UNCHANGED <<session, stored, access, lost, overlap, revoked>>
  BY DEF Authenticates, Pending, Service, client, history
<1>2. CASE Live(call[s].tok)
  BY <1>1, <1>2, ReadsOn DEF Authenticates
<1>3. CASE ~Live(call[s].tok)
  <2>1. Answer(s, "denied", NoId)
    BY <1>3 DEF Authenticates
  <2>2. LiveIds' = LiveIds /\ session' \in [Id -> {"live", "revoked"}]
    BY <1>1 DEF LiveIds, Live, SessionInv, SessionTypes
  <2>3. ~overlap /\ call[s].heard => call[s].tok = stored
    BY <1>1, PendingLedger DEF SentFor, Kinds
  <2>4. stored \in LiveIds => Live(stored)
    BY DEF LiveIds
  <2>5. QED
    BY <1>1, <1>3, <2>1, <2>2, <2>3, <2>4, ClosesStep
<1>4. QED
  BY <1>2, <1>3

LEMMA HandleStep == ASSUME SessionInv, NEW s \in Slot, Handle(s) PROVE SessionInv'
  BY RefreshReadsStep, RefreshCommitsStep, LoginCommitsStep, LogoutCommitsStep,
     AuthenticatesStep, LogoutAllCommitsStep, ChangeCommitsStep DEF Handle

(* A revocation from elsewhere, by another device or a confirmed reset.    *)
LEMMA RevokedStep ==
  ASSUME SessionInv, session' = RevokeAll, revoked' = revoked + 1,
         UNCHANGED <<stored, access, call, lost, overlap>>
  PROVE  SessionInv'
<1>1. SessionTypes' /\ OneCall' /\ SessionTypes
  BY DEF SessionInv, SessionTypes, OneCall, Busy, RevokeAll
<1>2. LiveIds' = {} /\ \A w : Cardinality(LiveIds' \ {w}) = 0
  BY <1>1, NoneLive
<1>3. revoked' # 0 /\ lost \in Nat
  BY <1>1 DEF SessionTypes
<1>4. AtRest'
  BY <1>2, <1>3 DEF AtRest, LiveBut
<1>5. ASSUME NEW s \in Slot, ~overlap, Busy(s) PROVE Ledger(s)' /\ InSession(s)'
  <2>1. SentFor(s) /\ (OpensUnheard(s) => lost > 0)
    BY <1>5, Alone DEF Ledger, OpensUnheard
  <2>2. SentFor(s)' /\ (OpensUnheard(s)' <=> OpensUnheard(s))
    BY <2>1 DEF SentFor, OpensUnheard, Pending
  <2>3. Ledger(s)'
    BY <1>2, <1>3, <2>1, <2>2 DEF Ledger, LiveBut
  <2>4. InSession(s)'
    BY <1>3 DEF InSession
  <2>5. QED
    BY <2>3, <2>4
<1>6. QED
  BY <1>1, <1>4, <1>5 DEF SessionInv, Accounted, Busy

-----------------------------------------------------------------------------
(* Sessions: the client.                                                   *)

(* A request that does not overlap with another is sent.                   *)
LEMMA SendStep ==
  ASSUME SessionInv, NEW s \in Slot, ~Busy(s), NEW kind \in Kinds \ {"none"},
         NEW tok \in Id \cup {NoId}, Send(s, kind, tok),
         UNCHANGED <<session, stored, access, lost, revoked>>,
         overlap' \in BOOLEAN,
         ~overlap' => /\ ~overlap /\ Quiet
                      /\ kind = "login" => stored = NoId
                      /\ kind # "login" => tok = stored
                      /\ kind \in {"refresh", "logoutAll", "change"} => stored # NoId
  PROVE  SessionInv'
<1>1. SessionTypes
  BY DEF SessionInv
<1>2. /\ call'[s].pc = "sent" /\ call'[s].kind = kind /\ call'[s].tok = tok
      /\ call'[s].got = "none" /\ call'[s].heard
      /\ \A t \in Slot \ {s} : call'[t] = call[t]
  BY <1>1, SendIs
<1>3. SessionTypes'
  BY <1>1, SendIs DEF SessionTypes
<1>4. OneCall'
  BY <1>2 DEF SessionInv, OneCall, Busy, Quiet
<1>5. ASSUME ~overlap' PROVE Accounted'
  <2>1. AtRest /\ \A t \in Slot \ {s} : call'[t].pc = "idle"
    BY <1>2, <1>5 DEF SessionInv, Accounted, Quiet, Busy
  <2>2. LiveIds' = LiveIds /\ \A i : Live(i)' <=> Live(i)
    BY DEF LiveIds, Live
  <2>3. WillHold(s)' = stored /\ ~OpensUnheard(s)' /\ ~Answered(s)' /\ Busy(s)'
    BY <1>2 DEF WillHold, OpensUnheard, Answered, Busy
  <2>4. SentFor(s)'
    BY <1>2, <1>5 DEF SentFor
  <2>5. Ledger(s)'
    <3>1. LiveBut(stored) \in Nat /\ LiveBut(stored) <= lost
      BY <2>1, LiveSets DEF AtRest
    <3>2. LiveBut(WillHold(s))' <= lost'
      BY <2>2, <2>3, <3>1 DEF LiveBut
    <3>3. LiveBut(WillHold(s))' \in Nat
      BY <2>2, <2>3, <3>1 DEF LiveBut
    <3>4. QED
      BY <2>3, <2>4, <3>2, <3>3 DEF Ledger
  <2>6. InSession(s)'
    BY <2>1, <2>2, <2>3 DEF InSession, AtRest
  <2>7. QED
    BY <2>1, <2>3, <2>5, <2>6, OneSlot
<1>6. QED
  BY <1>3, <1>4, <1>5 DEF SessionInv, Accounted

LEMMA StartRefreshStep ==
  ASSUME SessionInv, NEW s \in RefreshSlot, StartRefresh(s)
  PROVE  SessionInv'
<1>1. s \in Slot /\ ~Busy(s) /\ UNCHANGED <<session, revoked>> /\ SessionTypes
  BY DEF Slot, StartRefresh, Server, SessionInv
<1>2. CASE RefreshInFlight \/ stored = NoId
  <2>1. UNCHANGED <<session, stored, call, lost, revoked, overlap>> /\ access' \in {NoId, stored}
    BY <1>1, <1>2 DEF StartRefresh, ClearAuth, history, SessionTypes
  <2>2. QED
    BY <2>1, SessionFrame
<1>3. CASE ~RefreshInFlight /\ stored # NoId
  <2>1. /\ Send(s, "refresh", stored) /\ overlap' = (overlap \/ ~Quiet)
        /\ UNCHANGED <<access, stored, lost>>
    BY <1>3 DEF StartRefresh
  <2>2. stored \in Id \cup {NoId} /\ "refresh" \in Kinds \ {"none"}
    BY <1>1 DEF SessionTypes, Kinds
  <2>3. overlap' \in BOOLEAN /\ (~overlap' => ~overlap /\ Quiet)
    BY <1>1, <2>1 DEF SessionTypes
  <2>4. QED
    BY <1>1, <1>3, <2>1, <2>2, <2>3, SendStep
<1>4. QED
  BY <1>2, <1>3

LEMMA UserCallStep ==
  ASSUME SessionInv, NEW kind \in {"login", "logout", "logoutAll", "change"}, UserCall(kind)
  PROVE  SessionInv'
<1> DEFINE tok == IF kind = "logout" THEN stored ELSE IF kind = "login" THEN NoId ELSE access
<1>1. SessionTypes
  BY DEF SessionInv
<1>2. /\ "user" \in Slot /\ ~Busy("user") /\ Send("user", kind, tok)
      /\ UNCHANGED <<session, stored, access, lost, revoked>>
      /\ overlap' = (overlap \/ ~Quiet \/ (kind = "login" /\ stored # NoId))
      /\ kind \in {"logoutAll", "change"} => access # NoId
  BY DEF Slot, UserCall, Server, client
<1>3. /\ tok \in Id \cup {NoId} /\ kind \in Kinds \ {"none"}
      /\ access # NoId => access = stored
  BY <1>1 DEF SessionTypes, Kinds
<1>4. /\ overlap' \in BOOLEAN
      /\ ~overlap' => ~overlap /\ Quiet /\ (kind = "login" => stored = NoId)
  BY <1>1, <1>2 DEF SessionTypes
<1>5. /\ kind # "login" => tok = stored
      /\ kind \in {"refresh", "logoutAll", "change"} => stored # NoId
  BY <1>2, <1>3
<1> HIDE DEF tok
<1>6. QED
  BY <1>2, <1>3, <1>4, <1>5, SendStep

(* A call that ends, with the session the client then holds.               *)
LEMMA EndsStep ==
  ASSUME SessionInv, NEW s \in Slot, Busy(s), call' = [call EXCEPT ![s] = NoCall],
         UNCHANGED <<session, lost, revoked, overlap>>,
         stored' \in Id \cup {NoId}, access' \in {NoId, stored'},
         ~overlap => stored' = WillHold(s),
         ~overlap /\ lost = 0 /\ revoked = 0 /\ stored' # NoId => Live(stored')
  PROVE  SessionInv'
<1>1. SessionTypes
  BY DEF SessionInv
<1>2. NoCall \in Calls
  BY DEF NoCall, Calls, Kinds
<1>3. SessionTypes'
  BY <1>1, <1>2 DEF SessionTypes
<1>4. ~Busy(s)' /\ \A t \in Slot \ {s} : call'[t] = call[t]
  BY <1>1 DEF Busy, NoCall, SessionTypes
<1>5. OneCall'
  BY <1>4 DEF SessionInv, OneCall, Busy
<1>6. LiveIds' = LiveIds /\ \A i : Live(i)' <=> Live(i)
  BY DEF LiveIds, Live
<1>7. ASSUME ~overlap PROVE Accounted'
  <2>1. Ledger(s) /\ \A t \in Slot \ {s} : call[t].pc = "idle"
    BY <1>7, Alone
  <2>2. LiveBut(WillHold(s)) \in Nat /\ lost \in Nat
    BY <1>1, LiveSets DEF SessionTypes
  <2>3. LiveBut(WillHold(s)) <= lost
    BY <2>1, <2>2 DEF Ledger
  <2>4. LiveBut(stored)' <= lost'
    BY <1>6, <1>7, <2>3 DEF LiveBut
  <2>5. AtRest'
    BY <1>6, <1>7, <2>4 DEF AtRest
  <2>6. QED
    BY <1>4, <2>1, <2>5, OneSlot
<1>8. QED
  BY <1>3, <1>5, <1>7 DEF SessionInv, Accounted

LEMMA DeliverStep == ASSUME SessionInv, NEW s \in Slot, Deliver(s) PROVE SessionInv'
<1>1. /\ SessionTypes /\ Busy(s) /\ Answered(s) /\ call' = [call EXCEPT ![s] = NoCall]
      /\ UNCHANGED <<session, lost, revoked, overlap>> /\ call[s] \in Calls
  BY DEF Deliver, Server, Busy, Answered, SessionInv, SessionTypes
<1>2. CASE ~call[s].heard
  <2>1. UNCHANGED <<stored, access>> /\ WillHold(s) = stored
    BY <1>1, <1>2 DEF Deliver, client, WillHold
  <2>2. ~overlap => lost # 0
    BY <1>1, <1>2, Alone DEF SessionTypes
  <2>3. QED
    BY <1>1, <2>1, <2>2, EndsStep DEF SessionTypes
<1>3. CASE call[s].heard
  <2>1. Heard(call[s].kind, call[s].got, call[s].new)
    BY <1>3 DEF Deliver
  <2>2. stored' = WillHold(s) /\ access' \in {NoId, stored'}
    BY <1>1, <1>3, <2>1 DEF Heard, ClearAuth, ApplyAuth, WillHold, client, SessionTypes
  <2>3. stored' \in Id \cup {NoId}
    BY <1>1, <2>2 DEF WillHold, SessionTypes, Calls
  <2>4. ~overlap /\ lost = 0 /\ revoked = 0 /\ stored' # NoId => Live(stored')
    BY <1>1, <1>3, <2>2, Alone DEF InSession, WillHold
  <2>5. QED
    BY <1>1, <2>2, <2>3, <2>4, EndsStep
<1>4. QED
  BY <1>2, <1>3

LEMMA VanishStep == ASSUME SessionInv, NEW s \in Slot, Vanish(s) PROVE SessionInv'
<1>1. /\ SessionTypes /\ Busy(s) /\ ~call[s].heard /\ call' = [call EXCEPT ![s] = NoCall]
      /\ UNCHANGED <<session, stored, access, lost, revoked, overlap>>
  BY DEF Vanish, Server, Busy, SessionInv, client, history
<1>2. WillHold(s) = stored
  BY <1>1 DEF WillHold
<1>3. ~overlap => lost # 0
  BY <1>1, Alone DEF SessionTypes
<1>4. QED
  BY <1>1, <1>2, <1>3, EndsStep DEF SessionTypes

(* The client stops waiting for the answer of s: whatever the service has  *)
(* done or will do for it, at most one session is added to the missed.     *)
LEMMA ForgottenLedger ==
  ASSUME SessionInv, ~overlap, NEW s \in Slot, Listening(s), UNCHANGED session,
         call'[s].pc = call[s].pc, call'[s].kind = call[s].kind, ~call'[s].heard,
         lost' = lost + 1,
         \/ stored' = stored
         \/ call[s].kind \in {"logout", "logoutAll"}
  PROVE  Ledger(s)' /\ InSession(s)'
<1>1. Busy(s) /\ call[s].heard /\ lost \in Nat /\ Ledger(s)
  BY Alone DEF Listening, SessionInv, SessionTypes
<1>2. LiveIds' = LiveIds /\ LiveBut(stored) \in Nat /\ LiveBut(WillHold(s)) \in Nat
  BY LiveSets DEF LiveIds, Live
<1>3. LiveBut(WillHold(s)) <= lost
  BY <1>1, <1>2 DEF Ledger
<1>4. WillHold(s)' = stored'
  BY DEF WillHold
<1>5. SentFor(s)' /\ InSession(s)'
  BY <1>1 DEF SentFor, InSession
<1>6. Cardinality(LiveIds \ {stored'}) \in Nat /\ Cardinality(LiveIds \ {stored'}) <= lost + 1
  <2>1. LiveIds \ {stored'} \subseteq (LiveIds \ {WillHold(s)}) \cup {WillHold(s)}
    OBVIOUS
  <2>2. /\ Cardinality(LiveIds \ {stored'}) \in Nat
        /\ Cardinality(LiveIds \ {stored'}) <= LiveBut(WillHold(s)) + 1
    BY <2>1, OneMore
  <2>3. QED
    BY <1>1, <1>2, <1>3, <2>2
<1>7. OpensUnheard(s)' => LiveBut(stored)' + 1 <= lost'
  <2>1. SUFFICES ASSUME OpensUnheard(s)' PROVE LiveBut(stored)' + 1 <= lost'
    OBVIOUS
  <2>2. WillHold(s) = stored /\ stored' = stored
    BY <2>1 DEF OpensUnheard, Pending, WillHold, Answered
  <2>3. LiveBut(stored)' = LiveBut(stored)
    BY <1>2, <2>2 DEF LiveBut
  <2>4. QED
    BY <1>1, <1>2, <1>3, <2>2, <2>3
<1>8. Ledger(s)'
  <2>1. LiveBut(WillHold(s))' = Cardinality(LiveIds \ {stored'})
    BY <1>2, <1>4 DEF LiveBut
  <2>2. LiveBut(stored)' = Cardinality(LiveIds \ {stored'})
    BY <1>2 DEF LiveBut
  <2>3. QED
    BY <1>5, <1>6, <1>7, <2>1, <2>2 DEF Ledger
<1>9. QED
  BY <1>5, <1>8

LEMMA LoseStep == ASSUME SessionInv, NEW s \in Slot, Lose(s) PROVE SessionInv'
<1>1. /\ SessionTypes /\ Listening(s) /\ Busy(s) /\ call[s] \in Calls
      /\ Heard(call[s].kind, "failed", NoId) /\ call' = [call EXCEPT ![s].heard = FALSE]
      /\ lost' = lost + 1 /\ UNCHANGED <<session, revoked, overlap>>
  BY DEF Lose, Server, Listening, SessionInv, SessionTypes
<1>2. call' = [call EXCEPT ![s] = [call[s] EXCEPT !.heard = FALSE]]
  BY <1>1
<1>3. /\ call' \in [Slot -> Calls] /\ ~call'[s].heard /\ call'[s].pc = call[s].pc
      /\ call'[s].kind = call[s].kind /\ \A t \in Slot \ {s} : call'[t] = call[t]
  BY <1>1, <1>2, ForgetIs DEF SessionTypes
<1>4. \/ stored' = stored /\ access' = access
      \/ call[s].kind \in {"logout", "logoutAll"} /\ stored' = NoId /\ access' = NoId
  BY <1>1 DEF Heard, ClearAuth, client
<1>5. SessionTypes'
  BY <1>1, <1>3, <1>4 DEF SessionTypes
<1>6. OneCall'
  BY <1>1, <1>3 DEF SessionInv, OneCall, Busy, SessionTypes
<1>7. ASSUME ~overlap PROVE Accounted'
  <2>1. Ledger(s)' /\ InSession(s)'
    BY <1>1, <1>3, <1>4, <1>7, ForgottenLedger
  <2>2. \A t \in Slot \ {s} : call'[t].pc = "idle"
    BY <1>1, <1>3, <1>7, Alone
  <2>3. Busy(s)'
    BY <1>1, <1>3 DEF Busy
  <2>4. QED
    BY <2>1, <2>2, <2>3, OneSlot
<1>8. QED
  BY <1>1, <1>5, <1>6, <1>7 DEF SessionInv, Accounted

LEMMA RelaunchStep == ASSUME SessionInv, Relaunch PROVE SessionInv'
<1>1. /\ SessionTypes /\ lost' = lost + Cardinality(Waiting) /\ access' = NoId
      /\ call' = [s \in Slot |-> [call[s] EXCEPT !.heard = FALSE]]
      /\ UNCHANGED <<session, stored, revoked, overlap>>
  BY DEF Relaunch, Server, SessionInv, Waiting
<1>2. lost \in Nat /\ Cardinality(Waiting) \in Nat
  BY <1>1, WaitingCounted DEF SessionTypes
<1>3. /\ call' \in [Slot -> Calls]
      /\ \A s \in Slot : /\ ~call'[s].heard /\ call'[s].pc = call[s].pc
                          /\ call'[s].kind = call[s].kind /\ call'[s].got = call[s].got
  <2>1. \A s \in Slot : call[s] \in Calls
    BY <1>1 DEF SessionTypes
  <2>2. QED
    BY <1>1, <2>1, ForgetIs
<1>4. SessionTypes'
  BY <1>1, <1>2, <1>3 DEF SessionTypes
<1>5. OneCall'
  <2>1. ASSUME NEW s \in Slot, Busy(s) PROVE lost' > 0
    <3>1. CASE call[s].heard
      <4>1. Waiting # {}
        BY <2>1, <3>1 DEF Waiting, Listening
      <4>2. Cardinality(Waiting) > 0
        BY <4>1, WaitingCounted
      <4>3. QED
        BY <1>1, <1>2, <4>2
    <3>2. CASE ~call[s].heard
      <4>1. lost > 0
        BY <2>1, <3>2 DEF SessionInv, OneCall
      <4>2. QED
        BY <1>1, <1>2, <4>1
    <3>3. QED
      BY <3>1, <3>2
  <2>2. QED
    BY <1>1, <1>3, <2>1 DEF SessionInv, OneCall, Busy
<1>6. LiveIds' = LiveIds /\ \A i : Live(i)' <=> Live(i)
  BY <1>1 DEF LiveIds, Live
<1>7. ASSUME ~overlap PROVE Accounted'
  <2>1. CASE Quiet
    <3>1. Waiting = {} /\ AtRest
      BY <1>7, <2>1 DEF Waiting, Listening, Quiet, SessionInv, Accounted
    <3>2. lost' = lost
      BY <1>1, <1>2, <3>1, WaitingCounted
    <3>3. AtRest'
      BY <1>1, <1>6, <3>1, <3>2 DEF AtRest, LiveBut
    <3>4. QED
      BY <1>3, <2>1, <3>3 DEF Accounted, Quiet, Busy
  <2>2. ASSUME NEW s \in Slot, Busy(s) PROVE Accounted'
    <3>1. \A t \in Slot \ {s} : call[t].pc = "idle"
      BY <1>7, <2>2, Alone
    <3>2. CASE call[s].heard
      <4>1. Waiting = {s}
        BY <2>2, <3>1, <3>2 DEF Waiting, Listening, Busy
      <4>2. lost' = lost + 1
        BY <1>1, <4>1, WaitingCounted
      <4>3. Ledger(s)' /\ InSession(s)'
        BY <1>1, <1>3, <1>7, <2>2, <3>2, <4>2, ForgottenLedger DEF Listening
      <4>4. QED
        <5>1. \A t \in Slot \ {s} : call'[t].pc = "idle"
          BY <1>3, <3>1
        <5>2. Busy(s)'
          BY <1>3, <2>2 DEF Busy
        <5>3. QED
          BY <4>3, <5>1, <5>2, OneSlot
    <3>3. CASE ~call[s].heard
      <4>1. Waiting = {}
        BY <3>1, <3>3 DEF Waiting, Listening, Busy
      <4>2. lost' = lost /\ lost > 0
        BY <1>1, <1>2, <1>7, <2>2, <3>3, <4>1, WaitingCounted, Alone
      <4>3. Ledger(s)'
        <5>1. /\ Ledger(s) /\ WillHold(s) = stored /\ WillHold(s)' = stored
              /\ OpensUnheard(s)' <=> OpensUnheard(s)
          BY <1>1, <1>3, <1>7, <2>2, <3>3, Alone DEF WillHold, OpensUnheard, Pending
        <5>2. LiveBut(WillHold(s))' = LiveBut(WillHold(s))
          BY <1>6, <5>1 DEF LiveBut
        <5>3. SentFor(s)'
          BY <1>3 DEF SentFor
        <5>4. QED
          BY <4>2, <5>1, <5>2, <5>3 DEF Ledger
      <4>4. InSession(s)'
        BY <4>2, <1>2 DEF InSession
      <4>5. QED
        <5>1. \A t \in Slot \ {s} : call'[t].pc = "idle"
          BY <1>3, <3>1
        <5>2. Busy(s)'
          BY <1>3, <2>2 DEF Busy
        <5>3. QED
          BY <4>3, <4>4, <5>1, <5>2, OneSlot
    <3>4. QED
      BY <3>2, <3>3
  <2>3. QED
    BY <2>1, <2>2 DEF Quiet
<1>8. QED
  BY <1>1, <1>4, <1>5, <1>7 DEF SessionInv, Accounted

-----------------------------------------------------------------------------
(* Sessions: the invariant and the theorem.                                *)

LEMMA MailedStep ==
  ASSUME SessionInv, NEW x \in Txn, Mailed(x)
  PROVE  SessionInv'
<1>1. /\ UNCHANGED <<stored, access, call, lost, overlap>>
      /\ \/ UNCHANGED <<session, revoked>>
         \/ session' = RevokeAll /\ revoked' = revoked + 1
  BY DEF Mailed, BeginIssue, BeginConfirm, LockRow, DeadlockAbort, CommitIssue, CommitConfirm,
         Keep, client, history
<1>2. access \in {NoId, stored}
  BY DEF SessionInv, SessionTypes
<1>3. QED
  BY <1>1, <1>2, SessionFrame, RevokedStep

LEMMA OtherDeviceStep == ASSUME SessionInv, OtherDevice PROVE SessionInv'
  BY RevokedStep DEF OtherDevice, client, history

LEMMA SessionStep == SessionInv /\ [Next]_vars => SessionInv'
<1> SUFFICES ASSUME SessionInv, [Next]_vars PROVE SessionInv'
  OBVIOUS
<1>1. CASE UNCHANGED vars
  BY <1>1, SessionFrame DEF vars, client, history, SessionInv, SessionTypes
<1>2. CASE Sessions
  BY <1>2, StartRefreshStep, UserCallStep, DeliverStep, LoseStep, VanishStep, HandleStep,
     RelaunchStep, OtherDeviceStep DEF Sessions, ClientStep
<1>3. CASE \E x \in Txn : Mailed(x)
  BY <1>3, MailedStep
<1>4. QED
  BY <1>1, <1>2, <1>3 DEF Next

(* For any number of sessions, lost answers and revocations, the client of *)
(* AuthContext.tsx and the service agree whenever it is at rest and its    *)
(* requests did not overlap: every answer it missed left at most one live  *)
(* session behind, and if it missed none and was not revoked, the session  *)
(* it shows is live.                                                       *)
THEOREM ClientsAgreeWithServer == Spec => []ClientAgreesWithServer
<1>1. SessionInv => ClientAgreesWithServer
  <2>1. SUFFICES ASSUME SessionInv, Quiet, ~overlap
                 PROVE  /\ Cardinality({i \in Id : Live(i)} \ {stored}) <= lost
                        /\ access # NoId /\ lost = 0 /\ revoked = 0 => Live(access)
    BY DEF ClientAgreesWithServer
  <2>2. AtRest /\ access \in {NoId, stored}
    BY <2>1 DEF SessionInv, Accounted, SessionTypes
  <2>3. QED
    BY <2>2 DEF AtRest, LiveBut, LiveIds
<1>2. QED
  BY <1>1, SessionInit, SessionStep, PTL DEF Spec

=============================================================================
