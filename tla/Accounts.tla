------------------------------- MODULE Accounts -------------------------------
(***************************************************************************)
(* The sessions of one account: the account service's transactions          *)
(* (account_api/main.py, on PostgreSQL at its default READ COMMITTED) and   *)
(* the native Expo client that holds one of them (AuthContext.tsx).         *)
(*                                                                         *)
(* A session stands for its refresh token and for the access tokens that    *)
(* name it.  The service's handlers run in threads: what a handler read is  *)
(* old when it commits.  A request may be lost on its way, be refused by    *)
(* the rate limiter, or lose its answer; the service then goes on without   *)
(* a client that listens.                                                  *)
(*                                                                         *)
(* A mailed token (password reset or email verification) is consumed by     *)
(* transactions that lock rows one by one.  Sessions and mailed tokens meet *)
(* only where a confirmed reset revokes all sessions, which for the client  *)
(* is the same as another device doing so: a behaviour is about one of the  *)
(* three.  Passwords, expiry by time and the web's cookie are left out.     *)
(***************************************************************************)
EXTENDS Naturals, FiniteSets

CONSTANTS
    MaxSessions,  \* bound: sessions that are live, or held by the client or a request
    MaxTokens,    \* bound: mailed tokens
    MaxLost,      \* bound: requests of which the client hears no answer
    MaxRevoked,   \* bound: revocations by the user's other devices
    Txn,          \* transactions on mailed tokens that can be open together
    Subject       \* subset of {"sessions", "email_verification", "password_reset"}

ASSUME AccountsAssumption ==
    /\ MaxSessions \in Nat /\ MaxTokens \in Nat
    /\ MaxLost \in Nat /\ MaxRevoked \in Nat
    /\ Subject \subseteq {"sessions", "email_verification", "password_reset"}

Id == 1..MaxSessions
Token == 1..MaxTokens
NoId == 0
RefreshSlot == {"refresh", "again"}
Slot == RefreshSlot \cup {"user"}

VARIABLES
    subject,  \* what the behaviour is about; of a mailed token, its purpose
    session,  \* refresh_sessions: live or revoked; those of the future are revoked too
    access,   \* the session of the client's access token, or NoId
    stored,   \* the session of the refresh token in secure storage, or NoId
    due,      \* the client's refresh timer is set, or its first refresh is to run
    call,     \* the client's requests in flight
    mail,     \* account_action_tokens: none, fresh or used
    txn,      \* transactions on them
    verified, \* users.email_verified
    spent,    \* history: how often a token was accepted
    revoked,  \* history: revocations by another device or a reset
    lost,     \* history: requests of which the client heard no answer
    failed,   \* history: the last refresh failed otherwise than with 401
    overlap   \* history: two of the client's own requests were in flight together,
              \* or it signed in over a session it still held

client == <<access, stored, due>>
history == <<lost, failed, overlap>>
tokens == <<mail, txn, verified, spent>>
vars == <<subject, session, client, call, tokens, revoked, history>>

NoCall == [pc |-> "idle", kind |-> "none", tok |-> NoId, got |-> "none", new |-> NoId,
           heard |-> FALSE]
NoTxn == [pc |-> "idle", kind |-> "none", tok |-> 0, holds |-> {}, want |-> {}]

Init ==
    /\ session = [i \in Id |-> "revoked"]
    /\ access = NoId /\ stored = NoId
    /\ due = TRUE
    /\ call = [s \in Slot |-> NoCall]
    /\ mail = [t \in Token |-> "none"]
    /\ txn = [x \in Txn |-> NoTxn]
    /\ subject \in Subject
    /\ verified = FALSE
    /\ spent = [t \in Token |-> 0]
    /\ revoked = 0
    /\ lost = 0 /\ failed = FALSE /\ overlap = FALSE

-----------------------------------------------------------------------------
(* The client                                                               *)

Busy(s) == call[s].pc # "idle"
Listening(s) == Busy(s) /\ call[s].heard
Quiet == \A s \in Slot : ~Busy(s)

\* refreshInFlight
RefreshInFlight == \E s \in RefreshSlot : Listening(s)

Send(s, kind, tok) ==
    call' = [call EXCEPT ![s] = [NoCall EXCEPT !.pc = "sent", !.kind = kind, !.tok = tok,
                                               !.heard = TRUE]]

\* Mutant: the rotated refresh token is not saved.
ApplyAuth_Mutant(i) == access' = i /\ stored' = (IF stored = NoId THEN i ELSE stored) /\ due' = TRUE

ClearAuth == access' = NoId /\ stored' = NoId /\ due' = FALSE
ApplyAuth(i) == access' = i /\ stored' = i /\ due' = TRUE

Server == UNCHANGED <<session, tokens, revoked>>

(* refreshSession, from the timer or on mount: one at a time; without a
   stored token there is nothing to ask. *)
StartRefresh(s) ==
    /\ due /\ ~Busy(s)
    /\ IF RefreshInFlight
       THEN due' = FALSE /\ UNCHANGED <<access, stored, call, history>>
       ELSE IF stored = NoId
       THEN ClearAuth /\ UNCHANGED <<call, history>>
       ELSE /\ Send(s, "refresh", stored)
            /\ due' = FALSE
            /\ overlap' = (overlap \/ ~Quiet)
            /\ UNCHANGED <<access, stored, lost, failed>>
    /\ Server

(* login and signup; logout of the stored token; logoutAll and
   changePassword with the access token. *)
UserCall(kind) ==
    /\ ~Busy("user")
    /\ kind \in {"logoutAll", "change"} => access # NoId
    /\ Send("user", kind, IF kind = "logout" THEN stored
                          ELSE IF kind = "login" THEN NoId ELSE access)
    /\ overlap' = (overlap \/ ~Quiet \/ (kind = "login" /\ stored # NoId))
    /\ Server /\ UNCHANGED <<client, lost, failed>>

\* Mutant: a refused refresh only shows its error.
Heard_Mutant(kind, got, i) ==
    IF kind \in {"logout", "logoutAll"} THEN ClearAuth
    ELSE IF got = "session" THEN ApplyAuth(i)
    ELSE UNCHANGED client

(* What the client does with an answer.  A refresh that fails otherwise than
   with 401 only shows its error: its timer is not set again. *)
Heard(kind, got, i) ==
    IF kind \in {"logout", "logoutAll"} THEN ClearAuth
    ELSE IF got = "session" THEN ApplyAuth(i)
    ELSE IF got = "denied" /\ kind = "refresh" THEN ClearAuth
    ELSE UNCHANGED client

Deliver(s) ==
    /\ call[s].pc = "answered"
    /\ IF call[s].heard
       THEN /\ Heard(call[s].kind, call[s].got, call[s].new)
            /\ failed' = (failed /\ call[s].got = "denied" /\ call[s].kind # "refresh")
       ELSE UNCHANGED <<client, failed>>
    /\ call' = [call EXCEPT ![s] = NoCall]
    /\ Server /\ UNCHANGED <<lost, overlap>>

(* The connection fails, the rate limiter refuses, or the client gives up. *)
Lose(s) ==
    /\ Listening(s) /\ lost < MaxLost
    /\ Heard(call[s].kind, "failed", NoId)
    /\ call' = [call EXCEPT ![s].heard = FALSE]
    /\ lost' = lost + 1
    /\ failed' = (failed \/ call[s].kind = "refresh")
    /\ Server /\ UNCHANGED overlap

(* A request that nobody waits for need not have reached the service. *)
Vanish(s) ==
    /\ call[s].pc = "sent" /\ ~call[s].heard
    /\ call' = [call EXCEPT ![s] = NoCall]
    /\ Server /\ UNCHANGED <<client, history>>

(* The app is killed and started again: only secure storage is left. *)
Relaunch ==
    /\ LET unheard == Cardinality({s \in Slot : Listening(s)})
       IN lost + unheard <= MaxLost /\ lost' = lost + unheard
    /\ access' = NoId /\ due' = TRUE
    /\ failed' = FALSE
    /\ call' = [s \in Slot |-> [call[s] EXCEPT !.heard = FALSE]]
    /\ UNCHANGED <<stored, overlap>>
    /\ Server

-----------------------------------------------------------------------------
(* The service: sessions                                                    *)

Live(i) == i \in Id /\ session[i] = "live"
RevokeAll == [i \in Id |-> IF session[i] = "live" THEN "revoked" ELSE session[i]]
Held == {stored, access} \cup {call[s].tok : s \in Slot} \cup {call[s].new : s \in Slot}
Unused == {i \in Id : ~Live(i) /\ i \notin Held}
NextId == CHOOSE i \in Unused : \A k \in Unused : i <= k

Answer(s, got, i) ==
    call' = [call EXCEPT ![s].pc = "answered", ![s].got = got, ![s].new = i, ![s].tok = NoId]

Service == UNCHANGED <<client, tokens, history>>

(* The head of refresh: a revoked token revokes every session. *)
RefreshReads(s) ==
    /\ call[s].pc = "sent" /\ call[s].kind = "refresh"
    /\ IF Live(call[s].tok)
       THEN call' = [call EXCEPT ![s].pc = "read"] /\ UNCHANGED <<session, revoked>>
       ELSE /\ session' = RevokeAll
            /\ Answer(s, "denied", NoId)
            /\ UNCHANGED revoked
    /\ Service

(* Its commit: nothing is read again. *)
RefreshCommits(s) ==
    /\ call[s].pc = "read" /\ call[s].kind = "refresh"
    /\ Unused # {}
    /\ session' = [session EXCEPT ![call[s].tok] = "revoked", ![NextId] = "live"]
    /\ Answer(s, "session", NextId)
    /\ Service /\ UNCHANGED revoked

LoginCommits(s) ==
    /\ call[s].pc = "sent" /\ call[s].kind = "login"
    /\ Unused # {}
    /\ session' = [session EXCEPT ![NextId] = "live"]
    /\ Answer(s, "session", NextId)
    /\ Service /\ UNCHANGED revoked

LogoutCommits(s) ==
    /\ call[s].pc = "sent" /\ call[s].kind = "logout"
    /\ session' = [i \in Id |-> IF i = call[s].tok /\ Live(i) THEN "revoked" ELSE session[i]]
    /\ Answer(s, "done", NoId)
    /\ Service /\ UNCHANGED revoked

(* require_auth *)
Authenticates(s) ==
    /\ call[s].pc = "sent" /\ call[s].kind \in {"logoutAll", "change"}
    /\ IF Live(call[s].tok) THEN call' = [call EXCEPT ![s].pc = "read"]
       ELSE Answer(s, "denied", NoId)
    /\ UNCHANGED session /\ Service /\ UNCHANGED revoked

LogoutAllCommits(s) ==
    /\ call[s].pc = "read" /\ call[s].kind = "logoutAll"
    /\ session' = RevokeAll
    /\ Answer(s, "done", NoId)
    /\ Service /\ UNCHANGED revoked

ChangeCommits(s) ==
    /\ call[s].pc = "read" /\ call[s].kind = "change"
    /\ Unused # {}
    /\ session' = [RevokeAll EXCEPT ![NextId] = "live"]
    /\ Answer(s, "session", NextId)
    /\ Service /\ UNCHANGED revoked

(* logout-all, a changed password or a replayed token of another device. *)
OtherDevice ==
    /\ revoked < MaxRevoked
    /\ revoked' = revoked + 1
    /\ session' = RevokeAll
    /\ UNCHANGED <<client, call, tokens, history>>

Handle(s) ==
    \/ RefreshReads(s) \/ RefreshCommits(s) \/ LoginCommits(s) \/ LogoutCommits(s)
    \/ Authenticates(s) \/ LogoutAllCommits(s) \/ ChangeCommits(s)

-----------------------------------------------------------------------------
(* The service: mailed tokens                                               *)

Fresh == {t \in Token : mail[t] = "fresh"}
Free(x, t) == \A y \in Txn \ {x} : t \notin txn[y].holds
Keep == UNCHANGED <<client, call, history>>

(* The request: its bulk update of the tokens that are fresh now begins. *)
BeginIssue(x) ==
    /\ txn[x].pc = "idle"
    /\ subject = "email_verification" => ~verified
    /\ txn' = [txn EXCEPT ![x] = [NoTxn EXCEPT !.pc = "bulk", !.kind = "issue", !.want = Fresh]]
    /\ Keep /\ UNCHANGED <<session, revoked, mail, verified, spent>>

\* Mutant: the row is read without FOR UPDATE.
Accepted_Mutant(x, t) == t \in Fresh

(* _consume_action_token: SELECT ... FOR UPDATE waits for the row's lock and
   then looks at the row again; a token that is not fresh is refused. *)
Accepted(x, t) == t \in Fresh /\ Free(x, t)

(* A confirmed reset then updates the other fresh tokens; a verification
   commits. *)
BeginConfirm(x, t) ==
    /\ txn[x].pc = "idle"
    /\ Accepted(x, t)
    /\ txn' = [txn EXCEPT ![x] =
                 [pc |-> "bulk", kind |-> "confirm", tok |-> t, holds |-> {t},
                  want |-> IF subject = "password_reset" THEN Fresh \ {t} ELSE {}]]
    /\ Keep /\ UNCHANGED <<session, revoked, mail, verified, spent>>

(* The update locks its rows one by one; a row that another transaction has
   consumed meanwhile no longer matches. *)
LockRow(x, t) ==
    /\ txn[x].pc = "bulk" /\ t \in txn[x].want
    /\ Free(x, t)
    /\ txn' = [txn EXCEPT ![x].want = @ \ {t},
                          ![x].holds = IF t \in Fresh THEN @ \cup {t} ELSE @]
    /\ Keep /\ UNCHANGED <<session, revoked, mail, verified, spent>>

(* PostgreSQL ends one of two transactions that wait for each other. *)
DeadlockAbort(x) ==
    /\ \E y \in Txn \ {x} : txn[x].want \cap txn[y].holds # {}
                           /\ txn[y].want \cap txn[x].holds # {}
    /\ txn' = [txn EXCEPT ![x] = NoTxn]
    /\ Keep /\ UNCHANGED <<session, revoked, mail, verified, spent>>

Consumed(x) == [t \in Token |-> IF t \in txn[x].holds THEN "used" ELSE mail[t]]

CommitIssue(x) ==
    /\ txn[x].pc = "bulk" /\ txn[x].kind = "issue" /\ txn[x].want = {}
    /\ \E t \in Token :
         /\ mail[t] = "none" /\ \A k \in Token : mail[k] = "none" => t <= k
         /\ mail' = [Consumed(x) EXCEPT ![t] = "fresh"]
    /\ txn' = [txn EXCEPT ![x] = NoTxn]
    /\ Keep /\ UNCHANGED <<session, revoked, verified, spent>>

CommitConfirm(x) ==
    /\ txn[x].pc = "bulk" /\ txn[x].kind = "confirm" /\ txn[x].want = {}
    /\ mail' = Consumed(x)
    /\ spent' = [spent EXCEPT ![txn[x].tok] = @ + 1]
    /\ IF subject = "password_reset"
       THEN session' = RevokeAll /\ revoked' = revoked + 1 /\ UNCHANGED verified
       ELSE verified' = TRUE /\ UNCHANGED <<session, revoked>>
    /\ txn' = [txn EXCEPT ![x] = NoTxn]
    /\ Keep

Mailed(x) ==
    \/ BeginIssue(x) \/ (\E t \in Token : BeginConfirm(x, t) \/ LockRow(x, t))
    \/ DeadlockAbort(x) \/ CommitIssue(x) \/ CommitConfirm(x)

ClientStep == \E s \in RefreshSlot : StartRefresh(s)

Sessions ==
    \/ ClientStep
    \/ \E kind \in {"login", "logout", "logoutAll", "change"} : UserCall(kind)
    \/ \E s \in Slot : Deliver(s) \/ Lose(s) \/ Vanish(s) \/ Handle(s)
    \/ Relaunch
    \/ OtherDevice

Next ==
    /\ UNCHANGED subject
    /\ \/ subject = "sessions" /\ Sessions
       \/ subject # "sessions" /\ \E x \in Txn : Mailed(x)

Fairness ==
    /\ WF_vars(subject = "sessions" /\ ClientStep /\ UNCHANGED subject)
    /\ \A s \in Slot : WF_vars((Handle(s) \/ Deliver(s)) /\ UNCHANGED subject)

Spec == Init /\ [][Next]_vars /\ Fairness

-----------------------------------------------------------------------------
(* Properties *)

(* As long as the client's own requests did not overlap, and none is in
   flight: every request whose answer it missed has left at most one live
   session behind, and rotation, sign-out and changed passwords leave none; a
   client that missed no answer and was not revoked believes in a live session. *)
ClientAgreesWithServer ==
    Quiet /\ ~overlap =>
        /\ Cardinality({i \in Id : Live(i)} \ {stored}) <= lost
        /\ access # NoId /\ lost = 0 /\ revoked = 0 => Live(access)

(* A mailed token is accepted once, whatever the transactions on it and on
   the other tokens do, deadlocks included (_consume_action_token). *)
TokenSpentOnce == \A t \in Token : spent[t] <= 1

(* A client that shows a session that was revoked behind its back comes to
   know: its next refresh signs it out.  Only a refresh that failed for
   another reason ends that, since it does not set the timer again.  (Beyond
   MaxSessions the model's service has no session left to give.) *)
RevokedClientLearns ==
    access # NoId /\ ~Live(access) ~>
        access = NoId \/ Live(access) \/ failed \/ Unused = {}
=============================================================================
