------------------------------ MODULE Sessions ------------------------------
(***************************************************************************)
(* The sessions of one user (services/auth.service.ts), with the expiry    *)
(* and deletion of rows by the retention worker                            *)
(* (services/retention.service.ts) and the session check of                *)
(* middleware/authenticate.ts.                                             *)
(*                                                                         *)
(* A refresh token is a session and a generation: the jti and the hash the *)
(* sessions row holds both identify the generation, which each rotation    *)
(* replaces by the next.  Requests run READ COMMITTED transactions whose   *)
(* statements are actions; a row lock is held from the statement that      *)
(* takes it to the end of the transaction.  Time is not a number: the      *)
(* environment says when a session passes its expires_at.  A rotation      *)
(* issues a JWT that outlives the session.                                 *)
(***************************************************************************)
EXTENDS Naturals, FiniteSets

CONSTANTS
    Sessions,       \* session rows the user can come to own
    Requests,       \* requests, each handled once
    Retention,      \* the retention worker, as a lock holder
    None            \* no lock holder, no session

ASSUME HoldersDistinct ==
    Retention \notin Requests /\ None \notin Requests \cup Sessions \cup {Retention}

VARIABLES
    status,     \* of each row; "absent" before the login, "purged" once deleted
    current,    \* generation of the refresh token the row accepts
    lapsed,     \* expires_at has passed
    lock,       \* who holds each row
    pc, op, sid, gen,   \* per request: control, handler, presented token
    late,       \* the session had lapsed when the handler read the clock
    targets,    \* rows the UPDATE of all active sessions has still to visit
    reply,      \* the answer
    before,     \* history: the active sessions when the request arrived
    ret, sweep, doomed  \* retention: control, rows to expire, rows to delete

rows == <<status, current, lapsed>>
token == <<op, sid, gen, late, before>>
worker == <<ret, sweep, doomed>>
vars == <<rows, lock, pc, token, targets, reply, worker>>

Active == {s \in Sessions : status[s] = "active"}
Terminal == {s \in Sessions : status[s] \in {"revoked", "expired"}}

TypeOK ==
    /\ status \in [Sessions -> {"absent", "active", "revoked", "expired", "purged"}]
    /\ current \in [Sessions -> Nat]
    /\ lapsed \in [Sessions -> BOOLEAN]
    /\ lock \in [Sessions -> Requests \cup {Retention, None}]
    /\ pc \in [Requests -> {"idle", "lock", "rotate", "expire", "match", "scan",
                            "revoke", "done"}]
    /\ op \in [Requests -> {"none", "refresh", "logout", "logoutAll"}]
    /\ sid \in [Requests -> Sessions \cup {None}]
    /\ gen \in [Requests -> Nat]
    /\ late \in [Requests -> BOOLEAN]
    /\ targets \in [Requests -> SUBSET Sessions]
    /\ reply \in [Requests -> {"none", "rotated", "reuse", "expired", "invalid",
                               "loggedOut", "allLoggedOut", "error"}]
    /\ before \in [Requests -> SUBSET Sessions]
    /\ ret \in {"idle", "delete"}
    /\ sweep \in SUBSET Sessions
    /\ doomed \in SUBSET Sessions

Init ==
    /\ status = [s \in Sessions |-> "absent"]
    /\ current = [s \in Sessions |-> 0]
    /\ lapsed = [s \in Sessions |-> FALSE]
    /\ lock = [s \in Sessions |-> None]
    /\ pc = [r \in Requests |-> "idle"]
    /\ op = [r \in Requests |-> "none"]
    /\ sid = [r \in Requests |-> None]
    /\ gen = [r \in Requests |-> 0]
    /\ late = [r \in Requests |-> FALSE]
    /\ targets = [r \in Requests |-> {}]
    /\ reply = [r \in Requests |-> "none"]
    /\ before = [r \in Requests |-> {}]
    /\ ret = "idle"
    /\ sweep = {}
    /\ doomed = {}

-----------------------------------------------------------------------------
(* Row locks and answers *)

Free(s) == lock[s] = None

Release(holder) == [s \in Sessions |-> IF lock[s] = holder THEN None ELSE lock[s]]

\* Mutant of Finish: the transaction is answered but never ended.
FinishKeepingLocks(r, answer) ==
    /\ lock' = lock
    /\ reply' = [reply EXCEPT ![r] = answer]
    /\ pc' = [pc EXCEPT ![r] = "done"]

\* The transaction ends: its locks are released and the request is answered.
Finish(r, answer) ==
    /\ lock' = Release(r)
    /\ reply' = [reply EXCEPT ![r] = answer]
    /\ pc' = [pc EXCEPT ![r] = "done"]

\* A request arrives with a token of session s and generation g.
Arrive(r, handler, s, g, next) ==
    /\ pc[r] = "idle"
    /\ op' = [op EXCEPT ![r] = handler]
    /\ sid' = [sid EXCEPT ![r] = s]
    /\ gen' = [gen EXCEPT ![r] = g]
    /\ late' = [late EXCEPT ![r] = handler = "refresh" /\ lapsed[s]]
    /\ before' = [before EXCEPT ![r] = Active]
    /\ pc' = [pc EXCEPT ![r] = next]

\* verifyRefreshToken accepts every issued token whose JWT has not expired.  The
\* token of the login expires with the session (its exp is expires_at rounded
\* down to the second), the token of a rotation later.
Presentable(s, g) == status[s] # "absent" /\ g <= current[s] /\ (lapsed[s] => g > 0)

-----------------------------------------------------------------------------
(* Login, and time *)

Login(s) ==
    /\ status[s] = "absent"
    /\ status' = [status EXCEPT ![s] = "active"]
    /\ UNCHANGED <<current, lapsed, lock, pc, token, targets, reply, worker>>

\* expires_at passes.
Lapse(s) ==
    /\ status[s] # "absent" /\ ~lapsed[s]
    /\ lapsed' = [lapsed EXCEPT ![s] = TRUE]
    /\ UNCHANGED <<status, current, lock, pc, token, targets, reply, worker>>

-----------------------------------------------------------------------------
(* refreshSession *)

\* The clock is read before the row is locked.
RefreshArrive(r, s, g) ==
    /\ Presentable(s, g)
    /\ Arrive(r, "refresh", s, g, "lock")
    /\ UNCHANGED <<rows, lock, targets, reply, worker>>

\* SELECT ... FOR UPDATE finds no row.
RefreshMissing(r) ==
    /\ pc[r] = "lock"
    /\ Free(sid[r]) /\ status[sid[r]] = "purged"
    /\ Finish(r, "invalid")
    /\ UNCHANGED <<rows, token, targets, worker>>

\* Mutant of RefreshLock: the row is read without FOR UPDATE.
RefreshRead(r) ==
    /\ pc[r] = "lock"
    /\ status[sid[r]] # "purged"
    /\ pc' = [pc EXCEPT ![r] =
                IF gen[r] # current[sid[r]] \/ status[sid[r]] # "active" THEN "scan"
                ELSE IF late[r] THEN "expire" ELSE "rotate"]
    /\ UNCHANGED <<rows, lock, token, targets, reply, worker>>

\* Mutant of RefreshLock: a token that is not the current one is let through.
RefreshLockAnyToken(r) ==
    /\ pc[r] = "lock"
    /\ Free(sid[r]) /\ status[sid[r]] # "purged"
    /\ lock' = [lock EXCEPT ![sid[r]] = r]
    /\ pc' = [pc EXCEPT ![r] =
                IF status[sid[r]] # "active" THEN "scan"
                ELSE IF late[r] THEN "expire" ELSE "rotate"]
    /\ UNCHANGED <<rows, token, targets, reply, worker>>

\* It locks the row; the row as it is then decides the outcome.
RefreshLock(r) ==
    /\ pc[r] = "lock"
    /\ Free(sid[r]) /\ status[sid[r]] # "purged"
    /\ lock' = [lock EXCEPT ![sid[r]] = r]
    /\ pc' = [pc EXCEPT ![r] =
                IF gen[r] # current[sid[r]] \/ status[sid[r]] # "active" THEN "scan"
                ELSE IF late[r] THEN "expire" ELSE "rotate"]
    /\ UNCHANGED <<rows, token, targets, reply, worker>>

RefreshExpire(r) ==
    /\ pc[r] = "expire"
    /\ status' = [status EXCEPT ![sid[r]] = "expired"]
    /\ Finish(r, "expired")
    /\ UNCHANGED <<current, lapsed, token, targets, worker>>

\* Mutant of Rotate: the row is left without the identity of its new token.
RotateToNothing(r) ==
    /\ pc[r] = "rotate"
    /\ current' = [current EXCEPT ![sid[r]] = None]
    /\ Finish(r, "rotated")
    /\ UNCHANGED <<status, lapsed, token, targets, worker>>

\* The guarded UPDATE always finds the locked row.
Rotate(r) ==
    /\ pc[r] = "rotate"
    /\ current' = [current EXCEPT ![sid[r]] = @ + 1]
    /\ Finish(r, "rotated")
    /\ UNCHANGED <<status, lapsed, token, targets, worker>>

-----------------------------------------------------------------------------
(* UPDATE sessions SET status = 'revoked' WHERE user_id = ... AND active: the *)
(* end of a reuse detection, and revokeAllSessions                            *)

\* The statement's snapshot: a session inserted later is not visited.
RevokeScan(r) ==
    /\ pc[r] = "scan"
    /\ targets' = [targets EXCEPT ![r] = Active]
    /\ pc' = [pc EXCEPT ![r] = "revoke"]
    /\ UNCHANGED <<rows, lock, token, reply, worker>>

\* Mutant of RevokeRow: a row that someone else has locked is skipped.
RevokeRowSkipLocked(r, s) ==
    /\ pc[r] = "revoke" /\ s \in targets[r]
    /\ lock' = IF lock[s] \in {None, r} /\ status[s] = "active"
               THEN [lock EXCEPT ![s] = r] ELSE lock
    /\ targets' = [targets EXCEPT ![r] = @ \ {s}]
    /\ UNCHANGED <<rows, pc, token, reply, worker>>

\* Each row is locked in turn, and looked at again after a wait.
RevokeRow(r, s) ==
    /\ pc[r] = "revoke" /\ s \in targets[r]
    /\ lock[s] \in {None, r}
    /\ lock' = IF status[s] = "active" THEN [lock EXCEPT ![s] = r] ELSE lock
    /\ targets' = [targets EXCEPT ![r] = @ \ {s}]
    /\ UNCHANGED <<rows, pc, token, reply, worker>>

RevokeCommit(r) ==
    /\ pc[r] = "revoke" /\ targets[r] = {}
    /\ status' = [s \in Sessions |->
                    IF lock[s] = r /\ status[s] = "active" THEN "revoked" ELSE status[s]]
    /\ Finish(r, IF op[r] = "refresh" THEN "reuse" ELSE "allLoggedOut")
    /\ UNCHANGED <<current, lapsed, token, targets, worker>>

-----------------------------------------------------------------------------
(* logoutSession, and the route of revokeAllSessions *)

Matches(r) == status[sid[r]] = "active" /\ gen[r] = current[sid[r]]

\* The UPDATE's snapshot either has the row under the token's hash or not; in
\* both cases the handler answers "Logged out".
LogoutArrive(r, s, g) ==
    /\ Presentable(s, g)
    /\ \/ /\ status[s] = "active" /\ g = current[s]
          /\ Arrive(r, "logout", s, g, "match")
          /\ UNCHANGED reply
       \/ /\ ~(status[s] = "active" /\ g = current[s])
          /\ Arrive(r, "logout", s, g, "done")
          /\ reply' = [reply EXCEPT ![r] = "loggedOut"]
    /\ UNCHANGED <<rows, lock, targets, worker>>

\* Mutant of LogoutRow: a row that someone else has locked is skipped.
LogoutRowSkipLocked(r) ==
    /\ pc[r] = "match"
    /\ status' = IF Free(sid[r]) /\ Matches(r) THEN [status EXCEPT ![sid[r]] = "revoked"]
                 ELSE status
    /\ Finish(r, "loggedOut")
    /\ UNCHANGED <<current, lapsed, token, targets, worker>>

LogoutRow(r) ==
    /\ pc[r] = "match"
    /\ Free(sid[r])
    /\ status' = IF Matches(r) THEN [status EXCEPT ![sid[r]] = "revoked"] ELSE status
    /\ Finish(r, "loggedOut")
    /\ UNCHANGED <<current, lapsed, token, targets, worker>>

\* authenticate: the access token's session must be active and not expired.
Authenticated(s) == status[s] = "active" /\ ~lapsed[s]

LogoutAllArrive(r, s) ==
    /\ Authenticated(s)
    /\ Arrive(r, "logoutAll", s, 0, "scan")
    /\ UNCHANGED <<rows, lock, targets, reply, worker>>

\* A statement fails, the connection is lost, or PostgreSQL chooses the
\* transaction as the victim of a deadlock: it rolls back.
Abort(r) ==
    /\ pc[r] \notin {"idle", "done"}
    /\ Finish(r, "error")
    /\ targets' = [targets EXCEPT ![r] = {}]
    /\ UNCHANGED <<rows, token, worker>>

-----------------------------------------------------------------------------
(* runRetentionCleanup, one transaction *)

\* Mutant of RetentionExpire: the sweep forgets that only active rows expire.
RetentionExpireAnyStatus ==
    /\ ret = "idle"
    /\ \E E \in SUBSET {s \in Sessions : lapsed[s] /\ Free(s)} \ {{}} :
          /\ sweep' = E
          /\ doomed' = {}
          /\ lock' = [s \in Sessions |-> IF s \in E THEN Retention ELSE lock[s]]
    /\ ret' = "delete"
    /\ UNCHANGED <<rows, pc, token, targets, reply>>

\* Lapsed active rows, FOR UPDATE SKIP LOCKED, then the DELETE's snapshot of
\* terminal rows past the cutoff, which nothing but time tells apart.
RetentionExpire ==
    /\ ret = "idle"
    /\ \E E \in SUBSET {s \in Active : lapsed[s] /\ Free(s)}, D \in SUBSET Terminal :
          /\ E \cup D # {}
          /\ sweep' = E
          /\ doomed' = D
          /\ lock' = [s \in Sessions |-> IF s \in E THEN Retention ELSE lock[s]]
    /\ ret' = "delete"
    /\ UNCHANGED <<rows, pc, token, targets, reply>>

RetentionDeleteRow(s) ==
    /\ ret = "delete"
    /\ s \in doomed /\ Free(s)
    /\ lock' = [lock EXCEPT ![s] = Retention]
    /\ UNCHANGED <<rows, pc, token, targets, reply, worker>>

RetentionCommit ==
    /\ ret = "delete"
    /\ \A s \in doomed : lock[s] = Retention
    /\ status' = [s \in Sessions |-> IF s \in sweep THEN "expired"
                                     ELSE IF s \in doomed THEN "purged"
                                     ELSE status[s]]
    /\ lock' = Release(Retention)
    /\ ret' = "idle" /\ sweep' = {} /\ doomed' = {}
    /\ UNCHANGED <<current, lapsed, pc, token, targets, reply>>

RetentionAbort ==
    /\ ret = "delete"
    /\ lock' = Release(Retention)
    /\ ret' = "idle" /\ sweep' = {} /\ doomed' = {}
    /\ UNCHANGED <<rows, pc, token, targets, reply>>

-----------------------------------------------------------------------------
Step(r) ==
    \/ RefreshMissing(r) \/ RefreshLock(r) \/ RefreshExpire(r) \/ Rotate(r)
    \/ RevokeScan(r) \/ (\E s \in Sessions : RevokeRow(r, s)) \/ RevokeCommit(r)
    \/ LogoutRow(r)

RetentionStep == (\E s \in Sessions : RetentionDeleteRow(s)) \/ RetentionCommit

Next ==
    \/ \E s \in Sessions : Login(s) \/ Lapse(s)
    \/ \E r \in Requests, s \in Sessions :
          \/ \E g \in 0 .. current[s] : RefreshArrive(r, s, g) \/ LogoutArrive(r, s, g)
          \/ LogoutAllArrive(r, s)
    \/ \E r \in Requests : Step(r) \/ Abort(r)
    \/ RetentionExpire \/ RetentionStep \/ RetentionAbort

\* Rows a transaction waits for, and a set of transactions that wait for each
\* other: PostgreSQL's deadlock detector ends one of them.
Wanted(h) ==
    IF h = Retention THEN IF ret = "delete" THEN doomed ELSE {}
    ELSE CASE pc[h] \in {"lock", "match"} -> {sid[h]}
           [] pc[h] = "revoke" -> targets[h]
           [] OTHER -> {}

WaitsFor(h, k) == h # k /\ \E s \in Wanted(h) : lock[s] = k

Deadlocked(D) == D # {} /\ \A h \in D : \E k \in D : WaitsFor(h, k)

\* One of a cycle, that is of a smallest such set.
BreakDeadlock(D) ==
    /\ Deadlocked(D)
    /\ \A C \in SUBSET D : Deadlocked(C) => C = D
    /\ \/ \E r \in D \cap Requests : Abort(r)
       \/ Retention \in D /\ RetentionAbort

Spec == Init /\ [][Next]_vars

\* A handler keeps running and, row locks being queued, is not overtaken for
\* ever; the worker finishes its transaction; the database detects deadlocks.
Fairness ==
    /\ \A r \in Requests : SF_vars(Step(r))
    /\ WF_vars(RetentionStep)
    /\ \A D \in SUBSET (Requests \cup {Retention}) : WF_vars(BreakDeadlock(D))

FairSpec == Spec /\ Fairness

-----------------------------------------------------------------------------
(* Properties *)

Refreshed(r, answer) == op[r] = "refresh" /\ reply[r] = answer

\* Refresh tokens rotate once: no two requests exchange the same token, however
\* they overlap.
SingleUse ==
    \A r, q \in Requests :
        Refreshed(r, "rotated") /\ Refreshed(q, "rotated")
          /\ sid[r] = sid[q] /\ gen[r] = gen[q] => r = q

\* A token presented twice and judged twice leaves its session dead: the copy
\* of a stolen token and the original cannot both stay usable.  (TODO.md:33 says
\* that a token rotated away is merely rejected as invalid; the reuse branch of
\* refreshSession revokes for it as well, as docs/architecture.md:86 says.)
TheftContained ==
    \A r, q \in Requests :
        /\ r # q /\ op[r] = "refresh" /\ op[q] = "refresh"
        /\ sid[r] = sid[q] /\ gen[r] = gen[q]
        /\ {reply[r], reply[q]} \subseteq {"rotated", "reuse"}
        => status[sid[r]] # "active"

\* Once a request was told that every session is revoked, no session that was
\* active when the request arrived is active: concurrent rotations, logouts and
\* expiries do not carry one past the revocation.
RevocationComplete ==
    \A r \in Requests :
        reply[r] \in {"reuse", "allLoggedOut"} => before[r] \cap Active = {}

KeepsEnded ==
    \A s \in Sessions : status[s] \in {"revoked", "expired", "purged"} =>
        status'[s] \in {status[s], "purged"} /\ current'[s] = current[s]

\* A session that ended never becomes active again, and its token never
\* changes again.
EndedIsFinal == [][KeepsEnded]_vars

Atomic == INSTANCE AtomicSessions

\* Requests are linearizable: however the statements of refreshes, logouts,
\* reuse detections and retention interleave, each request has the effect and
\* the answer of one atomic operation between its arrival and its answer.
ActsAtomically == Atomic!Spec

\* A token that was logged out with is of no use to anybody any more: its session
\* has ended, or a rotation had already replaced it.
LogoutEndsToken ==
    \A r \in Requests : reply[r] = "loggedOut" =>
        status[sid[r]] # "active" \/ gen[r] < current[sid[r]]

\* Every request is answered: row locks are always released, and two requests
\* that wait for each other's rows do not wait for ever.
Answered == \A r \in Requests : pc[r] # "idle" ~> pc[r] = "done"

\* Access tokens "are rejected after logout": a logout that was answered has
\* ended the session.
LogoutEndsSession ==
    \A r \in Requests : reply[r] = "loggedOut" => status[sid[r]] # "active"
=============================================================================
