--------------------------- MODULE SessionsProofs ---------------------------
(***************************************************************************)
(* For every set of sessions and requests: a refresh token is exchanged    *)
(* once, a token judged twice leaves its session dead, a revocation of all *)
(* sessions is complete, and a session that ended stays ended.             *)
(***************************************************************************)
EXTENDS Sessions, TLAPS

\* A request has no answer before its end, and its control fits its handler,
\* whose session was made.
RequestInv ==
    \A r \in Requests :
        /\ pc[r] = "idle" => op[r] = "none"
        /\ pc[r] # "done" => reply[r] = "none"
        /\ op[r] # "none" => /\ sid[r] \in Sessions /\ status[sid[r]] # "absent"
                             /\ gen[r] <= current[sid[r]]
        /\ pc[r] \in {"lock", "rotate", "expire"} => op[r] = "refresh"
        /\ pc[r] = "match" => op[r] = "logout"
        /\ pc[r] \in {"scan", "revoke"} => op[r] \in {"refresh", "logoutAll"}
        /\ \A s \in before[r] : status[s] # "absent"

\* From its SELECT FOR UPDATE to its end a refresh holds the row, and the row is
\* what it was judged to be: active, with the token presented, when it is about to
\* be rotated or to expire, and not so when a reuse was detected.
HolderInv ==
    \A r \in Requests :
        /\ pc[r] \in {"rotate", "expire"} => lock[sid[r]] = r /\ Matches(r)
        /\ pc[r] = "rotate" => ~late[r]
        /\ pc[r] = "expire" => late[r]
        /\ op[r] = "refresh" /\ pc[r] \in {"scan", "revoke"} =>
              lock[sid[r]] = r /\ ~Matches(r) /\ status[sid[r]] # "purged"

\* A rotation leaves its token behind, a detected reuse an ended session.
ReplyInv ==
    \A r \in Requests :
        /\ Refreshed(r, "rotated") => gen[r] < current[sid[r]]
        /\ reply[r] = "reuse" => op[r] = "refresh" /\ status[sid[r]] # "active"
        /\ reply[r] = "loggedOut" => op[r] = "logout"

\* What was active when the request arrived is still to be visited or held.
RevokeInv ==
    \A r \in Requests : pc[r] = "revoke" =>
        \A s \in before[r] \cap Active : s \in targets[r] \/ lock[s] = r

\* The worker holds the active rows it expires, and deletes ended ones.
WorkerInv ==
    /\ ret = "idle" => sweep = {} /\ doomed = {}
    /\ \A s \in sweep : lock[s] = Retention /\ status[s] = "active" /\ lapsed[s]
    /\ \A s \in doomed : status[s] \in {"revoked", "expired"}

IInv ==
    /\ TypeOK
    /\ RequestInv /\ HolderInv /\ ReplyInv /\ RevokeInv /\ WorkerInv
    /\ SingleUse /\ RevocationComplete /\ LogoutEndsToken

-----------------------------------------------------------------------------
\* Whatever a request arrives with, its state is well-typed.
LEMMA ArriveType ==
    ASSUME TypeOK, NEW r \in Requests, NEW s \in Sessions, NEW g \in Nat,
           NEW handler \in {"refresh", "logout", "logoutAll"},
           NEW next \in {"lock", "match", "scan", "done"},
           Arrive(r, handler, s, g, next)
    PROVE  /\ op' \in [Requests -> {"none", "refresh", "logout", "logoutAll"}]
           /\ sid' \in [Requests -> Sessions \cup {None}]
           /\ gen' \in [Requests -> Nat]
           /\ late' \in [Requests -> BOOLEAN]
           /\ before' \in [Requests -> SUBSET Sessions]
           /\ pc' \in [Requests -> {"idle", "lock", "rotate", "expire", "match", "scan",
                                    "revoke", "done"}]
<1>1. (handler = "refresh" /\ lapsed[s]) \in BOOLEAN
  OBVIOUS
<1>2. \A b \in BOOLEAN : [late EXCEPT ![r] = b] \in [Requests -> BOOLEAN]
  BY DEF TypeOK
<1>3. late' \in [Requests -> BOOLEAN]
  BY <1>1, <1>2, Zenon DEF Arrive
<1>4. /\ op' = [op EXCEPT ![r] = handler]
      /\ sid' = [sid EXCEPT ![r] = s]
      /\ gen' = [gen EXCEPT ![r] = g]
      /\ before' = [before EXCEPT ![r] = Active]
      /\ pc' = [pc EXCEPT ![r] = next]
  BY Zenon DEF Arrive
<1> QED
  BY <1>3, <1>4 DEF TypeOK, Active

\* No session satisfies the inductive invariant.
LEMMA InitInv == Init => IInv
BY HoldersDistinct DEF Init, IInv, TypeOK, RequestInv, HolderInv, ReplyInv, RevokeInv,
   WorkerInv,
   Refreshed, Active, SingleUse, RevocationComplete, Matches, LogoutEndsToken

\* A login makes a session nobody knows of.
LEMMA LoginStep ==
    ASSUME IInv, NEW s \in Sessions, Login(s)
    PROVE  IInv'
<1> USE HoldersDistinct DEF IInv, Matches, rows, token, worker, Login
<1>1. TypeOK'
  BY DEF TypeOK
<1>2. RequestInv' /\ HolderInv' /\ WorkerInv'
  BY DEF TypeOK, RequestInv, HolderInv, WorkerInv
<1>3. ReplyInv' /\ SingleUse' /\ LogoutEndsToken'
  BY DEF LogoutEndsToken, TypeOK, RequestInv, ReplyInv, Refreshed, SingleUse
<1>4. RevokeInv' /\ RevocationComplete'
  BY DEF TypeOK, RequestInv, RevokeInv, Active, RevocationComplete
<1> QED
  BY <1>1, <1>2, <1>3, <1>4

\* Time ends no session by itself.
LEMMA LapseStep ==
    ASSUME IInv, NEW s \in Sessions, Lapse(s)
    PROVE  IInv'
<1> USE HoldersDistinct DEF IInv, Matches, rows, token, worker, Lapse
<1>1. TypeOK'
  BY DEF TypeOK
<1>2. RequestInv' /\ HolderInv' /\ WorkerInv'
  BY DEF TypeOK, RequestInv, HolderInv, WorkerInv
<1>3. ReplyInv' /\ SingleUse' /\ LogoutEndsToken'
  BY DEF LogoutEndsToken, TypeOK, ReplyInv, Refreshed, SingleUse, RequestInv
<1>4. RevokeInv' /\ RevocationComplete'
  BY DEF TypeOK, RevokeInv, Active, RevocationComplete
<1> QED
  BY <1>1, <1>2, <1>3, <1>4

\* A refresh arrives.
LEMMA RefreshArriveStep ==
    ASSUME IInv, NEW r \in Requests, NEW s \in Sessions, NEW g \in Nat, RefreshArrive(r, s,
    g)
    PROVE  IInv'
<1> USE HoldersDistinct DEF IInv, Matches, rows, token, worker, RefreshArrive, Presentable
<1>1. TypeOK'
  BY ArriveType DEF TypeOK
<1>2. RequestInv' /\ HolderInv' /\ WorkerInv'
  BY DEF TypeOK, RequestInv, HolderInv, WorkerInv, Active, Arrive
<1>3. ReplyInv' /\ SingleUse' /\ LogoutEndsToken'
  BY DEF LogoutEndsToken, TypeOK, RequestInv, WorkerInv, ReplyInv, Refreshed, SingleUse, Arrive
<1>4. RevokeInv' /\ RevocationComplete'
  BY DEF TypeOK, RequestInv, RevokeInv, Active, RevocationComplete, Arrive
<1> QED
  BY <1>1, <1>2, <1>3, <1>4

\* A logout arrives.
LEMMA LogoutArriveStep ==
    ASSUME IInv, NEW r \in Requests, NEW s \in Sessions, NEW g \in Nat, LogoutArrive(r, s,
    g)
    PROVE  IInv'
<1> USE HoldersDistinct DEF IInv, Matches, rows, token, worker, LogoutArrive, Presentable
<1>1. TypeOK'
  BY ArriveType DEF TypeOK
<1>2. RequestInv' /\ HolderInv' /\ WorkerInv'
  BY DEF TypeOK, RequestInv, HolderInv, ReplyInv, RevokeInv, WorkerInv, Active, Arrive
<1>3. ReplyInv' /\ SingleUse'
  <2>1. ReplyInv'
    BY DEF TypeOK, RequestInv, ReplyInv, Refreshed, Arrive
  <2>2. SingleUse'
    BY DEF TypeOK, RequestInv, Refreshed, SingleUse, Arrive
  <2> QED
    BY <2>1, <2>2
<1>4. LogoutEndsToken'
  <2> SUFFICES ASSUME NEW x \in Requests, reply'[x] = "loggedOut"
               PROVE  status[sid'[x]] # "active" \/ gen'[x] < current[sid'[x]]
    BY DEF LogoutEndsToken
  <2>1. CASE x = r
    <3>1. pc[r] = "idle" /\ sid'[r] = s /\ gen'[r] = g
      BY <2>1, Zenon DEF TypeOK, Arrive
    <3>2. reply[r] = "none"
      BY <3>1 DEF RequestInv
    <3>3. ~(status[s] = "active" /\ g = current[s])
      BY <2>1, <3>2
    <3>4. g <= current[s] /\ current[s] \in Nat
      BY DEF TypeOK
    <3> QED
      BY <2>1, <3>1, <3>3, <3>4
  <2>2. CASE x # r
    <3>1. sid'[x] = sid[x] /\ gen'[x] = gen[x]
      BY <2>2, Zenon DEF TypeOK, Arrive
    <3>2. reply[x] = "loggedOut"
      BY <2>2 DEF TypeOK
    <3> QED
      BY <3>1, <3>2 DEF LogoutEndsToken
  <2> QED
    BY <2>1, <2>2
<1>5. RevokeInv' /\ RevocationComplete'
  <2>1. RevokeInv'
    BY DEF TypeOK, RequestInv, RevokeInv, WorkerInv, Active, Arrive
  <2>2. RevocationComplete'
    BY DEF TypeOK, RequestInv, Active, RevocationComplete, Arrive
  <2> QED
    BY <2>1, <2>2
<1> QED
  BY <1>1, <1>2, <1>3, <1>4, <1>5

\* A logout of all sessions arrives.
LEMMA LogoutAllArriveStep ==
    ASSUME IInv, NEW r \in Requests, NEW s \in Sessions, LogoutAllArrive(r, s)
    PROVE  IInv'
<1> USE HoldersDistinct DEF IInv, Matches, rows, token, worker, LogoutAllArrive, Authenticated
<1>1. TypeOK'
  BY ArriveType DEF TypeOK
<1>2. RequestInv' /\ HolderInv' /\ WorkerInv'
  BY DEF TypeOK, RequestInv, HolderInv, WorkerInv, Active, Arrive
<1>3. ReplyInv' /\ SingleUse' /\ LogoutEndsToken'
  BY DEF LogoutEndsToken, TypeOK, RequestInv, ReplyInv, Refreshed, SingleUse, Arrive
<1>4. RevokeInv' /\ RevocationComplete'
  BY DEF TypeOK, RequestInv, RevokeInv, Active, RevocationComplete, Arrive
<1> QED
  BY <1>1, <1>2, <1>3, <1>4

\* A refresh finds no row.
LEMMA RefreshMissingStep ==
    ASSUME IInv, NEW r \in Requests, RefreshMissing(r)
    PROVE  IInv'
<1> USE HoldersDistinct DEF IInv, Matches, rows, token, worker, RefreshMissing, Finish,
        Release, Free
<1>1. TypeOK'
  BY DEF TypeOK
<1>2. RequestInv' /\ HolderInv' /\ WorkerInv'
  BY DEF TypeOK, RequestInv, HolderInv, WorkerInv
<1>3. ReplyInv' /\ SingleUse' /\ LogoutEndsToken'
  BY DEF LogoutEndsToken, TypeOK, ReplyInv, Refreshed, SingleUse, RequestInv
<1>4. RevokeInv' /\ RevocationComplete'
  BY DEF TypeOK, RevokeInv, Active, RevocationComplete
<1> QED
  BY <1>1, <1>2, <1>3, <1>4

\* The row is locked, and judged as it is then.
LEMMA RefreshLockStep ==
    ASSUME IInv, NEW r \in Requests, RefreshLock(r)
    PROVE  IInv'
<1> USE HoldersDistinct DEF IInv, Matches, rows, token, worker, RefreshLock, Free
<1>1. TypeOK'
  BY DEF TypeOK
<1>2. RequestInv' /\ HolderInv' /\ WorkerInv'
  BY DEF TypeOK, RequestInv, HolderInv, WorkerInv
<1>3. ReplyInv' /\ SingleUse' /\ LogoutEndsToken'
  BY DEF LogoutEndsToken, TypeOK, ReplyInv, Refreshed, SingleUse, RequestInv
<1>4. RevokeInv' /\ RevocationComplete'
  BY DEF TypeOK, RevokeInv, Active, RevocationComplete
<1> QED
  BY <1>1, <1>2, <1>3, <1>4

\* The holder of the row expires it.
LEMMA RefreshExpireStep ==
    ASSUME IInv, NEW r \in Requests, RefreshExpire(r)
    PROVE  IInv'
<1> USE HoldersDistinct DEF IInv, Matches, rows, token, worker, RefreshExpire, Finish, Release
<1>1. TypeOK'
  BY DEF TypeOK
<1>2. RequestInv' /\ HolderInv' /\ WorkerInv'
  BY DEF TypeOK, RequestInv, HolderInv, WorkerInv
<1>3. ReplyInv' /\ SingleUse' /\ LogoutEndsToken'
  BY DEF LogoutEndsToken, TypeOK, ReplyInv, Refreshed, SingleUse, RequestInv
<1>4. RevokeInv' /\ RevocationComplete'
  BY DEF TypeOK, RequestInv, HolderInv, RevokeInv, Active, RevocationComplete
<1> QED
  BY <1>1, <1>2, <1>3, <1>4

\* The holder of the row replaces the token it was presented.
LEMMA RotateStep ==
    ASSUME IInv, NEW r \in Requests, Rotate(r)
    PROVE  IInv'
<1> USE HoldersDistinct DEF IInv, Matches, rows, token, worker, Rotate, Finish, Release
<1>1. TypeOK'
  BY DEF TypeOK, RequestInv
<1>2. RequestInv' /\ HolderInv' /\ WorkerInv'
  BY DEF TypeOK, RequestInv, HolderInv, WorkerInv
<1>3. ReplyInv' /\ SingleUse' /\ LogoutEndsToken'
  BY DEF LogoutEndsToken, TypeOK, RequestInv, HolderInv, ReplyInv, Refreshed, SingleUse
<1>4. RevokeInv' /\ RevocationComplete'
  BY DEF TypeOK, RequestInv, HolderInv, RevokeInv, Active, RevocationComplete
<1> QED
  BY <1>1, <1>2, <1>3, <1>4

\* The statement sees every active session.
LEMMA RevokeScanStep ==
    ASSUME IInv, NEW r \in Requests, RevokeScan(r)
    PROVE  IInv'
<1> USE HoldersDistinct DEF IInv, Matches, rows, token, worker, RevokeScan
<1>1. TypeOK'
  BY DEF TypeOK, RequestInv, Active
<1>2. RequestInv' /\ HolderInv' /\ WorkerInv'
  BY DEF TypeOK, RequestInv, HolderInv, WorkerInv
<1>3. ReplyInv' /\ SingleUse' /\ LogoutEndsToken'
  BY DEF LogoutEndsToken, TypeOK, RequestInv, HolderInv, ReplyInv, Refreshed, SingleUse
<1>4. RevokeInv' /\ RevocationComplete'
  BY DEF TypeOK, RequestInv, HolderInv, RevokeInv, Active, RevocationComplete
<1> QED
  BY <1>1, <1>2, <1>3, <1>4

\* A row visited is held, or ended already.
LEMMA RevokeRowStep ==
    ASSUME IInv, NEW r \in Requests, NEW s \in Sessions, RevokeRow(r, s)
    PROVE  IInv'
<1> USE HoldersDistinct DEF IInv, Matches, rows, token, worker, RevokeRow
<1>1. TypeOK'
  BY DEF TypeOK
<1>2. RequestInv' /\ HolderInv' /\ WorkerInv'
  BY DEF TypeOK, RequestInv, HolderInv, WorkerInv
<1>3. ReplyInv' /\ SingleUse' /\ LogoutEndsToken'
  BY DEF LogoutEndsToken, TypeOK, RequestInv, HolderInv, ReplyInv, Refreshed, SingleUse
<1>4. RevokeInv' /\ RevocationComplete'
  BY DEF TypeOK, RequestInv, HolderInv, RevokeInv, Active, RevocationComplete
<1> QED
  BY <1>1, <1>2, <1>3, <1>4

\* Every row was visited.
LEMMA RevokeCommitStep ==
    ASSUME IInv, NEW r \in Requests, RevokeCommit(r)
    PROVE  IInv'
<1> USE HoldersDistinct DEF IInv, Matches, rows, token, worker, RevokeCommit, Finish, Release
<1>1. TypeOK'
  BY DEF TypeOK
<1>2. RequestInv' /\ HolderInv' /\ WorkerInv'
  BY DEF TypeOK, RequestInv, HolderInv, WorkerInv
<1>3. ReplyInv' /\ SingleUse' /\ LogoutEndsToken'
  BY DEF LogoutEndsToken, TypeOK, RequestInv, HolderInv, ReplyInv, Refreshed, SingleUse
<1>4. RevokeInv' /\ RevocationComplete'
  BY DEF TypeOK, RequestInv, HolderInv, RevokeInv, Active, RevocationComplete
<1> QED
  BY <1>1, <1>2, <1>3, <1>4

\* A logout ends a row that nobody holds.
LEMMA LogoutRowStep ==
    ASSUME IInv, NEW r \in Requests, LogoutRow(r)
    PROVE  IInv'
<1> USE HoldersDistinct DEF IInv, Matches, rows, token, worker, LogoutRow, Finish, Release, Free
<1>1. TypeOK'
  BY DEF TypeOK
<1>2. RequestInv' /\ HolderInv' /\ WorkerInv'
  BY DEF TypeOK, RequestInv, HolderInv, WorkerInv
<1>3. ReplyInv' /\ SingleUse'
  <2>1. ReplyInv'
    BY DEF TypeOK, RequestInv, ReplyInv, Refreshed
  <2>2. SingleUse'
    BY DEF TypeOK, RequestInv, Refreshed, SingleUse
  <2> QED
    BY <2>1, <2>2
<1>5. LogoutEndsToken'
  <2> SUFFICES ASSUME NEW x \in Requests, reply'[x] = "loggedOut"
               PROVE  status'[sid[x]] # "active" \/ gen[x] < current[sid[x]]
    BY DEF LogoutEndsToken
  <2>1. CASE x = r
    <3>1. sid[r] \in Sessions /\ gen[r] \in Nat /\ gen[r] <= current[sid[r]]
          /\ current[sid[r]] \in Nat
      BY DEF TypeOK, RequestInv
    <3>2. CASE Matches(r)
      BY <2>1, <3>1, <3>2 DEF TypeOK
    <3>3. CASE ~Matches(r)
      BY <2>1, <3>1, <3>3
    <3> QED
      BY <3>2, <3>3
  <2>2. CASE x # r
    <3>1. reply[x] = "loggedOut"
      BY <2>2 DEF TypeOK
    <3>2. status[sid[x]] # "active" => status'[sid[x]] # "active"
      BY DEF TypeOK
    <3> QED
      BY <3>1, <3>2 DEF LogoutEndsToken
  <2> QED
    BY <2>1, <2>2
<1>4. RevokeInv' /\ RevocationComplete'
  BY DEF TypeOK, RequestInv, HolderInv, RevokeInv, Active, RevocationComplete
<1> QED
  BY <1>1, <1>2, <1>3, <1>4, <1>5

\* A transaction rolls back.
LEMMA AbortStep ==
    ASSUME IInv, NEW r \in Requests, Abort(r)
    PROVE  IInv'
<1> USE HoldersDistinct DEF IInv, Matches, rows, token, worker, Abort, Finish, Release
<1>1. TypeOK'
  BY DEF TypeOK
<1>2. RequestInv' /\ HolderInv' /\ WorkerInv'
  BY DEF TypeOK, RequestInv, HolderInv, WorkerInv
<1>3. ReplyInv' /\ SingleUse' /\ LogoutEndsToken'
  BY DEF LogoutEndsToken, TypeOK, RequestInv, HolderInv, ReplyInv, Refreshed, SingleUse
<1>4. RevokeInv' /\ RevocationComplete'
  BY DEF TypeOK, RequestInv, HolderInv, RevokeInv, Active, RevocationComplete
<1> QED
  BY <1>1, <1>2, <1>3, <1>4

\* The worker takes rows that nobody holds.
LEMMA RetentionExpireStep ==
    ASSUME IInv, RetentionExpire
    PROVE  IInv'
<1> USE HoldersDistinct DEF IInv, Matches, rows, token, worker, RetentionExpire, Free
<1>1. TypeOK'
  BY DEF TypeOK, RequestInv, Active, Terminal
<1>2. RequestInv' /\ HolderInv' /\ WorkerInv'
  BY DEF TypeOK, RequestInv, HolderInv, ReplyInv, RevokeInv, WorkerInv, Refreshed, Active,
     Terminal
<1>3. ReplyInv' /\ SingleUse' /\ LogoutEndsToken'
  BY DEF LogoutEndsToken, TypeOK, RequestInv, HolderInv, ReplyInv, Refreshed, SingleUse
<1>4. RevokeInv' /\ RevocationComplete'
  BY DEF TypeOK, RequestInv, HolderInv, RevokeInv, Active, RevocationComplete
<1> QED
  BY <1>1, <1>2, <1>3, <1>4

\* The worker waits for a row it deletes.
LEMMA RetentionDeleteRowStep ==
    ASSUME IInv, NEW s \in Sessions, RetentionDeleteRow(s)
    PROVE  IInv'
<1> USE HoldersDistinct DEF IInv, Matches, rows, token, worker, RetentionDeleteRow, Free
<1>1. TypeOK'
  BY DEF TypeOK
<1>2. RequestInv' /\ HolderInv' /\ WorkerInv'
  BY DEF TypeOK, RequestInv, HolderInv, WorkerInv
<1>3. ReplyInv' /\ SingleUse' /\ LogoutEndsToken'
  BY DEF LogoutEndsToken, TypeOK, RequestInv, HolderInv, ReplyInv, Refreshed, SingleUse
<1>4. RevokeInv' /\ RevocationComplete'
  BY DEF TypeOK, RequestInv, HolderInv, RevokeInv, Active, RevocationComplete
<1> QED
  BY <1>1, <1>2, <1>3, <1>4

\* The worker ends what it holds.
LEMMA RetentionCommitStep ==
    ASSUME IInv, RetentionCommit
    PROVE  IInv'
<1> USE HoldersDistinct DEF IInv, Matches, rows, token, worker, RetentionCommit, Release
<1>1. TypeOK'
  BY DEF TypeOK
<1>2. RequestInv' /\ HolderInv' /\ WorkerInv'
  BY DEF TypeOK, RequestInv, HolderInv, WorkerInv
<1>3. ReplyInv' /\ SingleUse' /\ LogoutEndsToken'
  BY DEF LogoutEndsToken, TypeOK, RequestInv, HolderInv, ReplyInv, Refreshed, SingleUse
<1>4. RevokeInv' /\ RevocationComplete'
  BY DEF TypeOK, RequestInv, HolderInv, RevokeInv, Active, RevocationComplete
<1> QED
  BY <1>1, <1>2, <1>3, <1>4

\* The worker rolls back.
LEMMA RetentionAbortStep ==
    ASSUME IInv, RetentionAbort
    PROVE  IInv'
<1> USE HoldersDistinct DEF IInv, Matches, rows, token, worker, RetentionAbort, Release
<1>1. TypeOK'
  BY DEF TypeOK
<1>2. RequestInv' /\ HolderInv' /\ WorkerInv'
  BY DEF TypeOK, RequestInv, HolderInv, WorkerInv
<1>3. ReplyInv' /\ SingleUse' /\ LogoutEndsToken'
  BY DEF LogoutEndsToken, TypeOK, RequestInv, HolderInv, ReplyInv, Refreshed, SingleUse
<1>4. RevokeInv' /\ RevocationComplete'
  BY DEF TypeOK, RequestInv, HolderInv, RevokeInv, Active, RevocationComplete
<1> QED
  BY <1>1, <1>2, <1>3, <1>4

-----------------------------------------------------------------------------
\* Every step preserves the inductive invariant.
LEMMA NextInv == IInv /\ [Next]_vars => IInv'
<1> SUFFICES ASSUME IInv, [Next]_vars PROVE IInv'
  OBVIOUS
<1>1. ASSUME NEW s \in Sessions, Login(s) \/ Lapse(s) PROVE IInv'
  BY <1>1, LoginStep, LapseStep
<1>2. ASSUME NEW r \in Requests, NEW s \in Sessions, NEW g \in 0 .. current[s],
             RefreshArrive(r, s, g) \/ LogoutArrive(r, s, g)
      PROVE  IInv'
  <2>1. g \in Nat
    BY DEF IInv, TypeOK
  <2> QED
    BY <1>2, <2>1, RefreshArriveStep, LogoutArriveStep
<1>3. ASSUME NEW r \in Requests, NEW s \in Sessions, LogoutAllArrive(r, s) PROVE IInv'
  BY <1>3, LogoutAllArriveStep
<1>4. ASSUME NEW r \in Requests, Step(r) PROVE IInv'
  BY <1>4, RefreshMissingStep, RefreshLockStep, RefreshExpireStep, RotateStep,
     RevokeScanStep, RevokeRowStep, RevokeCommitStep, LogoutRowStep DEF Step
<1>5. ASSUME NEW r \in Requests, Abort(r) PROVE IInv'
  BY <1>5, AbortStep
<1>6. ASSUME RetentionExpire \/ RetentionStep \/ RetentionAbort PROVE IInv'
  BY <1>6, RetentionExpireStep, RetentionDeleteRowStep, RetentionCommitStep,
     RetentionAbortStep DEF RetentionStep
<1>7. CASE UNCHANGED vars
  BY <1>7 DEF vars, rows, token, worker, IInv, TypeOK, RequestInv, HolderInv, ReplyInv,
     RevokeInv, WorkerInv, Refreshed, Active, SingleUse, RevocationComplete, Matches,
     LogoutEndsToken
<1> QED
  BY <1>1, <1>2, <1>3, <1>4, <1>5, <1>6, <1>7 DEF Next

\* The inductive invariant holds in every state.
THEOREM Invariance == Spec => []IInv
<1>1. Init => IInv
  BY InitInv
<1>2. IInv /\ [Next]_vars => IInv'
  BY NextInv
<1> QED
  BY <1>1, <1>2, PTL DEF Spec

\* Rows, locks, controls and answers are of their types in every state.
THEOREM TypeCorrect == Spec => []TypeOK
<1>1. IInv => TypeOK
  BY DEF IInv
<1> QED
  BY <1>1, Invariance, PTL

\* However many requests present one refresh token, and in whatever order
\* their statements run, it is exchanged once.
THEOREM TokensRotateOnce == Spec => []SingleUse
<1>1. IInv => SingleUse
  BY DEF IInv
<1> QED
  BY <1>1, Invariance, PTL

\* A token judged twice leaves its session dead: at most one of two requests
\* was given a new token, and the other found the reuse and ended the session,
\* which TODO.md:33 denies and docs/architecture.md:86 demands.
THEOREM ReuseEndsSession == Spec => []TheftContained
<1>1. IInv => TheftContained
  <2> SUFFICES ASSUME IInv, NEW r \in Requests, NEW q \in Requests,
                      r # q, op[r] = "refresh", op[q] = "refresh",
                      sid[r] = sid[q], gen[r] = gen[q],
                      reply[r] \in {"rotated", "reuse"}, reply[q] \in {"rotated", "reuse"}
               PROVE  status[sid[r]] # "active"
    BY DEF TheftContained
  <2>1. CASE reply[r] = "reuse" \/ reply[q] = "reuse"
    BY <2>1 DEF IInv, ReplyInv
  <2>2. ~(reply[r] = "rotated" /\ reply[q] = "rotated")
    BY DEF IInv, SingleUse, Refreshed
  <2> QED
    BY <2>1, <2>2
<1> QED
  BY <1>1, Invariance, PTL

\* However many sessions, rotations, logouts and sweeps there are, a request
\* told that every session is revoked left none of those it found active.
THEOREM RevokesEverySession == Spec => []RevocationComplete
<1>1. IInv => RevocationComplete
  BY DEF IInv
<1> QED
  BY <1>1, Invariance, PTL

\* A step that changes neither status nor current keeps what ended.
LEMMA QuietStep ==
    ASSUME IInv, Next
    PROVE  \/ UNCHANGED <<status, current>>
           \/ \E s \in Sessions : Login(s)
           \/ \E r \in Requests :
                 RefreshExpire(r) \/ Rotate(r) \/ RevokeCommit(r) \/ LogoutRow(r)
           \/ RetentionCommit
<1>1. ASSUME NEW r \in Requests,
             RefreshMissing(r) \/ RefreshLock(r) \/ RevokeScan(r) \/ Abort(r)
      PROVE  UNCHANGED <<status, current>>
  BY <1>1 DEF RefreshMissing, RefreshLock, RevokeScan, Abort, rows
<1>2. ASSUME NEW r \in Requests, NEW s \in Sessions,
             \/ RevokeRow(r, s) \/ LogoutAllArrive(r, s)
             \/ \E g \in 0 .. current[s] : RefreshArrive(r, s, g) \/ LogoutArrive(r, s, g)
      PROVE  UNCHANGED <<status, current>>
  BY <1>2 DEF RevokeRow, LogoutAllArrive, RefreshArrive, LogoutArrive, rows
<1>3. ASSUME NEW s \in Sessions, Lapse(s) \/ RetentionDeleteRow(s)
      PROVE  UNCHANGED <<status, current>>
  BY <1>3 DEF Lapse, RetentionDeleteRow, rows
<1>4. ASSUME RetentionExpire \/ RetentionAbort PROVE UNCHANGED <<status, current>>
  BY <1>4 DEF RetentionExpire, RetentionAbort, rows
<1> QED
  BY <1>1, <1>2, <1>3, <1>4 DEF Next, Step, RetentionStep

\* No interleaving brings a session that ended back, or moves its token.
THEOREM EndedStaysEnded == Spec => EndedIsFinal
<1>1. IInv /\ [Next]_vars => [KeepsEnded]_vars
  <2> SUFFICES ASSUME IInv, Next PROVE KeepsEnded
    OBVIOUS
  <2>1. CASE UNCHANGED <<status, current>>
    BY <2>1 DEF KeepsEnded
  <2>2. ASSUME NEW s \in Sessions, Login(s) PROVE KeepsEnded
    BY <2>2 DEF Login, KeepsEnded, IInv, TypeOK
  <2>3. ASSUME NEW r \in Requests, RefreshExpire(r) \/ Rotate(r) PROVE KeepsEnded
    BY <2>3 DEF RefreshExpire, Rotate, KeepsEnded, IInv, TypeOK, HolderInv, Matches
  <2>4. ASSUME NEW r \in Requests, RevokeCommit(r) \/ LogoutRow(r) PROVE KeepsEnded
    BY <2>4 DEF RevokeCommit, LogoutRow, Matches, KeepsEnded, IInv, TypeOK
  <2>5. CASE RetentionCommit
    BY <2>5 DEF RetentionCommit, KeepsEnded, IInv, TypeOK, WorkerInv
  <2> QED
    BY <2>1, <2>2, <2>3, <2>4, <2>5, QuietStep
<1> QED
  BY <1>1, Invariance, PTL DEF Spec, EndedIsFinal

\* A token that was logged out with has lost its session or its place in it,
\* whatever rotations, reuse detections and sweeps ran beside the logout.
THEOREM LogoutKillsToken == Spec => []LogoutEndsToken
<1>1. IInv => LogoutEndsToken
  BY DEF IInv
<1> QED
  BY <1>1, Invariance, PTL

-----------------------------------------------------------------------------
(* Every request acts as one atomic operation *)

\* An arrival asks, and a logout that finds nothing to end is answered at once.
LEMMA ArrivalIsQuestion ==
    ASSUME IInv, NEW r \in Requests, NEW s \in Sessions, NEW g \in Nat,
           RefreshArrive(r, s, g) \/ LogoutArrive(r, s, g) \/ (g = 0 /\ LogoutAllArrive(r, s))
    PROVE  /\ g \in 0 .. current[s]
           /\ \/ \E handler \in {"refresh", "logout", "logoutAll"} :
                    Atomic!Ask(r, handler, s, g)
              \/ Atomic!LogoutAtOnce(r, s, g)
<1> USE DEF Arrive, Presentable, Authenticated, Active, Atomic!Active, Atomic!Ask,
        Atomic!LogoutAtOnce, Atomic!Put, Atomic!Issued, Atomic!Good, Atomic!session, rows,
        IInv, TypeOK, RequestInv
<1>1. CASE RefreshArrive(r, s, g)
  <2>1. Atomic!Ask(r, "refresh", s, g)
    BY <1>1 DEF RefreshArrive
  <2> QED
    BY <1>1, <2>1 DEF RefreshArrive
<1>2. CASE LogoutArrive(r, s, g)
  <2>1. Atomic!Ask(r, "logout", s, g) \/ Atomic!LogoutAtOnce(r, s, g)
    BY <1>2 DEF LogoutArrive
  <2> QED
    BY <1>2, <2>1 DEF LogoutArrive
<1>3. CASE g = 0 /\ LogoutAllArrive(r, s)
  <2>1. Atomic!Ask(r, "logoutAll", s, g)
    BY <1>3 DEF LogoutAllArrive
  <2> QED
    BY <1>3, <2>1 DEF LogoutAllArrive
<1> QED
  BY <1>1, <1>2, <1>3

\* What a request does last is its operation.
LEMMA EndIsOperation ==
    ASSUME IInv, NEW r \in Requests,
           \/ RefreshMissing(r) \/ RefreshExpire(r) \/ Rotate(r)
           \/ RevokeCommit(r) \/ LogoutRow(r) \/ Abort(r)
    PROVE  \/ Atomic!Exchange(r) \/ Atomic!Expire(r) \/ Atomic!EndAll(r)
           \/ Atomic!NotFound(r) \/ Atomic!Logout(r) \/ Atomic!Fail(r)
<1> USE DEF Finish, Matches, rows, token, Atomic!Answer, Atomic!Good, Atomic!session,
        Atomic!question, IInv, TypeOK, RequestInv
<1>1. ASSUME RefreshMissing(r) PROVE Atomic!NotFound(r)
  BY <1>1 DEF RefreshMissing, Atomic!NotFound
<1>2. ASSUME RefreshExpire(r) PROVE Atomic!Expire(r)
  BY <1>2 DEF RefreshExpire, Atomic!Expire, HolderInv
<1>3. ASSUME Rotate(r) PROVE Atomic!Exchange(r)
  BY <1>3 DEF Rotate, Atomic!Exchange, HolderInv
<1>4. ASSUME RevokeCommit(r) PROVE Atomic!EndAll(r)
  <2> DEFINE S == {s \in Sessions : lock[s] = r /\ status[s] = "active"}
  <2>1. S \in SUBSET Atomic!Active /\ before[r] \cap Atomic!Active \subseteq S
    BY <1>4 DEF RevokeCommit, RevokeInv, Active, Atomic!Active
  <2>2. status' = [s \in Sessions |-> IF s \in S THEN "revoked" ELSE status[s]]
    BY <1>4 DEF RevokeCommit
  <2>3. /\ Atomic!Answer(r, IF op[r] = "refresh" THEN "reuse" ELSE "allLoggedOut")
        /\ UNCHANGED <<current, lapsed>>
    BY <1>4 DEF RevokeCommit
  <2>4. \/ op[r] = "logoutAll"
        \/ op[r] = "refresh" /\ ~Atomic!Good(sid[r], gen[r]) /\ status[sid[r]] # "purged"
    BY <1>4 DEF RevokeCommit, HolderInv
  <2> HIDE DEF S
  <2> QED
    BY <2>1, <2>2, <2>3, <2>4 DEF Atomic!EndAll
<1>5. ASSUME LogoutRow(r) PROVE Atomic!Logout(r)
  BY <1>5 DEF LogoutRow, Atomic!Logout
<1>6. ASSUME Abort(r) PROVE Atomic!Fail(r)
  BY <1>6 DEF Abort, Atomic!Fail
<1> QED
  BY <1>1, <1>2, <1>3, <1>4, <1>5, <1>6

\* Requests are linearizable: every behaviour of the transactions, statement by
\* statement, is one of atomic operations, each between a request's arrival and
\* its answer.
THEOREM RequestsAreAtomic == Spec => ActsAtomically
<1>1. Init => Atomic!Init
  BY DEF Init, Atomic!Init
<1>2. IInv /\ [Next]_vars => [Atomic!Next]_(Atomic!vars)
  <2> SUFFICES ASSUME IInv, Next PROVE [Atomic!Next]_(Atomic!vars)
    BY DEF vars, rows, token, Atomic!vars, Atomic!session, Atomic!question
  <2> USE DEF Atomic!Next
  <2>1. ASSUME NEW s \in Sessions, Login(s) PROVE Atomic!Login(s)
    BY <2>1 DEF Login, Atomic!Login, token, Atomic!question
  <2>2. ASSUME NEW s \in Sessions, Lapse(s) PROVE Atomic!Lapse(s)
    BY <2>2 DEF Lapse, Atomic!Lapse, token, Atomic!question
  <2>3. ASSUME NEW r \in Requests, NEW s \in Sessions,
               \/ LogoutAllArrive(r, s)
               \/ \E g \in 0 .. current[s] : RefreshArrive(r, s, g) \/ LogoutArrive(r, s, g)
        PROVE  Atomic!Next
    <3>1. PICK g \in Nat : \/ RefreshArrive(r, s, g) \/ LogoutArrive(r, s, g)
                           \/ (g = 0 /\ LogoutAllArrive(r, s))
      BY <2>3 DEF IInv, TypeOK
    <3> QED
      BY <3>1, ArrivalIsQuestion
  <2>4. ASSUME NEW r \in Requests,
               \/ RefreshMissing(r) \/ RefreshExpire(r) \/ Rotate(r)
               \/ RevokeCommit(r) \/ LogoutRow(r) \/ Abort(r)
        PROVE  Atomic!Next
    BY <2>4, EndIsOperation
  <2>5. ASSUME NEW r \in Requests,
               RefreshLock(r) \/ RevokeScan(r) \/ \E s \in Sessions : RevokeRow(r, s)
        PROVE  UNCHANGED Atomic!vars
    BY <2>5 DEF RefreshLock, RevokeScan, RevokeRow, rows, token, Atomic!vars,
       Atomic!session, Atomic!question
  <2>6. ASSUME \/ RetentionExpire \/ RetentionAbort
               \/ \E s \in Sessions : RetentionDeleteRow(s)
        PROVE  UNCHANGED Atomic!vars
    BY <2>6 DEF RetentionExpire, RetentionDeleteRow, RetentionAbort, rows, token,
       Atomic!vars, Atomic!session, Atomic!question
  <2>7. ASSUME RetentionCommit PROVE Atomic!Next
    <3>1. sweep \in SUBSET Sessions /\ doomed \in SUBSET Sessions
      BY DEF IInv, TypeOK
    <3>2. Atomic!Retire(sweep, doomed)
      BY <2>7 DEF RetentionCommit, Atomic!Retire, IInv, WorkerInv, token, Atomic!question
    <3> QED
      BY <3>1, <3>2
  <2> QED
    BY <2>1, <2>2, <2>3, <2>4, <2>5, <2>6, <2>7 DEF Next, Step, RetentionStep
<1> QED
  BY <1>1, <1>2, Invariance, PTL DEF Spec, ActsAtomically, Atomic!Spec
=============================================================================
