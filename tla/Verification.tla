--------------------------- MODULE Verification ---------------------------
(***************************************************************************)
(* One email address: its registration (registerUser), and the requests    *)
(* and uses of verification tokens (services/email-verification.service.ts)*)
(* beside the retention worker and an operator who holds rows back from    *)
(* deletion (services/retention.service.ts).                               *)
(*                                                                         *)
(* Transactions are READ COMMITTED: statements are actions, rows stay      *)
(* locked to the end, and what only the transaction itself can see before  *)
(* the commit is done by the action that commits.  Inserting a token locks *)
(* the user FOR KEY SHARE, which the UPDATE of the user does not wait for. *)
(***************************************************************************)
EXTENDS Naturals, FiniteSets

CONSTANTS
    Tokens,         \* tokens, each drawn once
    Requests,       \* requests in progress at a time
    Retention,      \* the retention worker, as a lock holder
    None            \* no token, no lock holder

ASSUME HoldersDistinct ==
    Retention \notin Requests /\ None \notin Requests \cup Tokens \cup {Retention}

VARIABLES
    account,        \* "none", "unverified" or "verified"
    state,          \* per token: "unknown", "valid", "used" or "gone"
    lapsed,         \* expires_at has passed
    held,           \* legal_hold_at is set
    lock,           \* who has locked the row
    pc, token,      \* per request: control, and the token it presents
    timely,         \* the token had not expired when it was presented
    targets,        \* rows a DELETE has still to visit
    before,         \* history: see Request
    ret, doomed     \* retention: control, and rows it has still to visit

rows == <<state, lapsed, held>>
input == <<token, timely, targets, before>>
worker == <<ret, doomed>>
vars == <<account, rows, lock, pc, input, worker>>

Kept == {t \in Tokens : state[t] \in {"valid", "used"}}

TypeOK ==
    /\ account \in {"none", "unverified", "verified"}
    /\ state \in [Tokens -> {"unknown", "valid", "used", "gone"}]
    /\ lapsed \in [Tokens -> BOOLEAN]
    /\ held \in [Tokens -> BOOLEAN]
    /\ lock \in [Tokens -> Requests \cup {Retention, None}]
    /\ \A t \in Tokens : lock[t] # None => t \in Kept
    /\ pc \in [Requests -> {"idle", "insert", "inserted", "scan", "delete",
                         "use", "user", "verified"}]
    /\ token \in [Requests -> Tokens \cup {None}]
    /\ timely \in [Requests -> BOOLEAN]
    /\ targets \in [Requests -> SUBSET Tokens]
    /\ before \in [Requests -> SUBSET Tokens]
    /\ ret \in {"idle", "delete"}
    /\ doomed \in SUBSET Tokens

Init ==
    /\ account = "none"
    /\ state = [t \in Tokens |-> "unknown"]
    /\ lapsed = [t \in Tokens |-> FALSE]
    /\ held = [t \in Tokens |-> FALSE]
    /\ lock = [t \in Tokens |-> None]
    /\ pc = [r \in Requests |-> "idle"]
    /\ token = [r \in Requests |-> None]
    /\ timely = [r \in Requests |-> FALSE]
    /\ targets = [r \in Requests |-> {}]
    /\ before = [r \in Requests |-> {}]
    /\ ret = "idle"
    /\ doomed = {}

-----------------------------------------------------------------------------
(* Transactions *)

\* What holder has deleted is gone with its columns.
Delete(holder) ==
    /\ lapsed' = [t \in Tokens |-> lapsed[t] /\ lock[t] # holder]
    /\ held' = [t \in Tokens |-> held[t] /\ lock[t] # holder]

Release(holder) == [t \in Tokens |-> IF lock[t] = holder THEN None ELSE lock[t]]

Reset(r) ==
    /\ pc' = [pc EXCEPT ![r] = "idle"]
    /\ token' = [token EXCEPT ![r] = None]
    /\ timely' = [timely EXCEPT ![r] = FALSE]
    /\ targets' = [targets EXCEPT ![r] = {}]
    /\ before' = [before EXCEPT ![r] = {}]

\* Mutant of Finish: the transaction is never ended.
FinishKeepingLocks(r) == Reset(r) /\ UNCHANGED lock

\* Commit or rollback: the locks are released and the request is answered.
Finish(r) == Reset(r) /\ lock' = Release(r)

Arrive(r, next, t) ==
    /\ pc[r] = "idle"
    /\ pc' = [pc EXCEPT ![r] = next]
    /\ token' = [token EXCEPT ![r] = t]

Goto(r, next) == pc' = [pc EXCEPT ![r] = next] /\ UNCHANGED input

\* A token nobody has seen before: it is random, and any will do.
Unknown == {t \in Tokens : state[t] = "unknown"}

Drawn == CHOOSE t \in Unknown : TRUE

\* Bound: there is a token for whoever is to draw one before it commits.
TokensLeft ==
    Cardinality({r \in Requests : pc[r] \in {"insert", "inserted", "scan", "delete"}})
        < Cardinality(Unknown)

-----------------------------------------------------------------------------
(* registerUser *)

\* A request for an address that is already taken is left out.
Register(r) ==
    /\ account = "none" /\ TokensLeft
    /\ Arrive(r, "insert", None)
    /\ UNCHANGED <<account, rows, lock, timely, targets, before, worker>>

\* The unique index waits for whoever is inserting the address; an address that
\* is taken is answered 409.
InsertUser(r) ==
    /\ pc[r] = "insert"
    /\ \A x \in Requests : pc[x] # "inserted"
    /\ IF account = "none" THEN Goto(r, "inserted") /\ UNCHANGED lock ELSE Finish(r)
    /\ UNCHANGED <<account, rows, worker>>

\* A user nobody knows yet has no tokens to delete; with the token, the email
\* and the audit record the transaction commits.
CommitRegister(r) ==
    /\ pc[r] = "inserted" /\ Unknown # {}
    /\ account' = "unverified"
    /\ state' = [state EXCEPT ![Drawn] = "valid"]
    /\ Finish(r)
    /\ UNCHANGED <<lapsed, held, worker>>

-----------------------------------------------------------------------------
(* requestEmailVerification *)

\* The user is read and is not verified.  before: the tokens that worked then,
\* less those an operator holds back at any time since.
Request(r) ==
    /\ account = "unverified" /\ TokensLeft
    /\ Arrive(r, "scan", None)
    /\ before' = [before EXCEPT ![r] = {u \in Tokens : state[u] = "valid" /\ ~held[u]}]
    /\ UNCHANGED <<account, rows, lock, timely, targets, worker>>

\* The rows the DELETE visits: the snapshot of the statement.
ScanTokens(r) ==
    /\ pc[r] = "scan"
    /\ targets' = [targets EXCEPT ![r] = {u \in Kept : ~held[u]}]
    /\ pc' = [pc EXCEPT ![r] = "delete"]
    /\ UNCHANGED <<account, rows, lock, token, timely, before, worker>>

\* Mutant of DeleteToken: a row that someone else has locked is skipped.
DeleteTokenSkipLocked(r, u) ==
    /\ pc[r] = "delete" /\ u \in targets[r]
    /\ lock' = IF lock[u] = None /\ u \in Kept /\ ~held[u] THEN [lock EXCEPT ![u] = r] ELSE lock
    /\ targets' = [targets EXCEPT ![r] = @ \ {u}]
    /\ UNCHANGED <<account, rows, pc, token, timely, before, worker>>

\* A row is locked, after a wait looked at again, and deleted.
DeleteToken(r, u) ==
    /\ pc[r] = "delete" /\ u \in targets[r]
    /\ lock[u] = None
    /\ lock' = IF u \in Kept /\ ~held[u] THEN [lock EXCEPT ![u] = r] ELSE lock
    /\ targets' = [targets EXCEPT ![r] = @ \ {u}]
    /\ UNCHANGED <<account, rows, pc, token, timely, before, worker>>

\* Mutant of CommitRequest: the deletion is committed before the insertion.
CommitDeletion(r) ==
    /\ pc[r] = "delete" /\ targets[r] = {}
    /\ state' = [u \in Tokens |-> IF lock[u] = r THEN "gone" ELSE state[u]]
    /\ Delete(r)
    /\ Finish(r)
    /\ UNCHANGED <<account, worker>>

CommitRequest(r) ==
    /\ pc[r] = "delete" /\ targets[r] = {} /\ Unknown # {}
    /\ state' = [u \in Tokens |-> IF u = Drawn THEN "valid"
                                  ELSE IF lock[u] = r THEN "gone" ELSE state[u]]
    /\ Delete(r)
    /\ Finish(r)
    /\ UNCHANGED <<account, worker>>

-----------------------------------------------------------------------------
(* verifyEmailToken *)

\* The clock is read and the token found unused and not expired.
Verify(r, t) ==
    /\ state[t] = "valid" /\ ~lapsed[t]
    /\ Arrive(r, "use", t)
    /\ timely' = [timely EXCEPT ![r] = ~lapsed[t]]
    /\ UNCHANGED <<account, rows, lock, targets, before, worker>>

\* Mutant of UseToken: the UPDATE does not ask for an unused token, and nobody
\* looks at how many rows it has changed.
UseAnyToken(r) ==
    /\ pc[r] = "use"
    /\ lock[token[r]] = None
    /\ lock' = [lock EXCEPT ![token[r]] = r]
    /\ Goto(r, "user")
    /\ UNCHANGED <<account, rows, worker>>

\* The guarded UPDATE of the token: it may be used or gone by now.
UseToken(r) ==
    /\ pc[r] = "use"
    /\ lock[token[r]] = None
    /\ IF state[token[r]] = "valid"
       THEN lock' = [lock EXCEPT ![token[r]] = r] /\ Goto(r, "user")
       ELSE Finish(r)
    /\ UNCHANGED <<account, rows, worker>>

\* The UPDATE of the user waits for another verifier.
UpdateUser(r) ==
    /\ pc[r] = "user"
    /\ \A x \in Requests : pc[x] # "verified"
    /\ Goto(r, "verified")
    /\ UNCHANGED <<account, rows, lock, worker>>

CommitVerify(r) ==
    /\ pc[r] = "verified"
    /\ account' = "verified"
    /\ state' = [state EXCEPT ![token[r]] = "used"]
    /\ Finish(r)
    /\ UNCHANGED <<lapsed, held, worker>>

-----------------------------------------------------------------------------
(* Time, operators, failures *)

\* expires_at passes.
Lapse(t) ==
    /\ t \in Kept /\ ~lapsed[t]
    /\ lapsed' = [lapsed EXCEPT ![t] = TRUE]
    /\ UNCHANGED <<account, state, held, lock, pc, input, worker>>

\* An operator sets or clears legal_hold_at, and waits for whoever has the row.
Hold(t) ==
    /\ t \in Kept /\ lock[t] = None
    /\ held' = [held EXCEPT ![t] = ~@]
    /\ before' = [r \in Requests |-> before[r] \ {t}]
    /\ UNCHANGED <<account, state, lapsed, lock, pc, token, timely, targets, worker>>

\* A statement fails, or the transaction is the victim of a deadlock.
Abort(r) ==
    /\ pc[r] # "idle"
    /\ Finish(r)
    /\ UNCHANGED <<account, rows, worker>>

-----------------------------------------------------------------------------
(* runRetentionCleanup: DELETE FROM email_verification_tokens *)

\* The snapshot of the subquery: tokens that lapsed long enough ago, which
\* nothing but time tells apart.
RetentionScan ==
    /\ ret = "idle"
    /\ \E D \in SUBSET {t \in Kept : lapsed[t] /\ ~held[t]} \ {{}} : doomed' = D
    /\ ret' = "delete"
    /\ UNCHANGED <<account, rows, lock, pc, input>>

\* Mutant of RetentionDelete: only the subquery asks for legal holds.
RetentionDeleteUnchecked(t) ==
    /\ ret = "delete" /\ t \in doomed
    /\ lock[t] = None
    /\ lock' = IF t \in Kept THEN [lock EXCEPT ![t] = Retention] ELSE lock
    /\ doomed' = doomed \ {t}
    /\ UNCHANGED <<account, rows, pc, input, ret>>

\* The outer WHERE looks at the row again once it is locked.
RetentionDelete(t) ==
    /\ ret = "delete" /\ t \in doomed
    /\ lock[t] = None
    /\ lock' = IF t \in Kept /\ ~held[t] THEN [lock EXCEPT ![t] = Retention] ELSE lock
    /\ doomed' = doomed \ {t}
    /\ UNCHANGED <<account, rows, pc, input, ret>>

RetentionCommit ==
    /\ ret = "delete" /\ doomed = {}
    /\ state' = [t \in Tokens |-> IF lock[t] = Retention THEN "gone" ELSE state[t]]
    /\ Delete(Retention)
    /\ lock' = Release(Retention)
    /\ ret' = "idle"
    /\ UNCHANGED <<account, pc, input, doomed>>

RetentionAbort ==
    /\ ret = "delete"
    /\ lock' = Release(Retention)
    /\ ret' = "idle" /\ doomed' = {}
    /\ UNCHANGED <<account, rows, pc, input>>

-----------------------------------------------------------------------------
Step(r) ==
    \/ InsertUser(r) \/ CommitRegister(r)
    \/ ScanTokens(r) \/ (\E t \in Tokens : DeleteToken(r, t)) \/ CommitRequest(r)
    \/ UseToken(r) \/ UpdateUser(r) \/ CommitVerify(r)

RetentionStep == (\E t \in Tokens : RetentionDelete(t)) \/ RetentionCommit

Next ==
    \/ \E r \in Requests, t \in Tokens : Verify(r, t)
    \/ \E r \in Requests : Register(r) \/ Request(r) \/ Step(r) \/ Abort(r)
    \/ \E t \in Tokens : Lapse(t) \/ Hold(t)
    \/ RetentionScan \/ RetentionStep \/ RetentionAbort

Spec == Init /\ [][Next]_vars

\* Transaction h waits for transaction k: for the address k is inserting, for
\* the user row, or for a token.
Wanted(h) ==
    IF h = Retention THEN doomed
    ELSE CASE pc[h] = "use" -> {token[h]}
           [] pc[h] = "delete" -> targets[h]
           [] OTHER -> {}

WaitsFor(h, k) == h # k /\ \E t \in Wanted(h) : lock[t] = k

\* PostgreSQL's detector ends one transaction of a cycle.  Who waits for the
\* address or the user row waits for someone who waits for nothing.
Deadlocked(D) == D # {} /\ \A h \in D : \E k \in D : WaitsFor(h, k)

BreakDeadlock(D) ==
    /\ Deadlocked(D)
    /\ \A C \in SUBSET D : Deadlocked(C) => C = D
    /\ \/ \E r \in D \cap Requests : Abort(r)
       \/ Retention \in D /\ RetentionAbort

\* Handlers keep running and row locks are queued; the worker finishes its
\* transaction; deadlocks are detected.
Fairness ==
    /\ \A r \in Requests : SF_vars(Step(r))
    /\ SF_vars(RetentionStep)
    /\ \A D \in SUBSET (Requests \cup {Retention}) : WF_vars(BreakDeadlock(D))

FairSpec == Spec /\ Fairness

-----------------------------------------------------------------------------
(* Properties *)

\* Only a step that uses up an unused token, which had not expired when it was
\* presented, verifies the address.
VerifiesByToken ==
    account' = "verified" /\ account # "verified" =>
        \E r \in Requests :
            /\ pc[r] = "verified" /\ timely[r]
            /\ state[token[r]] = "valid" /\ state'[token[r]] = "used"

\* What was used or deleted never works again.
KeepsEnded ==
    /\ \A t \in Tokens : state[t] = "used" => state'[t] \in {"used", "gone"}
    /\ \A t \in Tokens : state[t] = "gone" => state'[t] = "gone"
    /\ account = "verified" => account' = "verified"

\* An address is verified once and for all, by an unused, timely token only, and
\* a token is used once, though another use, a replacement or a deletion of it may
\* come between the reads and the writes: of two of these, one does nothing.
VerifiedByToken == [][VerifiesByToken /\ KeepsEnded]_vars

\* "A legal hold must override automatic deletion": a held token is not deleted,
\* not even by a DELETE whose snapshot is older than the hold.
SparesHeld == \A t \in Tokens : held[t] /\ state'[t] = "gone" => state[t] = "gone"

HoldOverridesDeletion == [][SparesHeld]_vars

\* Who can still verify an address does not lose that by asking again: while no
\* time passes, the last token that works disappears only in the step that
\* verifies the address or brings another, wherever a transaction may fail.
Working == {t \in Tokens : state[t] = "valid" /\ ~lapsed[t]}

KeepsAWayIn ==
    Working # {} /\ Working' = {} =>
        account' = "verified" \/ \E t \in Working : lapsed'[t]

NeverStranded == [][KeepsAWayIn]_vars

\* A new token replaces the old: of the tokens that worked when it was asked for,
\* none works once the request commits, unless it was held back meanwhile.
Replaces ==
    \A r \in Requests :
        pc[r] = "delete" /\ pc'[r] = "idle" /\ Kept' \ Kept # {} =>
            \A t \in before[r] : state'[t] # "valid"

ReplacementComplete == [][Replaces]_vars

\* What a request wants, whatever statement it has come to.
Asked ==
    [r \in Requests |->
        CASE pc[r] \in {"insert", "inserted"} -> "register"
          [] pc[r] \in {"scan", "delete"} -> "replace"
          [] pc[r] \in {"use", "user", "verified"} -> "verify"
          [] pc[r] = "idle" -> "nothing"]

Atomic == INSTANCE AtomicVerification WITH asked <- Asked

\* However the statements of registrations, replacements, uses, retention and
\* operators interleave, each has its effect at one instant: a token is used or
\* deleted but not both, a replacement takes the old tokens as it brings the new.
ActsAtomically == Atomic!Spec

\* Every request is answered, though replacements and the retention worker can
\* wait for each other's rows.
Answered == \A r \in Requests : pc[r] # "idle" ~> pc[r] = "idle"
=============================================================================
