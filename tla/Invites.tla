------------------------------ MODULE Invites ------------------------------
(***************************************************************************)
(* The invitations of one organization and its custom role                 *)
(* (services/invite.service.ts, deleteRole of services/role.service.ts,    *)
(* deleteOrganization), beside the retention worker, which deletes         *)
(* invitations in batches (services/retention.service.ts).                 *)
(*                                                                         *)
(* A transaction is READ COMMITTED; its statements are actions, its writes *)
(* are seen when it commits, and what it locks until then is locked here:  *)
(* rows it has written or selected FOR UPDATE, and, FOR KEY SHARE, the     *)
(* rows its insertions refer to.  A request that is refused before it      *)
(* locks or writes anything is left out.                                   *)
(***************************************************************************)
EXTENDS Naturals, FiniteSets

CONSTANTS
    Users,          \* email-verified accounts, one address each
    Roles,          \* roles one can be invited to; "custom" alone can be deleted
    Ids,            \* identities of invitations, each used once
    Requests,       \* requests in progress at a time
    Retention,      \* the retention worker, as a lock holder
    None            \* no user, role, invitation or lock holder

ASSUME RolesKnown == "custom" \in Roles

ASSUME NamesDistinct ==
    /\ Retention \notin Requests
    /\ None \notin Users \cup Roles \cup Ids \cup Requests \cup {Retention}

Ended == {"accepted", "revoked", "expired"}

VARIABLES
    org,            \* the organization exists
    roleExists,     \* so does the custom role
    member,         \* per user: the role of its membership
    status,         \* per invitation: "unused", "gone" when deleted
    to, grants,     \* per invitation: addressee and role
    age,            \* per invitation: "fresh", "lapsed", or "old" enough to delete
    orgLock, roleLock, rowLock,     \* who holds the rows, per invitation the last
    pc, invite, user, offer,        \* per request: control and input
    timely,         \* per request: the invitation had not expired when it arrived
    ret, doomed     \* retention: control, and rows it has still to visit

tenant == <<org, roleExists, member>>
invites == <<status, to, grants, age>>
locks == <<orgLock, roleLock, rowLock>>
input == <<invite, user, offer, timely>>
worker == <<ret, doomed>>
vars == <<tenant, invites, locks, pc, input, worker>>

\* The invitations in the table.
Kept == {i \in Ids : status[i] \in Ended \cup {"pending"}}

TypeOK ==
    /\ org \in BOOLEAN /\ roleExists \in BOOLEAN
    /\ member \in [Users -> Roles \cup {None}]
    /\ status \in [Ids -> Ended \cup {"unused", "pending", "gone"}]
    /\ to \in [Ids -> Users \cup {None}]
    /\ grants \in [Ids -> Roles \cup {None}]
    /\ age \in [Ids -> {"fresh", "lapsed", "old"}]
    /\ orgLock \in Requests \cup {None}
    /\ roleLock \in Requests \cup {None}
    /\ rowLock \in [Ids -> Requests \cup {Retention, None}]
    /\ pc \in [Requests ->
           {"idle", "expire", "insert", "refer", "created", "revoke", "revoked",
            "accept", "member", "join", "joined", "lockRole", "countMembers",
            "countInvites", "audit", "drop", "lockOrg", "cascade"}]
    /\ invite \in [Requests -> Ids \cup {None}]
    /\ user \in [Requests -> Users \cup {None}]
    /\ offer \in [Requests -> Roles \cup {None}]
    /\ timely \in [Requests -> BOOLEAN]
    /\ ret \in {"idle", "delete"}
    /\ doomed \in SUBSET Ids

\* An organization with its custom role and without other members.
Init ==
    /\ org = TRUE /\ roleExists = TRUE
    /\ member = [u \in Users |-> None]
    /\ status = [i \in Ids |-> "unused"]
    /\ to = [i \in Ids |-> None]
    /\ grants = [i \in Ids |-> None]
    /\ age = [i \in Ids |-> "fresh"]
    /\ orgLock = None /\ roleLock = None
    /\ rowLock = [i \in Ids |-> None]
    /\ pc = [r \in Requests |-> "idle"]
    /\ invite = [r \in Requests |-> None]
    /\ user = [r \in Requests |-> None]
    /\ offer = [r \in Requests |-> None]
    /\ timely = [r \in Requests |-> FALSE]
    /\ ret = "idle" /\ doomed = {}

-----------------------------------------------------------------------------
(* Transactions *)

Release(h) == [i \in Ids |-> IF rowLock[i] = h THEN None ELSE rowLock[i]]

\* The rows of D are deleted, with their columns.
Delete(D) ==
    /\ status' = [i \in Ids |-> IF i \in D THEN "gone" ELSE status[i]]
    /\ to' = [i \in Ids |-> IF i \in D THEN None ELSE to[i]]
    /\ grants' = [i \in Ids |-> IF i \in D THEN None ELSE grants[i]]
    /\ age' = [i \in Ids |-> IF i \in D THEN "fresh" ELSE age[i]]

\* Mutant of Finish: the transaction is never ended.
FinishKeepingLocks(r) ==
    /\ UNCHANGED locks
    /\ pc' = [pc EXCEPT ![r] = "idle"]
    /\ invite' = [invite EXCEPT ![r] = None]
    /\ user' = [user EXCEPT ![r] = None]
    /\ offer' = [offer EXCEPT ![r] = None]
    /\ timely' = [timely EXCEPT ![r] = FALSE]

\* Commit or rollback: the locks are released.
Finish(r) ==
    /\ orgLock' = IF orgLock = r THEN None ELSE orgLock
    /\ roleLock' = IF roleLock = r THEN None ELSE roleLock
    /\ rowLock' = Release(r)
    /\ pc' = [pc EXCEPT ![r] = "idle"]
    /\ invite' = [invite EXCEPT ![r] = None]
    /\ user' = [user EXCEPT ![r] = None]
    /\ offer' = [offer EXCEPT ![r] = None]
    /\ timely' = [timely EXCEPT ![r] = FALSE]

Goto(r, next) == pc' = [pc EXCEPT ![r] = next] /\ UNCHANGED input

Arrive(r, next, i, u, g) ==
    /\ pc[r] = "idle"
    /\ org
    /\ pc' = [pc EXCEPT ![r] = next]
    /\ invite' = [invite EXCEPT ![r] = i]
    /\ user' = [user EXCEPT ![r] = u]
    /\ offer' = [offer EXCEPT ![r] = g]
    /\ UNCHANGED <<tenant, invites, locks, worker>>

\* The foreign keys of a row that refers to the organization and to role g.
Refers(g) == org /\ (g = "custom" => roleExists)

\* The transactions that hold the organization, or the custom role, FOR KEY SHARE.
SharesOrg(r) == pc[r] \in {"created", "joined", "drop"}
SharesRole(r) == pc[r] \in {"created", "joined"} /\ offer[r] = "custom"

\* What createInvite changes or collides with: the lapsed invitations of an
\* address, and the pending ones that it does not expire itself.
Lapsed(u) == {i \in Ids : to[i] = u /\ status[i] = "pending" /\ age[i] # "fresh"}

Pending(r) == {i \in Ids : to[i] = user[r] /\ status[i] = "pending" /\ rowLock[i] # r}

\* The invitations that statement pc[r] of r locks, or, to see whether one refers
\* to the role that goes, reads FOR KEY SHARE.
Wanted(r) ==
    CASE pc[r] = "expire"  -> Lapsed(user[r])
      [] pc[r] = "revoke"  -> {i \in {invite[r]} : status[i] = "pending"}
      [] pc[r] = "accept"  -> {invite[r]}
      [] pc[r] = "drop"    -> {i \in Kept : grants[i] = "custom"}
      [] pc[r] = "cascade" -> Kept
      [] OTHER             -> {}

\* The unique index of pending invitations waits for who has ended or deleted one.
Ends(h) == h # Retention => pc[h] \in {"insert", "refer", "created", "revoked", "cascade"}

\* Statement pc[r] of r waits for h: for an invitation that h has locked.
WaitsForRow(r, h) ==
    \/ \E i \in Wanted(r) : rowLock[i] = h
    \/ pc[r] = "insert" /\ Ends(h) /\ \E i \in Pending(r) : rowLock[i] = h

\* It waits for request x: for the organization or the role, or in the unique
\* indexes for what x has inserted.
WaitsForRequest(r, x) ==
    \/ pc[r] = "insert" /\ user[x] = user[r] /\ pc[x] \in {"refer", "created"}
    \/ pc[r] \in {"refer", "join", "revoked", "audit", "lockOrg"} /\ orgLock = x
    \/ pc[r] \in {"refer", "join"} /\ offer[r] = "custom" /\ roleLock = x
    \/ pc[r] = "join" /\ pc[x] = "joined" /\ user[x] = user[r]
    \/ pc[r] = "lockRole" /\ (roleLock = x \/ SharesRole(x))
    \/ pc[r] = "lockOrg" /\ SharesOrg(x)
    \/ pc[r] = "cascade" /\ roleLock = x

\* The retention worker waits for whoever has locked a row it has to delete.
WaitsFor(h, k) ==
    /\ h # k
    /\ IF h = Retention THEN \E i \in doomed : rowLock[i] = k
       ELSE WaitsForRow(h, k) \/ (k # Retention /\ WaitsForRequest(h, k))

\* Statement p of r can complete.
At(r, p) ==
    /\ pc[r] = p
    /\ \A h \in Requests \cup {Retention} : ~WaitsFor(r, h)
    /\ UNCHANGED worker

-----------------------------------------------------------------------------
(* createInvite *)

\* The identity of a new invitation is generated: any that is unused will do.
Unused == {i \in Ids : status[i] = "unused"}

NewId == CHOOSE i \in Unused : TRUE

\* Bound: there is an identity for whoever is to commit a creation.
IdsLeft ==
    Cardinality({r \in Requests : pc[r] \in {"expire", "insert", "refer", "created"}})
        < Cardinality(Unused)

\* Mutant of CreateInvite: the Owner role is offered like the others.
CreateOwnerInvite(r, u, g) ==
    /\ IdsLeft
    /\ Arrive(r, "expire", None, u, "Owner")
    /\ UNCHANGED timely

\* The role is visible and not the Owner role, the invitee is verified.
CreateInvite(r, u, g) ==
    /\ IdsLeft
    /\ g = "custom" => roleExists
    /\ Arrive(r, "expire", None, u, g)
    /\ UNCHANGED timely

\* The UPDATE of the invitee's lapsed invitations.
ExpireLapsed(r) ==
    /\ At(r, "expire")
    /\ rowLock' = [i \in Ids |-> IF i \in Lapsed(user[r]) THEN r ELSE rowLock[i]]
    /\ Goto(r, "insert")
    /\ UNCHANGED <<tenant, invites, orgLock, roleLock>>

\* The unique index admits one pending invitation per address.
InsertInvite(r) ==
    /\ At(r, "insert")
    /\ IF Pending(r) = {} THEN Goto(r, "refer") /\ UNCHANGED locks ELSE Finish(r)
    /\ UNCHANGED <<tenant, invites>>

\* Mutant of ReferInvite: the table has no foreign keys.
ReferNothing(r) ==
    /\ At(r, "refer")
    /\ Goto(r, "created")
    /\ UNCHANGED <<tenant, invites, locks>>

\* The foreign keys of the new row, checked at the end of its INSERT.
ReferInvite(r) ==
    /\ At(r, "refer")
    /\ IF Refers(offer[r]) THEN Goto(r, "created") /\ UNCHANGED locks ELSE Finish(r)
    /\ UNCHANGED <<tenant, invites>>

\* With the email and the audit record the transaction commits.
CommitCreate(r) ==
    /\ At(r, "created") /\ Unused # {}
    /\ status' = [i \in Ids |-> IF i = NewId THEN "pending"
                                ELSE IF rowLock[i] = r THEN "expired" ELSE status[i]]
    /\ age' = [i \in Ids |-> IF rowLock[i] = r THEN "fresh" ELSE age[i]]
    /\ to' = [to EXCEPT ![NewId] = user[r]]
    /\ grants' = [grants EXCEPT ![NewId] = offer[r]]
    /\ Finish(r)
    /\ UNCHANGED tenant

-----------------------------------------------------------------------------
(* revokeInvite *)

RevokeInvite(r, i) ==
    /\ status[i] # "unused"
    /\ Arrive(r, "revoke", i, None, None)
    /\ UNCHANGED timely

RevokeRow(r) ==
    /\ At(r, "revoke")
    /\ IF status[invite[r]] = "pending"
       THEN /\ rowLock' = [rowLock EXCEPT ![invite[r]] = r]
            /\ Goto(r, "revoked")
            /\ UNCHANGED <<orgLock, roleLock>>
       ELSE Finish(r)
    /\ UNCHANGED <<tenant, invites>>

\* The audit record refers to the organization.
CommitRevoke(r) ==
    /\ At(r, "revoked")
    /\ status' = [status EXCEPT ![invite[r]] = "revoked"]
    /\ age' = [age EXCEPT ![invite[r]] = "fresh"]
    /\ Finish(r)
    /\ UNCHANGED <<tenant, to, grants>>

-----------------------------------------------------------------------------
(* acceptInvite *)

\* The clock is read before anything is locked.
AcceptInvite(r, i, u) ==
    /\ status[i] # "unused"
    /\ timely' = [timely EXCEPT ![r] = age[i] = "fresh"]
    /\ Arrive(r, "accept", i, u, None)

\* Mutant of LockInvite: the invitation is read without FOR UPDATE.
ReadInvite(r) ==
    /\ At(r, "accept")
    /\ IF status[invite[r]] = "pending" /\ timely[r] /\ to[invite[r]] = user[r]
       THEN /\ pc' = [pc EXCEPT ![r] = "member"]
            /\ offer' = [offer EXCEPT ![r] = grants[invite[r]]]
            /\ UNCHANGED <<locks, invite, user, timely>>
       ELSE Finish(r)
    /\ UNCHANGED <<tenant, invites>>

\* SELECT ... FOR UPDATE, and the checks.  That the invitation has expired is
\* written, but the error that reports it rolls the write back.
LockInvite(r) ==
    /\ At(r, "accept")
    /\ IF status[invite[r]] = "pending" /\ timely[r] /\ to[invite[r]] = user[r]
       THEN /\ rowLock' = [rowLock EXCEPT ![invite[r]] = r]
            /\ pc' = [pc EXCEPT ![r] = "member"]
            /\ offer' = [offer EXCEPT ![r] = grants[invite[r]]]
            /\ UNCHANGED <<orgLock, roleLock, invite, user, timely>>
       ELSE Finish(r)
    /\ UNCHANGED <<tenant, invites>>

ReadMembership(r) ==
    /\ At(r, "member")
    /\ IF member[user[r]] = None THEN Goto(r, "join") /\ UNCHANGED locks ELSE Finish(r)
    /\ UNCHANGED <<tenant, invites>>

\* The INSERT, with its unique index and foreign keys.
InsertMembership(r) ==
    /\ At(r, "join")
    /\ IF member[user[r]] = None /\ Refers(offer[r])
       THEN Goto(r, "joined") /\ UNCHANGED locks
       ELSE Finish(r)
    /\ UNCHANGED <<tenant, invites>>

CommitAccept(r) ==
    /\ At(r, "joined")
    /\ member' = [member EXCEPT ![user[r]] = offer[r]]
    /\ status' = [status EXCEPT ![invite[r]] = "accepted"]
    /\ age' = [age EXCEPT ![invite[r]] = "fresh"]
    /\ Finish(r)
    /\ UNCHANGED <<org, roleExists, to, grants>>

-----------------------------------------------------------------------------
(* deleteRole *)

DeleteRole(r) ==
    /\ roleExists
    /\ Arrive(r, "lockRole", None, None, None)
    /\ UNCHANGED timely

\* Mutant of LockRole: the role is read without FOR UPDATE.
ReadRole(r) ==
    /\ At(r, "lockRole")
    /\ IF roleExists THEN Goto(r, "countMembers") /\ UNCHANGED locks ELSE Finish(r)
    /\ UNCHANGED <<tenant, invites>>

LockRole(r) ==
    /\ At(r, "lockRole")
    /\ IF roleExists
       THEN roleLock' = r /\ Goto(r, "countMembers") /\ UNCHANGED <<orgLock, rowLock>>
       ELSE Finish(r)
    /\ UNCHANGED <<tenant, invites>>

CountMembers(r) ==
    /\ At(r, "countMembers")
    /\ IF \E u \in Users : member[u] = "custom" THEN Finish(r)
       ELSE Goto(r, "countInvites") /\ UNCHANGED locks
    /\ UNCHANGED <<tenant, invites>>

CountInvites(r) ==
    /\ At(r, "countInvites")
    /\ IF \E i \in Ids : status[i] = "pending" /\ grants[i] = "custom" THEN Finish(r)
       ELSE Goto(r, "audit") /\ UNCHANGED locks
    /\ UNCHANGED <<tenant, invites>>

AuditDeletion(r) ==
    /\ At(r, "audit")
    /\ Goto(r, "drop")
    /\ UNCHANGED <<tenant, invites, locks>>

\* The rows that refer to the custom role.
Referring ==
    {u \in Users : member[u] = "custom"} \cup {i \in Kept : grants[i] = "custom"}

\* The DELETE, which the RESTRICT foreign keys let through or not.
DropRole(r) ==
    /\ At(r, "drop")
    /\ roleExists' = (Referring # {})
    /\ Finish(r)
    /\ UNCHANGED <<org, member, invites>>

-----------------------------------------------------------------------------
(* deleteOrganization *)

DeleteOrganization(r) ==
    /\ Arrive(r, "lockOrg", None, None, None)
    /\ UNCHANGED timely

LockOrganization(r) ==
    /\ At(r, "lockOrg")
    /\ IF org
       THEN orgLock' = r /\ Goto(r, "cascade") /\ UNCHANGED <<roleLock, rowLock>>
       ELSE Finish(r)
    /\ UNCHANGED <<tenant, invites>>

\* The DELETE cascades to memberships and roles, and to the invitations one by one.
CascadeRow(r, i) ==
    /\ pc[r] = "cascade" /\ i \in Kept
    /\ rowLock[i] = None
    /\ rowLock' = [rowLock EXCEPT ![i] = r]
    /\ UNCHANGED <<tenant, invites, orgLock, roleLock, pc, input, worker>>

Cascade(r) ==
    /\ At(r, "cascade")
    /\ \A i \in Kept : rowLock[i] = r
    /\ org' = FALSE /\ roleExists' = FALSE
    /\ member' = [u \in Users |-> None]
    /\ Delete(Kept)
    /\ Finish(r)

-----------------------------------------------------------------------------
(* Members and time *)

\* updateMemberRole and removeMember in one step: Tenancy has their statements.
ChangeMember(u, g) ==
    /\ org /\ member[u] # None
    /\ orgLock = None /\ (g = "custom" => roleExists /\ roleLock = None)
    /\ member' = [member EXCEPT ![u] = g]
    /\ UNCHANGED <<org, roleExists, invites, locks, pc, input, worker>>

\* expires_at passes, or the retention period after it or after the last change.
Pass(i) ==
    /\ i \in Kept /\ age[i] # "old"
    /\ age' = [age EXCEPT ![i] = IF status[i] = "pending" /\ @ = "fresh"
                                 THEN "lapsed" ELSE "old"]
    /\ UNCHANGED <<tenant, status, to, grants, locks, pc, input, worker>>

-----------------------------------------------------------------------------
(* runRetentionCleanup: DELETE FROM invites *)

\* The subquery finds rows; a batch is any of those that are old and not held back.
RetentionScan ==
    /\ ret = "idle"
    /\ \E D \in SUBSET {i \in Kept : age[i] = "old"} \ {{}} : doomed' = D
    /\ ret' = "delete"
    /\ UNCHANGED <<tenant, invites, locks, pc, input>>

\* A row is deleted when nobody else holds it, and spared if it is not old then.
RetentionDelete(i) ==
    /\ ret = "delete" /\ i \in doomed
    /\ rowLock[i] = None
    /\ rowLock' = IF i \in Kept /\ age[i] = "old"
                  THEN [rowLock EXCEPT ![i] = Retention] ELSE rowLock
    /\ doomed' = doomed \ {i}
    /\ UNCHANGED <<tenant, invites, orgLock, roleLock, pc, input, ret>>

\* The transaction goes on to other tables before it commits.
RetentionCommit ==
    /\ ret = "delete" /\ doomed = {}
    /\ Delete({i \in Ids : rowLock[i] = Retention})
    /\ rowLock' = Release(Retention)
    /\ ret' = "idle"
    /\ UNCHANGED <<tenant, orgLock, roleLock, pc, input, doomed>>

RetentionAbort ==
    /\ ret = "delete"
    /\ rowLock' = Release(Retention)
    /\ ret' = "idle" /\ doomed' = {}
    /\ UNCHANGED <<tenant, invites, orgLock, roleLock, pc, input>>

RetentionStep == (\E i \in Ids : RetentionDelete(i)) \/ RetentionCommit

-----------------------------------------------------------------------------
\* A statement fails, or the transaction is the victim of a deadlock.
Abort(r) ==
    /\ pc[r] # "idle"
    /\ Finish(r)
    /\ UNCHANGED <<tenant, invites, worker>>

Step(r) ==
    \/ ExpireLapsed(r) \/ InsertInvite(r) \/ ReferInvite(r) \/ CommitCreate(r)
    \/ RevokeRow(r) \/ CommitRevoke(r)
    \/ LockInvite(r) \/ ReadMembership(r) \/ InsertMembership(r) \/ CommitAccept(r)
    \/ LockRole(r) \/ CountMembers(r) \/ CountInvites(r) \/ AuditDeletion(r) \/ DropRole(r)
    \/ LockOrganization(r) \/ (\E i \in Ids : CascadeRow(r, i)) \/ Cascade(r)

Next ==
    \/ \E r \in Requests, i \in Ids :
          RevokeInvite(r, i) \/ \E u \in Users : AcceptInvite(r, i, u)
    \/ \E r \in Requests, u \in Users, g \in Roles : CreateInvite(r, u, g)
    \/ \E r \in Requests : DeleteRole(r) \/ DeleteOrganization(r) \/ Step(r) \/ Abort(r)
    \/ \E u \in Users, g \in Roles \cup {None} : ChangeMember(u, g)
    \/ \E i \in Ids : Pass(i)
    \/ RetentionScan \/ RetentionStep \/ RetentionAbort

Spec == Init /\ [][Next]_vars

\* PostgreSQL's detector ends one transaction of a cycle.
Deadlocked(D) == D # {} /\ \A h \in D : \E k \in D : WaitsFor(h, k)

BreakDeadlock(D) ==
    /\ Deadlocked(D)
    /\ \A C \in SUBSET D : Deadlocked(C) => C = D
    /\ \/ \E r \in D \cap Requests : Abort(r)
       \/ Retention \in D /\ RetentionAbort

\* Handlers and the retention transaction keep running and row locks are queued;
\* deadlocks are detected.
Fairness ==
    /\ \A r \in Requests : SF_vars(Step(r))
    /\ SF_vars(RetentionStep)
    /\ \A D \in SUBSET (Requests \cup {Retention}) : WF_vars(BreakDeadlock(D))

FairSpec == Spec /\ Fairness

-----------------------------------------------------------------------------
(* Properties *)

\* Somebody becomes a member only by ending an invitation that was pending, is
\* addressed to them and had not expired when they presented it, with the role
\* it grants: the same token cannot be used twice or after it was revoked,
\* whatever else runs between the reads of acceptInvite and its commit.
JoinsByInvite ==
    \A u \in Users : member[u] = None /\ member'[u] # None =>
        \E i \in Ids, r \in Requests :
            /\ status[i] = "pending" /\ status'[i] = "accepted"
            /\ invite[r] = i /\ timely[r]
            /\ to[i] = u /\ member'[u] = grants[i]

JoinOnlyByInvite == [][JoinsByInvite]_vars

\* An invitation that was accepted, revoked or expired stays so until it is
\* deleted, though revocation, acceptance, expiry and deletion race for it.
KeepsEnded ==
    \A i \in Ids :
        /\ status[i] \in Ended => status'[i] \in {status[i], "gone"}
        /\ status[i] = "gone" => status'[i] = "gone"

EndedIsFinal == [][KeepsEnded]_vars

\* Once deleteRole has made its two counts nobody has the role, is about to get
\* it or is invited to it: an acceptance that moves the reference from an
\* invitation to a membership does not slip between the counts.
CountsHold ==
    \A r \in Requests : pc[r] \in {"audit", "drop"} =>
        /\ \A u \in Users : member[u] # "custom"
        /\ \A i \in Ids : ~(status[i] = "pending" /\ grants[i] = "custom")
        /\ \A x \in Requests : ~SharesRole(x)

\* No invitation, membership or role survives the deletion of its organization:
\* not that of a createInvite or acceptInvite that overlaps it.
NothingSurvivesDeletion ==
    ~org => /\ \A u \in Users : member[u] = None
            /\ \A i \in Ids : status[i] \in {"unused", "gone"}
            /\ ~roleExists

Atomic == INSTANCE AtomicInvites

\* However the statements of creations, revocations, acceptances, deletions and
\* retention interleave, each operation has its effect at one instant, keeps one
\* pending invitation per address and refers to nothing that is not there.
ActsAtomically == Atomic!Spec

\* Every request is answered, though each operation that holds an invitation or
\* the role can deadlock with the deletion of the organization, and each of them
\* with the retention worker, which keeps the rows of its batch to the commit.
Answered == \A r \in Requests : pc[r] # "idle" ~> pc[r] = "idle"

\* "Application checks provide useful errors; the database constraint prevents a
\* check/delete race": the constraint has nothing else to refuse.
CountsSuffice == \A r \in Requests : pc[r] = "drop" => Referring = {}
=============================================================================
