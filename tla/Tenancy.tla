------------------------------ MODULE Tenancy ------------------------------
(***************************************************************************)
(* One organization, its owner_id and its memberships                      *)
(* (services/organization.service.ts, services/membership.service.ts, the  *)
(* insertion of services/invite.service.ts), and the checks that precede   *)
(* them (middleware/resolveTenant.ts, middleware/requireOrgOwner.ts).      *)
(*                                                                         *)
(* A request authorises itself on one snapshot and then runs a READ        *)
(* COMMITTED transaction whose statements are actions: a write takes a row *)
(* lock, is seen by others when the transaction commits, and waits for the *)
(* row locks of others.  The foreign keys of audit_logs and memberships    *)
(* make their insertions wait for a FOR UPDATE on the organization.        *)
(* Requests that are refused before their transaction change nothing and   *)
(* are left out.                                                           *)
(***************************************************************************)
EXTENDS Naturals, FiniteSets

CONSTANTS
    Users,
    Requests,       \* requests, each handled once
    MaxJoins,       \* bound on how often one user joins
    None            \* no user, no role, no lock holder

Roles == {"Owner", "Admin", "Member"}

ASSUME NoneIsNobody == None \notin Users \cup Requests \cup Roles
ASSUME JoinsAreCounted == MaxJoins \in Nat

\* The seeded roles that hold member.update and member.remove.
Managers == {"Owner", "Admin"}

VARIABLES
    org,            \* "absent", "live" or "deleted"
    owner,          \* owner_id
    role, rowId,    \* per user: the role of its membership, and the row's id
    orgLock,        \* who holds the organization FOR UPDATE
    rowLock,        \* per user: who holds the membership
    pc, op, target, grant,  \* per request: control, handler, member, role granted
    seen, seenId,   \* per request: owner_id and membership id it has read
    reply           \* the answer

tenant == <<org, owner, role, rowId>>
locks == <<orgLock, rowLock>>
input == <<op, target, grant>>
view == <<seen, seenId>>
vars == <<tenant, locks, pc, input, view, reply>>

TypeOK ==
    /\ org \in {"absent", "live", "deleted"}
    /\ owner \in Users \cup {None}
    /\ role \in [Users -> Roles \cup {None}]
    /\ rowId \in [Users -> Nat]
    /\ orgLock \in Requests \cup {None}
    /\ rowLock \in [Users -> Requests \cup {None}]
    /\ pc \in [Requests -> {"idle", "read", "target", "write", "audit", "lockOrg",
                            "lockTarget", "demote", "transfer", "cascade", "done"}]
    /\ op \in [Requests -> {"none", "update", "remove", "transfer", "delete"}]
    /\ target \in [Requests -> Users \cup {None}]
    /\ grant \in [Requests -> Roles \cup {None}]
    /\ seen \in [Requests -> Users \cup {None}]
    /\ seenId \in [Requests -> Nat]
    /\ reply \in [Requests -> {"none", "ok", "notFound", "locked", "conflict", "error"}]

Init ==
    /\ org = "absent"
    /\ owner = None
    /\ role = [u \in Users |-> None]
    /\ rowId = [u \in Users |-> 0]
    /\ orgLock = None
    /\ rowLock = [u \in Users |-> None]
    /\ pc = [r \in Requests |-> "idle"]
    /\ op = [r \in Requests |-> "none"]
    /\ target = [r \in Requests |-> None]
    /\ grant = [r \in Requests |-> None]
    /\ seen = [r \in Requests |-> None]
    /\ seenId = [r \in Requests |-> 0]
    /\ reply = [r \in Requests |-> "none"]

-----------------------------------------------------------------------------
(* Locks, arrivals and answers *)

\* Mutant of Finish: the transaction is answered but never ended.
FinishKeepingLocks(r, answer) ==
    /\ UNCHANGED locks
    /\ reply' = [reply EXCEPT ![r] = answer]
    /\ pc' = [pc EXCEPT ![r] = "done"]

\* The transaction ends: its locks are released and the request is answered.
Finish(r, answer) ==
    /\ orgLock' = IF orgLock = r THEN None ELSE orgLock
    /\ rowLock' = [u \in Users |-> IF rowLock[u] = r THEN None ELSE rowLock[u]]
    /\ reply' = [reply EXCEPT ![r] = answer]
    /\ pc' = [pc EXCEPT ![r] = "done"]

Goto(r, next) == pc' = [pc EXCEPT ![r] = next] /\ UNCHANGED reply

Arrive(r, handler, u, g, next) ==
    /\ pc[r] = "idle"
    /\ op' = [op EXCEPT ![r] = handler]
    /\ target' = [target EXCEPT ![r] = u]
    /\ grant' = [grant EXCEPT ![r] = g]
    /\ Goto(r, next)
    /\ UNCHANGED <<tenant, locks, view>>

\* resolveTenant: the requester is a member of a live organization.
Member(u) == org = "live" /\ role[u] # None

-----------------------------------------------------------------------------
(* createOrganization: the organization and its first membership appear at     *)
(* once; the retries with another slug happen before anything is visible.      *)

Create(u) ==
    /\ org = "absent"
    /\ org' = "live"
    /\ owner' = u
    /\ role' = [role EXCEPT ![u] = "Owner"]
    /\ rowId' = [rowId EXCEPT ![u] = 1]
    /\ UNCHANGED <<locks, pc, input, view, reply>>

-----------------------------------------------------------------------------
(* updateMemberRole and removeMember *)

ManageArrive(r, actor, u, g) ==
    /\ Member(actor) /\ role[actor] \in Managers
    /\ \/ Arrive(r, "remove", u, None, "read")
       \/ Arrive(r, "update", u, g, "read")

\* owner_id is read without a lock.
ReadOwner(r) ==
    /\ pc[r] = "read"
    /\ \/ org = "live" /\ seen' = [seen EXCEPT ![r] = owner]
          /\ Goto(r, "target") /\ UNCHANGED locks
       \/ org # "live" /\ Finish(r, "notFound") /\ UNCHANGED seen
    /\ UNCHANGED <<tenant, input, seenId>>

\* Mutant of ReadTarget: the owner is not spared.
ReadTargetUnguarded(r) ==
    /\ pc[r] = "target"
    /\ IF role[target[r]] = None
       THEN Finish(r, "notFound") /\ UNCHANGED seenId
       ELSE /\ seenId' = [seenId EXCEPT ![r] = rowId[target[r]]]
            /\ Goto(r, "write") /\ UNCHANGED locks
    /\ UNCHANGED <<tenant, input, seen>>

\* The membership is read; the owner's is refused, and so is the Owner role.
ReadTarget(r) ==
    /\ pc[r] = "target"
    /\ IF role[target[r]] = None
       THEN Finish(r, "notFound") /\ UNCHANGED seenId
       ELSE IF target[r] = seen[r] \/ grant[r] = "Owner"
       THEN Finish(r, "locked") /\ UNCHANGED seenId
       ELSE /\ seenId' = [seenId EXCEPT ![r] = rowId[target[r]]]
            /\ Goto(r, "write") /\ UNCHANGED locks
    /\ UNCHANGED <<tenant, input, seen>>

Matches(r) == role[target[r]] # None /\ rowId[target[r]] = seenId[r]

\* Mutant of WriteRow: UPDATE or DELETE by the user's id.
WriteRowOfUser(r) ==
    /\ pc[r] = "write"
    /\ rowLock[target[r]] = None
    /\ rowLock' = IF role[target[r]] # None THEN [rowLock EXCEPT ![target[r]] = r]
                  ELSE rowLock
    /\ Goto(r, "audit")
    /\ UNCHANGED <<tenant, orgLock, input, view>>

\* UPDATE or DELETE by the membership's id, once nobody else holds the row; that
\* the row may be gone is not noticed.
WriteRow(r) ==
    /\ pc[r] = "write"
    /\ rowLock[target[r]] = None
    /\ rowLock' = IF Matches(r) THEN [rowLock EXCEPT ![target[r]] = r] ELSE rowLock
    /\ Goto(r, "audit")
    /\ UNCHANGED <<tenant, orgLock, input, view>>

\* recordAudit refers to the organization, and the transaction commits.
ManageCommit(r) ==
    /\ pc[r] = "audit"
    /\ orgLock = None
    /\ \/ /\ org = "live"
          /\ role' = IF rowLock[target[r]] = r
                     THEN [role EXCEPT ![target[r]] = grant[r]] ELSE role
          /\ Finish(r, "ok")
       \/ org # "live" /\ Finish(r, "error") /\ UNCHANGED role
    /\ UNCHANGED <<org, owner, rowId, input, view>>

-----------------------------------------------------------------------------
(* transferOrganizationOwnership and deleteOrganization *)

OwnerArrive(r, actor, u) ==
    /\ Member(actor) /\ actor = owner
    /\ \/ Arrive(r, "transfer", u, None, "lockOrg")
       \/ Arrive(r, "delete", None, None, "lockOrg")

\* Mutant of LockOrg: the organization is read without FOR UPDATE.
ReadOrg(r) ==
    /\ pc[r] = "lockOrg"
    /\ IF org # "live" THEN Finish(r, "notFound") /\ UNCHANGED seen
       ELSE IF op[r] = "transfer" /\ target[r] = owner
       THEN Finish(r, "conflict") /\ UNCHANGED seen
       ELSE /\ seen' = [seen EXCEPT ![r] = owner]
            /\ Goto(r, IF op[r] = "transfer" THEN "lockTarget" ELSE "cascade")
            /\ UNCHANGED locks
    /\ UNCHANGED <<tenant, input, seenId>>

\* SELECT ... FOR UPDATE; that the requester still owns it is not looked at.
LockOrg(r) ==
    /\ pc[r] = "lockOrg"
    /\ orgLock = None
    /\ IF org # "live" THEN Finish(r, "notFound") /\ UNCHANGED seen
       ELSE IF op[r] = "transfer" /\ target[r] = owner
       THEN Finish(r, "conflict") /\ UNCHANGED seen
       ELSE /\ orgLock' = r
            /\ seen' = [seen EXCEPT ![r] = owner]
            /\ Goto(r, IF op[r] = "transfer" THEN "lockTarget" ELSE "cascade")
            /\ UNCHANGED rowLock
    /\ UNCHANGED <<tenant, input, seenId>>

\* The new owner's membership, FOR UPDATE.
LockTarget(r) ==
    /\ pc[r] = "lockTarget"
    /\ rowLock[target[r]] = None
    /\ IF role[target[r]] = None THEN Finish(r, "notFound")
       ELSE /\ rowLock' = [rowLock EXCEPT ![target[r]] = r]
            /\ Goto(r, "demote") /\ UNCHANGED orgLock
    /\ UNCHANGED <<tenant, input, view>>

\* The UPDATE of the old owner's membership, if there is one.
Demote(r) ==
    /\ pc[r] = "demote"
    /\ rowLock[seen[r]] = None
    /\ rowLock' = IF role[seen[r]] # None THEN [rowLock EXCEPT ![seen[r]] = r] ELSE rowLock
    /\ Goto(r, "transfer")
    /\ UNCHANGED <<tenant, orgLock, input, view>>

TransferCommit(r) ==
    /\ pc[r] = "transfer"
    /\ role' = [u \in Users |-> IF u = target[r] THEN "Owner"
                                ELSE IF u = seen[r] /\ rowLock[u] = r THEN "Member"
                                ELSE role[u]]
    /\ owner' = target[r]
    /\ Finish(r, "ok")
    /\ UNCHANGED <<org, rowId, input, view>>

\* The DELETE cascades to the memberships, and waits for each of their locks.
DeleteCommit(r) ==
    /\ pc[r] = "cascade"
    /\ \A u \in Users : rowLock[u] = None
    /\ org' = "deleted"
    /\ owner' = None
    /\ role' = [u \in Users |-> None]
    /\ Finish(r, "ok")
    /\ UNCHANGED <<rowId, input, view>>

-----------------------------------------------------------------------------
(* acceptInvite, as far as the memberships see it: its insertion, which the    *)
(* foreign key and the unique index let through or not, decides and commits.   *)

\* Mutant of Join: the ids run down.
JoinCountingDown(u, g) ==
    /\ org = "live" /\ orgLock = None /\ rowLock[u] = None
    /\ role[u] = None /\ g # "Owner"
    /\ rowId[u] < MaxJoins
    /\ role' = [role EXCEPT ![u] = g]
    /\ rowId' = [rowId EXCEPT ![u] = @ - 1]
    /\ UNCHANGED <<org, owner, locks, pc, input, view, reply>>

\* createInvite refuses the Owner role.
Join(u, g) ==
    /\ org = "live" /\ orgLock = None /\ rowLock[u] = None
    /\ role[u] = None /\ g # "Owner"
    /\ rowId[u] < MaxJoins
    /\ role' = [role EXCEPT ![u] = g]
    /\ rowId' = [rowId EXCEPT ![u] = @ + 1]
    /\ UNCHANGED <<org, owner, locks, pc, input, view, reply>>

-----------------------------------------------------------------------------
\* A statement fails, or the transaction is the victim of a deadlock: it rolls
\* back.
Abort(r) ==
    /\ pc[r] \notin {"idle", "done"}
    /\ Finish(r, "error")
    /\ UNCHANGED <<tenant, input, view>>

Step(r) ==
    \/ ReadOwner(r) \/ ReadTarget(r) \/ WriteRow(r) \/ ManageCommit(r)
    \/ LockOrg(r) \/ LockTarget(r) \/ Demote(r) \/ TransferCommit(r) \/ DeleteCommit(r)

Next ==
    \/ \E u \in Users : Create(u) \/ \E g \in Roles : Join(u, g)
    \/ \E r \in Requests, a, u \in Users :
          (\E g \in Roles : ManageArrive(r, a, u, g)) \/ OwnerArrive(r, a, u)
    \/ \E r \in Requests : Step(r) \/ Abort(r)

\* The holders of the locks that a request waits for.
Blockers(r) ==
    (IF pc[r] \in {"audit", "lockOrg"} THEN {orgLock} ELSE {})
    \cup {rowLock[u] : u \in {u \in Users :
            \/ pc[r] \in {"write", "lockTarget"} /\ u = target[r]
            \/ pc[r] = "demote" /\ u = seen[r]
            \/ pc[r] = "cascade"}}

Deadlocked(D) == D # {} /\ \A r \in D : Blockers(r) \cap (D \ {r}) # {}

\* PostgreSQL's detector ends one transaction of a cycle.
BreakDeadlock(D) ==
    /\ Deadlocked(D)
    /\ \A C \in SUBSET D : Deadlocked(C) => C = D
    /\ \E r \in D : Abort(r)

Spec == Init /\ [][Next]_vars

\* Handlers keep running and row locks are queued; deadlocks are detected.
Fairness ==
    /\ \A r \in Requests : SF_vars(Step(r))
    /\ \A D \in SUBSET Requests : WF_vars(BreakDeadlock(D))

FairSpec == Spec /\ Fairness

-----------------------------------------------------------------------------
(* Properties *)

\* The Owner role is the owner's alone: concurrent transfers, role changes and
\* invitations never leave a second membership with it.
OneOwnerRole == \A u \in Users : role[u] = "Owner" => u = owner

\* The owner loses the Owner role only to a role change or a removal that was
\* answered "ok" after reading another owner_id: no other interleaving of
\* transfers, removals and invitations takes it.
OwnerLostOnlyToStaleRead ==
    org = "live" /\ role[owner] # "Owner" =>
        \E r \in Requests :
            /\ op[r] \in {"update", "remove"} /\ reply[r] = "ok"
            /\ target[r] = owner /\ seen[r] # owner

\* Nobody is a member of a deleted organization: a join, a role change or a
\* transfer that overlaps the deletion does not survive it.
NothingSurvivesDeletion == org = "deleted" => \A u \in Users : role[u] = None

Atomic == INSTANCE AtomicTenancy

\* However the statements of role changes, removals, transfers, deletions and
\* joins interleave, each request has its effect, or none, at one instant, and
\* its answer is true: a transfer moves owner_id and both roles together, and a
\* role change or removal touches the membership that it found or nothing.
ActsAtomically == Atomic!Spec

\* Every request is answered: a removal that waits for the organization and a
\* transfer or deletion that waits for the membership do not wait for ever.
Answered == \A r \in Requests : pc[r] # "idle" ~> pc[r] = "done"

\* "the organization owner's own membership can never be reassigned", nor
\* removed.
OwnerKeepsRole == org = "live" => role[owner] = "Owner"
=============================================================================
