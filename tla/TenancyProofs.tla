--------------------------- MODULE TenancyProofs ---------------------------
(***************************************************************************)
(* For every set of users and requests: only the owner has the Owner role, *)
(* the owner loses it to nothing but a stale read, and a deleted           *)
(* organization has no members.                                            *)
(***************************************************************************)
EXTENDS Tenancy, TLAPS

\* The organization is locked exactly by the transfer or deletion in progress.
OrgLockInv ==
    \A r \in Requests :
        pc[r] \in {"lockTarget", "demote", "transfer", "cascade"} <=> orgLock = r

\* Under its lock the organization is there and owner_id is what was read; the
\* new owner is another member, held from its selection to the commit.
TransferInv ==
    \A r \in Requests :
        /\ orgLock = r => org = "live" /\ seen[r] = owner
        /\ pc[r] \in {"lockTarget", "demote", "transfer"} =>
              target[r] \in Users /\ target[r] # owner
        /\ pc[r] \in {"demote", "transfer"} =>
              rowLock[target[r]] = r /\ role[target[r]] # None

\* From its UPDATE to the commit the old owner's membership is held as well,
\* unless there is none to demote.
DemoteInv ==
    \A r \in Requests :
        pc[r] = "transfer" => rowLock[owner] = r \/ role[owner] = None

\* A role change or removal that got past its reads spares the owner it has read
\* and does not grant the Owner role; answers are final.
ManageInv ==
    \A r \in Requests :
        /\ op[r] \in {"update", "remove", "transfer"} => target[r] \in Users
        /\ pc[r] \in {"read", "target", "write", "audit"} => op[r] \in {"update", "remove"}
        /\ pc[r] \in {"write", "audit"} =>
              grant[r] # "Owner" /\ target[r] # seen[r]
        /\ reply[r] = "ok" => pc[r] = "done"

\* owner_id refers to a user while there is an organization; before, there are
\* no members.
OwnerInv ==
    /\ org = "live" => owner \in Users
    /\ org = "absent" => \A u \in Users : role[u] = None

IInv ==
    /\ TypeOK
    /\ OrgLockInv /\ TransferInv /\ DemoteInv /\ ManageInv /\ OwnerInv
    /\ OneOwnerRole
    /\ OwnerLostOnlyToStaleRead
    /\ NothingSurvivesDeletion

-----------------------------------------------------------------------------
\* A database without the organization satisfies the inductive invariant.
LEMMA InitInv == Init => IInv
BY NoneIsNobody DEF Init, IInv, TypeOK, OrgLockInv, TransferInv, DemoteInv, ManageInv,
   OwnerInv, OneOwnerRole, OwnerLostOnlyToStaleRead, NothingSurvivesDeletion, Roles

\* CreateOrganization makes one membership, the owner's, and it has the Owner role.
LEMMA CreateStep ==
    ASSUME IInv, NEW u \in Users, Create(u)
    PROVE  IInv'
<1> USE NoneIsNobody DEF IInv, tenant, locks, input, view, Create
<1>1. TypeOK'
  BY DEF TypeOK, ManageInv, Roles
<1>2. OneOwnerRole'
  BY DEF TypeOK, OrgLockInv, TransferInv, DemoteInv, ManageInv, OwnerInv, OneOwnerRole,
     Roles
<1>3. OwnerLostOnlyToStaleRead'
  BY DEF TypeOK, OrgLockInv, TransferInv, ManageInv, OwnerInv, OwnerLostOnlyToStaleRead,
     Roles
<1>4. OrgLockInv' /\ TransferInv' /\ DemoteInv' /\ ManageInv' /\ OwnerInv' /\
      NothingSurvivesDeletion'
  BY DEF TypeOK, OrgLockInv, TransferInv, ManageInv, DemoteInv, OwnerInv,
     NothingSurvivesDeletion
<1> QED
  BY <1>1, <1>2, <1>3, <1>4

\* AcceptInvite adds a member who is not the owner and never the Owner role.
LEMMA JoinStep ==
    ASSUME IInv, NEW u \in Users, NEW g \in Roles, Join(u, g)
    PROVE  IInv'
<1> USE NoneIsNobody DEF IInv, tenant, locks, input, view, Join
<1>1. TypeOK'
  BY DEF TypeOK, ManageInv, Roles
<1>2. TransferInv'
  BY DEF TypeOK, OrgLockInv, TransferInv, ManageInv
<1>3. OneOwnerRole'
  BY DEF TypeOK, OrgLockInv, TransferInv, DemoteInv, ManageInv, OwnerInv, OneOwnerRole,
     Roles
<1>4. OwnerLostOnlyToStaleRead'
  BY DEF TypeOK, OrgLockInv, TransferInv, ManageInv, OwnerInv, OwnerLostOnlyToStaleRead,
     Roles
<1>5. OrgLockInv' /\ DemoteInv' /\ ManageInv' /\ OwnerInv' /\
      NothingSurvivesDeletion'
  BY DEF TypeOK, OrgLockInv, TransferInv, DemoteInv, OwnerInv, ManageInv,
     NothingSurvivesDeletion
<1> QED
  BY <1>1, <1>2, <1>3, <1>4, <1>5

\* Resolving the tenant of a role change or removal changes no shared row.
LEMMA ManageArriveStep ==
    ASSUME IInv, NEW r \in Requests, NEW a \in Users, NEW u \in Users,
           NEW g \in Roles, ManageArrive(r, a, u, g)
    PROVE  IInv'
<1> USE NoneIsNobody DEF IInv, tenant, locks, input, view, ManageArrive, Arrive, Goto, Member
<1>1. TypeOK'
  BY DEF TypeOK, ManageInv, Roles
<1>2. ManageInv'
  BY DEF TypeOK, ManageInv
<1>3. OwnerLostOnlyToStaleRead'
  BY DEF TypeOK, OrgLockInv, TransferInv, ManageInv, OwnerInv, OwnerLostOnlyToStaleRead,
     Roles
<1>4. OrgLockInv' /\ TransferInv' /\ DemoteInv' /\ OwnerInv' /\
      OneOwnerRole' /\ NothingSurvivesDeletion'
  BY DEF TypeOK, OrgLockInv, TransferInv, ManageInv, DemoteInv, OwnerInv, OneOwnerRole,
     NothingSurvivesDeletion, Roles
<1> QED
  BY <1>1, <1>2, <1>3, <1>4

\* Resolving the tenant of a transfer or deletion changes no shared row.
LEMMA OwnerArriveStep ==
    ASSUME IInv, NEW r \in Requests, NEW a \in Users, NEW u \in Users,
           OwnerArrive(r, a, u)
    PROVE  IInv'
<1> USE NoneIsNobody DEF IInv, tenant, locks, input, view, OwnerArrive, Arrive, Goto, Member
<1>1. TypeOK'
  BY DEF TypeOK, ManageInv, Roles
<1>2. ManageInv'
  BY DEF TypeOK, ManageInv
<1>3. OwnerLostOnlyToStaleRead'
  BY DEF TypeOK, OrgLockInv, TransferInv, ManageInv, OwnerInv, OwnerLostOnlyToStaleRead,
     Roles
<1>4. OrgLockInv' /\ TransferInv' /\ DemoteInv' /\ OwnerInv' /\
      OneOwnerRole' /\ NothingSurvivesDeletion'
  BY DEF TypeOK, OrgLockInv, TransferInv, ManageInv, DemoteInv, OwnerInv, OneOwnerRole,
     NothingSurvivesDeletion, Roles
<1> QED
  BY <1>1, <1>2, <1>3, <1>4

\* AssertNotOwner fixes the owner whom this request will spare.
LEMMA ReadOwnerStep ==
    ASSUME IInv, NEW r \in Requests, ReadOwner(r)
    PROVE  IInv'
<1> USE NoneIsNobody DEF IInv, tenant, locks, input, view, ReadOwner, Goto, Finish
<1>1. TypeOK'
  BY DEF TypeOK, ManageInv, Roles
<1>2. TransferInv'
  BY DEF TypeOK, OrgLockInv, TransferInv, ManageInv
<1>3. ManageInv'
  BY DEF TypeOK, ManageInv
<1>4. OwnerLostOnlyToStaleRead'
  BY DEF TypeOK, OrgLockInv, TransferInv, ManageInv, OwnerInv, OwnerLostOnlyToStaleRead,
     Roles
<1>5. OrgLockInv' /\ DemoteInv' /\ OwnerInv' /\ OneOwnerRole' /\
      NothingSurvivesDeletion'
  BY DEF TypeOK, OrgLockInv, TransferInv, DemoteInv, OwnerInv, ManageInv, OneOwnerRole,
     NothingSurvivesDeletion, Roles
<1> QED
  BY <1>1, <1>2, <1>3, <1>4, <1>5

\* What passes the last read neither targets that owner nor grants Owner.
LEMMA ReadTargetStep ==
    ASSUME IInv, NEW r \in Requests, ReadTarget(r)
    PROVE  IInv'
<1> USE NoneIsNobody DEF IInv, tenant, locks, input, view, ReadTarget, Goto, Finish
<1>1. TypeOK'
  BY DEF TypeOK, ManageInv, Roles
<1>2. TransferInv'
  BY DEF TypeOK, OrgLockInv, TransferInv, ManageInv
<1>3. ManageInv'
  BY DEF TypeOK, ManageInv
<1>4. OwnerLostOnlyToStaleRead'
  BY DEF TypeOK, OrgLockInv, TransferInv, ManageInv, OwnerInv, OwnerLostOnlyToStaleRead,
     Roles
<1>5. OrgLockInv' /\ DemoteInv' /\ OwnerInv' /\ OneOwnerRole' /\
      NothingSurvivesDeletion'
  BY DEF TypeOK, OrgLockInv, TransferInv, DemoteInv, OwnerInv, ManageInv, OneOwnerRole,
     NothingSurvivesDeletion, Roles
<1> QED
  BY <1>1, <1>2, <1>3, <1>4, <1>5

\* The UPDATE or DELETE waits for its row and so never hits one a transfer holds.
LEMMA WriteRowStep ==
    ASSUME IInv, NEW r \in Requests, WriteRow(r)
    PROVE  IInv'
<1> USE NoneIsNobody DEF IInv, tenant, locks, input, view, WriteRow, Goto, Matches
<1>1. TypeOK'
  BY DEF TypeOK, ManageInv, Roles
<1>2. TransferInv'
  BY DEF TypeOK, OrgLockInv, TransferInv, ManageInv
<1>3. DemoteInv'
  BY DEF TypeOK, OrgLockInv, TransferInv, DemoteInv, OwnerInv
<1>4. OwnerLostOnlyToStaleRead'
  BY DEF TypeOK, OrgLockInv, TransferInv, ManageInv, OwnerInv, OwnerLostOnlyToStaleRead,
     Roles
<1>5. OrgLockInv' /\ ManageInv' /\ OwnerInv' /\ OneOwnerRole' /\
      NothingSurvivesDeletion'
  BY DEF TypeOK, OrgLockInv, ManageInv, TransferInv, OwnerInv, DemoteInv, OneOwnerRole,
     NothingSurvivesDeletion, Roles
<1> QED
  BY <1>1, <1>2, <1>3, <1>4, <1>5

\* A committing request takes the role of the owner only when it read an earlier owner.
LEMMA ManageCommitStep ==
    ASSUME IInv, NEW r \in Requests, ManageCommit(r)
    PROVE  IInv'
<1> USE NoneIsNobody DEF IInv, tenant, locks, input, view, ManageCommit, Finish
<1>1. TypeOK'
  BY DEF TypeOK, ManageInv, Roles
<1>2. TransferInv'
  BY DEF TypeOK, OrgLockInv, TransferInv, ManageInv
<1>3. DemoteInv'
  BY DEF TypeOK, OrgLockInv, TransferInv, DemoteInv, OwnerInv
<1>4. OneOwnerRole'
  BY DEF TypeOK, OrgLockInv, TransferInv, DemoteInv, ManageInv, OwnerInv, OneOwnerRole,
     Roles
<1>5. OwnerLostOnlyToStaleRead'
  BY DEF TypeOK, OrgLockInv, TransferInv, ManageInv, OwnerInv, OwnerLostOnlyToStaleRead,
     Roles
<1>6. OrgLockInv' /\ ManageInv' /\ OwnerInv' /\ NothingSurvivesDeletion'
  BY DEF TypeOK, OrgLockInv, ManageInv, TransferInv, OwnerInv, NothingSurvivesDeletion
<1> QED
  BY <1>1, <1>2, <1>3, <1>4, <1>5, <1>6

\* FOR UPDATE is granted to one request at a time, and the owner check follows it.
LEMMA LockOrgStep ==
    ASSUME IInv, NEW r \in Requests, LockOrg(r)
    PROVE  IInv'
<1> USE NoneIsNobody DEF IInv, tenant, locks, input, view, LockOrg, Goto, Finish
<1>1. TypeOK'
  BY DEF TypeOK, ManageInv, Roles
<1>2. OrgLockInv'
  BY DEF TypeOK, OrgLockInv
<1>3. TransferInv'
  BY DEF TypeOK, OrgLockInv, TransferInv, ManageInv
<1>4. ManageInv'
  BY DEF TypeOK, ManageInv
<1>5. OwnerLostOnlyToStaleRead'
  BY DEF TypeOK, OrgLockInv, TransferInv, ManageInv, OwnerInv, OwnerLostOnlyToStaleRead,
     Roles
<1>6. DemoteInv' /\ OwnerInv' /\ OneOwnerRole' /\ NothingSurvivesDeletion'
  BY DEF TypeOK, OrgLockInv, TransferInv, DemoteInv, OwnerInv, ManageInv, OneOwnerRole,
     NothingSurvivesDeletion, Roles
<1> QED
  BY <1>1, <1>2, <1>3, <1>4, <1>5, <1>6

\* The new owner is a member, and stays one until the transfer commits.
LEMMA LockTargetStep ==
    ASSUME IInv, NEW r \in Requests, LockTarget(r)
    PROVE  IInv'
<1> USE NoneIsNobody DEF IInv, tenant, locks, input, view, LockTarget, Goto, Finish
<1>1. TypeOK'
  BY DEF TypeOK, ManageInv, Roles
<1>2. OrgLockInv'
  BY DEF TypeOK, OrgLockInv
<1>3. TransferInv'
  BY DEF TypeOK, OrgLockInv, TransferInv, ManageInv
<1>4. OwnerLostOnlyToStaleRead'
  BY DEF TypeOK, OrgLockInv, TransferInv, ManageInv, OwnerInv, OwnerLostOnlyToStaleRead,
     Roles
<1>5. DemoteInv' /\ ManageInv' /\ OwnerInv' /\ OneOwnerRole' /\
      NothingSurvivesDeletion'
  BY DEF TypeOK, OrgLockInv, TransferInv, DemoteInv, OwnerInv, ManageInv, OneOwnerRole,
     NothingSurvivesDeletion, Roles
<1> QED
  BY <1>1, <1>2, <1>3, <1>4, <1>5

\* The UPDATE holds the membership of the old owner, if there is one.
LEMMA DemoteStep ==
    ASSUME IInv, NEW r \in Requests, Demote(r)
    PROVE  IInv'
<1> USE NoneIsNobody DEF IInv, tenant, locks, input, view, Demote, Goto
<1>1. TypeOK'
  BY DEF TypeOK, ManageInv, Roles
<1>2. TransferInv'
  BY DEF TypeOK, OrgLockInv, TransferInv, ManageInv
<1>3. DemoteInv'
  BY DEF TypeOK, OrgLockInv, TransferInv, DemoteInv, OwnerInv
<1>4. OwnerLostOnlyToStaleRead'
  BY DEF TypeOK, OrgLockInv, TransferInv, ManageInv, OwnerInv, OwnerLostOnlyToStaleRead,
     Roles
<1>5. OrgLockInv' /\ ManageInv' /\ OwnerInv' /\ OneOwnerRole' /\
      NothingSurvivesDeletion'
  BY DEF TypeOK, OrgLockInv, ManageInv, TransferInv, OwnerInv, DemoteInv, OneOwnerRole,
     NothingSurvivesDeletion, Roles
<1> QED
  BY <1>1, <1>2, <1>3, <1>4, <1>5

\* The old owner is demoted in the same commit that promotes the new one.
LEMMA TransferCommitStep ==
    ASSUME IInv, NEW r \in Requests, TransferCommit(r)
    PROVE  IInv'
<1> USE NoneIsNobody DEF IInv, tenant, locks, input, view, TransferCommit, Finish
<1>1. TypeOK'
  BY DEF TypeOK, ManageInv, Roles
<1>2. OrgLockInv'
  BY DEF TypeOK, OrgLockInv
<1>3. TransferInv'
  BY DEF TypeOK, OrgLockInv, TransferInv, ManageInv
<1>4. DemoteInv'
  BY DEF TypeOK, OrgLockInv, TransferInv, DemoteInv, OwnerInv
<1>5. OneOwnerRole'
  BY DEF TypeOK, OrgLockInv, TransferInv, DemoteInv, ManageInv, OwnerInv, OneOwnerRole,
     Roles
<1>6. OwnerLostOnlyToStaleRead'
  BY DEF TypeOK, OrgLockInv, TransferInv, ManageInv, OwnerInv, OwnerLostOnlyToStaleRead,
     Roles
<1>7. ManageInv' /\ OwnerInv' /\ NothingSurvivesDeletion'
  BY DEF TypeOK, ManageInv, OrgLockInv, TransferInv, OwnerInv, NothingSurvivesDeletion
<1> QED
  BY <1>1, <1>2, <1>3, <1>4, <1>5, <1>6, <1>7

\* The cascade takes every membership with the organization.
LEMMA DeleteCommitStep ==
    ASSUME IInv, NEW r \in Requests, DeleteCommit(r)
    PROVE  IInv'
<1> USE NoneIsNobody DEF IInv, tenant, locks, input, view, DeleteCommit, Finish
<1>1. TypeOK'
  BY DEF TypeOK, ManageInv, Roles
<1>2. OrgLockInv'
  BY DEF TypeOK, OrgLockInv
<1>3. TransferInv'
  BY DEF TypeOK, OrgLockInv, TransferInv, ManageInv
<1>4. DemoteInv'
  BY DEF TypeOK, OrgLockInv, TransferInv, DemoteInv, OwnerInv
<1>5. OwnerLostOnlyToStaleRead'
  BY DEF TypeOK, OrgLockInv, TransferInv, ManageInv, OwnerInv, OwnerLostOnlyToStaleRead,
     Roles
<1>6. ManageInv' /\ OwnerInv' /\ OneOwnerRole' /\ NothingSurvivesDeletion'
  BY DEF TypeOK, ManageInv, OrgLockInv, TransferInv, OwnerInv, DemoteInv, OneOwnerRole,
     NothingSurvivesDeletion, Roles
<1> QED
  BY <1>1, <1>2, <1>3, <1>4, <1>5, <1>6

\* A transaction that is rolled back gives its locks back and changes nothing.
LEMMA AbortStep ==
    ASSUME IInv, NEW r \in Requests, Abort(r)
    PROVE  IInv'
<1> USE NoneIsNobody DEF IInv, tenant, locks, input, view, Abort, Finish
<1>1. TypeOK'
  BY DEF TypeOK, ManageInv, Roles
<1>2. OrgLockInv'
  BY DEF TypeOK, OrgLockInv
<1>3. TransferInv'
  BY DEF TypeOK, OrgLockInv, TransferInv, ManageInv
<1>4. DemoteInv'
  BY DEF TypeOK, OrgLockInv, TransferInv, DemoteInv, OwnerInv
<1>5. ManageInv'
  BY DEF TypeOK, ManageInv
<1>6. OwnerLostOnlyToStaleRead'
  BY DEF TypeOK, OrgLockInv, TransferInv, ManageInv, OwnerInv, OwnerLostOnlyToStaleRead,
     Roles
<1>7. OwnerInv' /\ OneOwnerRole' /\ NothingSurvivesDeletion'
  BY DEF TypeOK, OrgLockInv, TransferInv, OwnerInv, DemoteInv, ManageInv, OneOwnerRole,
     NothingSurvivesDeletion, Roles
<1> QED
  BY <1>1, <1>2, <1>3, <1>4, <1>5, <1>6, <1>7

-----------------------------------------------------------------------------
\* Nothing happens.
LEMMA StutterInv == IInv /\ UNCHANGED vars => IInv'
BY DEF IInv, vars, tenant, locks, input, view, TypeOK, OrgLockInv, TransferInv, DemoteInv,
   ManageInv, OwnerInv, OneOwnerRole, OwnerLostOnlyToStaleRead, NothingSurvivesDeletion

\* Every step keeps the inductive invariant.
LEMMA StepInv == IInv /\ [Next]_vars => IInv'
<1> SUFFICES ASSUME IInv, [Next]_vars PROVE IInv'
  OBVIOUS
<1>1. CASE \E u \in Users : Create(u) \/ \E g \in Roles : Join(u, g)
  BY <1>1, CreateStep, JoinStep
<1>2. CASE \E r \in Requests, a, u \in Users :
              (\E g \in Roles : ManageArrive(r, a, u, g)) \/ OwnerArrive(r, a, u)
  BY <1>2, ManageArriveStep, OwnerArriveStep
<1>3. CASE \E r \in Requests : Step(r)
  BY <1>3, ReadOwnerStep, ReadTargetStep, WriteRowStep, ManageCommitStep, LockOrgStep,
     LockTargetStep, DemoteStep, TransferCommitStep, DeleteCommitStep DEF Step
<1>4. CASE \E r \in Requests : Abort(r)
  BY <1>4, AbortStep
<1>5. CASE UNCHANGED vars
  BY <1>5, StutterInv
<1> QED
  BY <1>1, <1>2, <1>3, <1>4, <1>5 DEF Next

-----------------------------------------------------------------------------
\* IInv holds in every reachable state: transfers exclude each other through the
\* organization's row, and what they read under it stays true to their commit.
THEOREM Invariance == Spec => []IInv
<1>1. Init => IInv
  BY InitInv
<1>2. IInv /\ [Next]_vars => IInv'
  BY StepInv
<1> QED
  BY <1>1, <1>2, PTL DEF Spec

\* The type invariant of Tenancy.
THEOREM TypeCorrect == Spec => []TypeOK
<1>1. IInv => TypeOK
  BY DEF IInv
<1> QED
  BY <1>1, Invariance, PTL

\* However many transfers, role changes, removals and invitations overlap, no
\* member but the owner has the Owner role.
THEOREM OwnerRoleUnique == Spec => []OneOwnerRole
<1>1. IInv => OneOwnerRole
  BY DEF IInv
<1> QED
  BY <1>1, Invariance, PTL

\* However many requests overlap, only a role change or removal that acted on an
\* earlier owner_id takes the Owner role from the owner.
THEOREM OwnerLossExplained == Spec => []OwnerLostOnlyToStaleRead
<1>1. IInv => OwnerLostOnlyToStaleRead
  BY DEF IInv
<1> QED
  BY <1>1, Invariance, PTL

\* Whatever overlaps the deletion of an organization, no membership survives it.
THEOREM DeletionComplete == Spec => []NothingSurvivesDeletion
<1>1. IInv => NothingSurvivesDeletion
  BY DEF IInv
<1> QED
  BY <1>1, Invariance, PTL

-----------------------------------------------------------------------------
(* Every request is atomic *)

\* What a request is doing tells what it was asked, what it has looked up and
\* that it has not been answered; there are none before the organization.
QuestionInv ==
    \A r \in Requests :
        /\ pc[r] = "idle" <=> op[r] = "none"
        /\ pc[r] # "done" => reply[r] = "none"
        /\ pc[r] \in {"idle", "read", "lockOrg"} => seen[r] = None
        /\ pc[r] = "target" => seen[r] # None
        /\ pc[r] \notin {"write", "audit", "done"} => seenId[r] = 0
        /\ pc[r] = "lockOrg" => op[r] \in {"transfer", "delete"}
        /\ pc[r] \in {"lockTarget", "demote", "transfer"} => op[r] = "transfer"
        /\ pc[r] = "cascade" => op[r] = "delete"
        /\ org = "absent" => pc[r] = "idle"

\* A held membership is there.  A row's id is not used again, so that whoever
\* waits for its commit holds the row that it has read, or that row is gone for
\* good.
WriteInv ==
    /\ \A u \in Users : rowLock[u] # None => role[u] # None
    /\ \A u \in Users : role[u] # None => rowId[u] # 0
    /\ \A r \in Requests :
          /\ pc[r] \in {"write", "audit"} => seenId[r] \in 1 .. rowId[target[r]]
          /\ pc[r] = "audit" => (Matches(r) <=> rowLock[target[r]] = r)

\* Every step keeps the questions.
LEMMA QuestionStep == IInv /\ QuestionInv /\ WriteInv /\ [Next]_vars => QuestionInv'
<1> SUFFICES ASSUME IInv, QuestionInv, WriteInv, [Next]_vars PROVE QuestionInv'
  OBVIOUS
<1> USE NoneIsNobody DEF IInv, TypeOK, QuestionInv
<1>1. ASSUME NEW u \in Users, Create(u) PROVE QuestionInv'
  BY <1>1 DEF Create, input, view
<1>2. ASSUME NEW u \in Users, NEW g \in Roles, Join(u, g) PROVE QuestionInv'
  BY <1>2 DEF Join, input, view
<1>3. ASSUME NEW r \in Requests, NEW a \in Users, NEW u \in Users, NEW g \in Roles,
             ManageArrive(r, a, u, g) \/ OwnerArrive(r, a, u)
      PROVE  QuestionInv'
  BY <1>3 DEF ManageArrive, OwnerArrive, Arrive, Goto, Member, tenant, view
<1>4. ASSUME NEW r \in Requests, ReadOwner(r) PROVE QuestionInv'
  BY <1>4 DEF ReadOwner, Goto, Finish, tenant, input, OwnerInv, ManageInv
<1>5. ASSUME NEW r \in Requests, ReadTarget(r) PROVE QuestionInv'
  BY <1>5 DEF ReadTarget, Goto, Finish, tenant, input, ManageInv
<1>6. ASSUME NEW r \in Requests, WriteRow(r) PROVE QuestionInv'
  BY <1>6 DEF WriteRow, Goto, tenant, input, view
<1>7. ASSUME NEW r \in Requests, ManageCommit(r) \/ TransferCommit(r) \/ DeleteCommit(r)
      PROVE  QuestionInv'
  BY <1>7 DEF ManageCommit, TransferCommit, DeleteCommit, Finish, input, view
<1>8. ASSUME NEW r \in Requests, LockOrg(r) PROVE QuestionInv'
  BY <1>8 DEF LockOrg, Goto, Finish, tenant, input
<1>9. ASSUME NEW r \in Requests, LockTarget(r) \/ Demote(r) PROVE QuestionInv'
  BY <1>9 DEF LockTarget, Demote, Goto, Finish, tenant, input, view
<1>10. ASSUME NEW r \in Requests, Abort(r) PROVE QuestionInv'
  BY <1>10 DEF Abort, Finish, tenant, input, view
<1>11. CASE UNCHANGED vars
  BY <1>11 DEF vars, tenant, input, view
<1> HIDE DEF IInv, TypeOK, QuestionInv
<1> QED
  BY <1>1, <1>2, <1>3, <1>4, <1>5, <1>6, <1>7, <1>8, <1>9, <1>10, <1>11
     DEF Next, Step, Roles

\* Every step keeps the held memberships, and those gone for good gone.
LEMMA WriteStep == IInv /\ QuestionInv /\ WriteInv /\ [Next]_vars => WriteInv'
<1> SUFFICES ASSUME IInv, QuestionInv, WriteInv, [Next]_vars PROVE WriteInv'
  OBVIOUS
<1> USE NoneIsNobody DEF IInv, TypeOK, WriteInv, Matches, ManageInv
<1>1. ASSUME NEW u \in Users, Create(u) PROVE WriteInv'
  BY <1>1 DEF Create, locks, input, view, QuestionInv, OwnerInv
<1>2. ASSUME NEW u \in Users, NEW g \in Roles, Join(u, g) PROVE WriteInv'
  BY <1>2 DEF Join, locks, input, view, Roles
<1>3. ASSUME NEW r \in Requests, NEW a \in Users, NEW u \in Users, NEW g \in Roles,
             ManageArrive(r, a, u, g) \/ OwnerArrive(r, a, u)
      PROVE  WriteInv'
  BY <1>3 DEF ManageArrive, OwnerArrive, Arrive, Goto, Member, tenant, locks, view
<1>4. ASSUME NEW r \in Requests, ReadOwner(r) \/ LockOrg(r) PROVE WriteInv'
  BY <1>4 DEF ReadOwner, LockOrg, Goto, Finish, tenant, locks, input
<1>5. ASSUME NEW r \in Requests, ReadTarget(r) PROVE WriteInv'
  BY <1>5 DEF ReadTarget, Goto, Finish, tenant, locks, input
<1>6. ASSUME NEW r \in Requests, WriteRow(r) PROVE WriteInv'
  BY <1>6 DEF WriteRow, Goto, tenant, input, view
<1>7. ASSUME NEW r \in Requests, ManageCommit(r) PROVE WriteInv'
  BY <1>7 DEF ManageCommit, Finish, input, view
<1>8. ASSUME NEW r \in Requests, LockTarget(r) \/ Demote(r) PROVE WriteInv'
  BY <1>8 DEF LockTarget, Demote, Goto, Finish, tenant, input, view, TransferInv, OrgLockInv
<1>9. ASSUME NEW r \in Requests, TransferCommit(r) PROVE WriteInv'
  BY <1>9 DEF TransferCommit, Finish, input, view, TransferInv
<1>10. ASSUME NEW r \in Requests, DeleteCommit(r) PROVE WriteInv'
  BY <1>10 DEF DeleteCommit, Finish, input, view
<1>11. ASSUME NEW r \in Requests, Abort(r) PROVE WriteInv'
  BY <1>11 DEF Abort, Finish, tenant, input, view
<1>12. CASE UNCHANGED vars
  BY <1>12 DEF vars, tenant, locks, input, view
<1> HIDE DEF IInv, TypeOK, WriteInv, Matches, ManageInv
<1> QED
  BY <1>1, <1>2, <1>3, <1>4, <1>5, <1>6, <1>7, <1>8, <1>9, <1>10, <1>11, <1>12
     DEF Next, Step, Roles

\* Both hold in every reachable state.
LEMMA LookUps == Spec => [](QuestionInv /\ WriteInv)
<1>1. Init => QuestionInv /\ WriteInv
  BY DEF Init, QuestionInv, WriteInv
<1>2. IInv /\ (QuestionInv /\ WriteInv) /\ [Next]_vars => (QuestionInv /\ WriteInv)'
  BY QuestionStep, WriteStep
<1> QED
  BY <1>1, <1>2, Invariance, PTL DEF Spec

\* An arrival is a question of somebody entitled to ask it.
LEMMA ArrivalIsQuestion ==
    ASSUME QuestionInv, NEW r \in Requests, NEW a \in Users, NEW u \in Users, NEW g \in Roles,
           ManageArrive(r, a, u, g) \/ OwnerArrive(r, a, u)
    PROVE  \E v \in Users \cup {None}, h \in Roles \cup {None},
              handler \in {"update", "remove", "transfer", "delete"} :
                 Atomic!Ask(r, a, handler, v, h)
<1> USE DEF Arrive, Goto, Member, Managers, QuestionInv, tenant, locks, view,
        Atomic!Ask, Atomic!Entitled, Atomic!Managers, Atomic!tenant, Atomic!view
<1>1. CASE ManageArrive(r, a, u, g)
  <2>1. CASE Arrive(r, "remove", u, None, "read")
    <3>1. Atomic!Ask(r, a, "remove", u, None)
      BY <1>1, <2>1 DEF ManageArrive
    <3> QED
      BY <3>1
  <2>2. CASE Arrive(r, "update", u, g, "read")
    <3>1. Atomic!Ask(r, a, "update", u, g)
      BY <1>1, <2>2 DEF ManageArrive
    <3> QED
      BY <3>1
  <2> QED
    BY <1>1, <2>1, <2>2 DEF ManageArrive
<1>2. CASE OwnerArrive(r, a, u)
  <2>1. CASE Arrive(r, "transfer", u, None, "lockOrg")
    <3>1. Atomic!Ask(r, a, "transfer", u, None)
      BY <1>2, <2>1 DEF OwnerArrive
    <3> QED
      BY <3>1
  <2>2. CASE Arrive(r, "delete", None, None, "lockOrg")
    <3>1. Atomic!Ask(r, a, "delete", None, None)
      BY <1>2, <2>2 DEF OwnerArrive
    <3> QED
      BY <3>1
  <2> QED
    BY <1>2, <2>1, <2>2 DEF OwnerArrive
<1> QED
  BY <1>1, <1>2

\* A read either looks something up or refuses with a true answer.
LEMMA ReadIsLookUp ==
    ASSUME IInv, QuestionInv, NEW r \in Requests, ReadOwner(r) \/ ReadTarget(r) \/ LockOrg(r)
    PROVE  Atomic!LookUpOwner(r) \/ Atomic!LookUpMember(r) \/ Atomic!Refuse(r)
<1> USE NoneIsNobody
    DEF QuestionInv, Goto, Finish, tenant, input, Atomic!Waiting, Atomic!Answer,
        Atomic!tenant, Atomic!question, Atomic!view
<1>1. CASE ReadOwner(r)
  BY <1>1 DEF ReadOwner, Atomic!LookUpOwner, Atomic!Refuse
<1>2. CASE ReadTarget(r)
  BY <1>2 DEF ReadTarget, IInv, ManageInv, Atomic!LookUpMember, Atomic!Refuse
<1>3. CASE LockOrg(r)
  BY <1>3 DEF LockOrg, Atomic!LookUpOwner, Atomic!Refuse
<1> QED
  BY <1>1, <1>2, <1>3

\* A role change or removal takes effect when it commits, on the membership it
\* has found or on none.
LEMMA CommitIsManage ==
    ASSUME IInv, QuestionInv, WriteInv, NEW r \in Requests, ManageCommit(r)
    PROVE  Atomic!Manage(r) \/ Atomic!Refuse(r)
<1>1. /\ pc[r] = "audit" /\ op[r] \in {"update", "remove"} /\ target[r] \in Users
      /\ reply[r] = "none" /\ seenId[r] # 0
      /\ Matches(r) <=> rowLock[target[r]] = r
  BY DEF ManageCommit, IInv, TypeOK, ManageInv, QuestionInv, WriteInv
<1> QED
  BY <1>1 DEF ManageCommit, Matches, Finish, tenant, input, view, Atomic!Manage, Atomic!Refuse,
     Atomic!Waiting, Atomic!Answer, Atomic!tenant, Atomic!question, Atomic!view

\* A transfer takes effect when it commits: what it has read under its locks is
\* still so.
LEMMA CommitIsTransfer ==
    ASSUME IInv, QuestionInv, WriteInv, NEW r \in Requests, TransferCommit(r)
    PROVE  Atomic!Transfer(r)
<1>1. /\ pc[r] = "transfer" /\ orgLock = r /\ op[r] = "transfer" /\ reply[r] = "none"
  BY DEF TransferCommit, IInv, OrgLockInv, QuestionInv
<1>2. /\ org = "live" /\ seen[r] = owner /\ owner \in Users
      /\ target[r] # owner /\ role[target[r]] # None
  BY <1>1 DEF IInv, TransferInv, OwnerInv
<1>3. rowLock[owner] = r <=> role[owner] # None
  BY <1>1, <1>2, NoneIsNobody DEF IInv, DemoteInv, WriteInv
<1> QED
  BY <1>1, <1>2, <1>3 DEF TransferCommit, Finish, input, view, Atomic!Transfer,
     Atomic!Waiting, Atomic!Answer, Atomic!question, Atomic!view

\* So does a deletion.
LEMMA CommitIsDelete ==
    ASSUME IInv, QuestionInv, NEW r \in Requests, DeleteCommit(r)
    PROVE  Atomic!Delete(r)
BY DEF DeleteCommit, IInv, OrgLockInv, TransferInv, QuestionInv, Finish, input, view,
   Atomic!Delete, Atomic!Waiting, Atomic!Answer, Atomic!question, Atomic!view

\* The other statements, and the refusals, change nothing that others see.
LEMMA QuietStatement ==
    ASSUME IInv, QuestionInv, NEW r \in Requests,
           WriteRow(r) \/ LockTarget(r) \/ Demote(r) \/ Abort(r)
    PROVE  Atomic!Refuse(r) \/ UNCHANGED Atomic!vars
<1> USE DEF QuestionInv, Goto, Finish, tenant, input, view, Atomic!Refuse, Atomic!Waiting,
        Atomic!Answer, Atomic!vars, Atomic!tenant, Atomic!question, Atomic!view
<1>1. CASE WriteRow(r)
  BY <1>1 DEF WriteRow
<1>2. CASE LockTarget(r)
  BY <1>2, NoneIsNobody DEF LockTarget, IInv, ManageInv
<1>3. CASE Demote(r)
  BY <1>3 DEF Demote
<1>4. CASE Abort(r)
  BY <1>4 DEF Abort
<1> QED
  BY <1>1, <1>2, <1>3, <1>4

\* Creation and joining are single statements already.
LEMMA WorldIsWorld ==
    ASSUME NEW u \in Users
    PROVE  /\ Create(u) => Atomic!Create(u)
           /\ \A g \in Roles : Join(u, g) => Atomic!Join(u, g)
BY DEF Create, Join, input, view, Atomic!Create, Atomic!Join, Atomic!question, Atomic!view

\* For every number of users and overlapping requests, each role change, removal,
\* transfer and deletion behaves as if it happened at one instant, and its answer
\* is true: the locks, the foreign keys and the writes by id leave nothing else of
\* the interleaving to be seen but the owner and the row looked up before.
THEOREM RequestsAreAtomic == Spec => ActsAtomically
<1>1. Init => Atomic!Init
  BY DEF Init, Atomic!Init
<1>2. IInv /\ (QuestionInv /\ WriteInv) /\ [Next]_vars => [Atomic!Next]_(Atomic!vars)
  <2> SUFFICES ASSUME IInv, QuestionInv, WriteInv, [Next]_vars
               PROVE  Atomic!Next \/ UNCHANGED Atomic!vars
    BY DEF Atomic!vars
  <2>1. CASE UNCHANGED vars
    BY <2>1 DEF vars, tenant, input, view, Atomic!vars, Atomic!tenant, Atomic!question,
       Atomic!view
  <2>2. ASSUME NEW u \in Users, Create(u) \/ \E g \in Roles : Join(u, g) PROVE Atomic!Next
    BY <2>2, WorldIsWorld DEF Atomic!Next, Roles, Atomic!Roles
  <2>3. ASSUME NEW r \in Requests, NEW a \in Users, NEW u \in Users, NEW g \in Roles,
               ManageArrive(r, a, u, g) \/ OwnerArrive(r, a, u)
        PROVE  Atomic!Next
    BY <2>3, ArrivalIsQuestion DEF Atomic!Next, Roles, Atomic!Roles
  <2>4. ASSUME NEW r \in Requests, Step(r) \/ Abort(r)
        PROVE  Atomic!Next \/ UNCHANGED Atomic!vars
    BY <2>4, ReadIsLookUp, CommitIsManage, CommitIsTransfer, CommitIsDelete, QuietStatement
       DEF Step, Atomic!Next
  <2>5. CASE \E r \in Requests, a, u \in Users :
                OwnerArrive(r, a, u) \/ \E g \in Roles : ManageArrive(r, a, u, g)
    BY <2>3, <2>5 DEF Roles
  <2> QED
    BY <2>1, <2>2, <2>4, <2>5 DEF Next
<1> QED
  BY <1>1, <1>2, Invariance, LookUps, PTL DEF Spec, ActsAtomically, Atomic!Spec
=============================================================================
