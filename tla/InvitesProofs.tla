--------------------------- MODULE InvitesProofs ---------------------------
(***************************************************************************)
(* For every set of users, invitations and requests: membership comes from *)
(* a pending invitation only, an ended one stays ended, the counts of      *)
(* deleteRole hold to its DELETE, and an organization takes all with it.   *)
(***************************************************************************)
EXTENDS Invites, TLAPS

\* A createInvite in progress has an addressee and a role to offer.
CreatorInv ==
    \A r \in Requests : pc[r] \in {"expire", "insert", "refer", "created"} =>
        user[r] \in Users /\ offer[r] \in Roles

\* Past its SELECT FOR UPDATE or UPDATE a request holds the invitation, and an
\* acceptance has found it in time, its addressee's and with the role it carries.
SubjectInv ==
    \A r \in Requests :
        /\ pc[r] \in {"revoke", "revoked", "accept", "member", "join", "joined"} =>
              invite[r] \in Ids /\ status[invite[r]] # "unused"
        /\ pc[r] \in {"accept", "member", "join", "joined"} => user[r] \in Users
        /\ pc[r] \in {"revoked", "member", "join", "joined"} => rowLock[invite[r]] = r
        /\ pc[r] \in {"member", "join", "joined"} =>
              /\ timely[r] /\ to[invite[r]] = user[r]
              /\ offer[r] = grants[invite[r]] /\ offer[r] \in Roles

\* An invitation that the retention worker has locked is old and in the table; one
\* that a request has locked is pending, and the request about to end it, unless
\* it goes with the organization.
RowInv ==
    \A i \in Ids : rowLock[i] # None =>
        \/ rowLock[i] = Retention /\ ret = "delete" /\ i \in Kept /\ age[i] = "old"
        \/ rowLock[i] \in Requests /\ pc[rowLock[i]] = "cascade" /\ i \in Kept
        \/ /\ rowLock[i] \in Requests /\ status[i] = "pending"
           /\ \/ pc[rowLock[i]] \in {"insert", "refer", "created"}
              \/ /\ pc[rowLock[i]] \in {"revoked", "member", "join", "joined"}
                 /\ invite[rowLock[i]] = i

\* Every invitation in the table has an addressee and a role.
MadeInv == \A i \in Kept : to[i] \in Users /\ grants[i] \in Roles

\* The role and the organization are locked exactly by the deletion in progress,
\* and are there.
DeleterInv ==
    \A r \in Requests :
        /\ pc[r] \in {"countMembers", "countInvites", "audit", "drop"} <=> roleLock = r
        /\ roleLock = r => roleExists
        /\ pc[r] = "cascade" <=> orgLock = r
        /\ orgLock = r => org

\* What a row inserted but not committed refers to is there and not locked.
ShareInv ==
    \A r \in Requests :
        /\ pc[r] \in {"created", "joined"} => org /\ orgLock = None
        /\ SharesRole(r) => roleExists /\ roleLock = None

\* Past the first count of deleteRole there is no member with the role.
CountInv ==
    \A r \in Requests : pc[r] \in {"countInvites", "audit", "drop"} =>
        \A u \in Users : member[u] # "custom"

IInv ==
    /\ TypeOK
    /\ CreatorInv /\ SubjectInv /\ RowInv /\ MadeInv
    /\ DeleterInv /\ ShareInv /\ CountInv /\ CountsHold
    /\ NothingSurvivesDeletion

-----------------------------------------------------------------------------
\* An organization without invitations satisfies the inductive invariant.
LEMMA InitInv == Init => IInv
BY NamesDistinct, RolesKnown DEF Init, IInv, Kept, TypeOK, CreatorInv, SubjectInv, RowInv,
   MadeInv, DeleterInv,
   ShareInv, SharesRole, CountInv, CountsHold, NothingSurvivesDeletion, Ended

\* The end of a transaction leaves locks, control and input well-typed.
LEMMA FinishType ==
    ASSUME TypeOK, NEW r \in Requests, Finish(r)
    PROVE  /\ orgLock' \in Requests \cup {None}
           /\ roleLock' \in Requests \cup {None}
           /\ rowLock' \in [Ids -> Requests \cup {Retention, None}]
           /\ pc' \in [Requests ->
                 {"idle", "expire", "insert", "refer", "created", "revoke", "revoked",
                  "accept", "member", "join", "joined", "lockRole", "countMembers",
                  "countInvites", "audit", "drop", "lockOrg", "cascade"}]
           /\ invite' \in [Requests -> Ids \cup {None}]
           /\ user' \in [Requests -> Users \cup {None}]
           /\ offer' \in [Requests -> Roles \cup {None}]
           /\ timely' \in [Requests -> BOOLEAN]
BY DEF TypeOK, Finish, Release

\* A statement that completes waits for nobody.
LEMMA NoWait ==
    ASSUME NEW r \in Requests, NEW p, At(r, p)
    PROVE  /\ pc[r] = p
           /\ \A h \in Requests \cup {Retention} : h # r => ~WaitsForRow(r, h)
           /\ \A x \in Requests : x # r => ~WaitsForRequest(r, x)
BY NamesDistinct DEF At, WaitsFor

\* The arrival of a creation changes no row.
LEMMA CreateInviteStep ==
    ASSUME IInv, NEW r \in Requests, NEW u \in Users, NEW g \in Roles, CreateInvite(r, u, g)
    PROVE  IInv'
<1> USE NamesDistinct, RolesKnown
    DEF IInv, Kept, tenant, invites, locks, input, worker, CreateInvite, Arrive
<1>1. TypeOK'
  BY DEF TypeOK, CreatorInv, SubjectInv, Ended
<1>2. CreatorInv'
  BY DEF TypeOK, CreatorInv, SubjectInv, RowInv, Ended
<1>3. SubjectInv' /\ RowInv' /\ MadeInv' /\ DeleterInv' /\ ShareInv' /\ CountInv' /\
      CountsHold' /\ NothingSurvivesDeletion'
  BY DEF TypeOK, CreatorInv, SubjectInv, RowInv, MadeInv, Ended, DeleterInv, ShareInv,
     SharesRole, SharesOrg, CountInv, CountsHold, NothingSurvivesDeletion
<1> QED
  BY <1>1, <1>2, <1>3

\* The UPDATE takes rows that are pending and free.
LEMMA ExpireLapsedStep ==
    ASSUME IInv, NEW r \in Requests, ExpireLapsed(r)
    PROVE  IInv'
<1> USE NamesDistinct, RolesKnown
    DEF IInv, Kept, tenant, invites, locks, input, worker, ExpireLapsed, Goto
<1>0. \A i \in Lapsed(user[r]) : status[i] = "pending" /\ rowLock[i] \in {None, r}
  BY NoWait DEF WaitsForRow, Wanted, TypeOK, Lapsed
<1>1. TypeOK'
  BY <1>0 DEF At, TypeOK, CreatorInv, SubjectInv, Ended
<1>2. RowInv'
  BY <1>0 DEF At, TypeOK, CreatorInv, SubjectInv, RowInv, Ended
<1>3. CreatorInv' /\ SubjectInv' /\ MadeInv' /\ DeleterInv' /\ ShareInv' /\ CountInv' /\
      CountsHold' /\ NothingSurvivesDeletion'
  BY <1>0 DEF At, TypeOK, CreatorInv, SubjectInv, RowInv, Ended, MadeInv, DeleterInv,
     ShareInv, SharesRole, SharesOrg, CountInv, CountsHold, NothingSurvivesDeletion
<1> QED
  BY <1>1, <1>2, <1>3

\* An insertion that meets a pending invitation ends its transaction.
LEMMA InsertInviteStep ==
    ASSUME IInv, NEW r \in Requests, InsertInvite(r)
    PROVE  IInv'
<1> USE NamesDistinct, RolesKnown
    DEF IInv, Kept, tenant, invites, locks, input, worker, InsertInvite, Goto
<1>1. TypeOK'
  BY FinishType DEF At, TypeOK, CreatorInv, SubjectInv, Ended
<1>2. CreatorInv' /\ SubjectInv' /\ RowInv' /\ MadeInv' /\ DeleterInv' /\ ShareInv' /\
      CountInv' /\ CountsHold' /\ NothingSurvivesDeletion'
  BY DEF Finish, Release, At, TypeOK, CreatorInv, SubjectInv, RowInv, Ended, MadeInv, DeleterInv,
     ShareInv, SharesRole, SharesOrg, CountInv, CountsHold, NothingSurvivesDeletion
<1> QED
  BY <1>1, <1>2

\* The foreign keys find the organization and the role, locked by nobody.
LEMMA ReferInviteStep ==
    ASSUME IInv, NEW r \in Requests, ReferInvite(r)
    PROVE  IInv'
<1> USE NamesDistinct, RolesKnown
    DEF IInv, Kept, tenant, invites, locks, input, worker, ReferInvite, Goto, Refers
<1>0. orgLock = None /\ (offer[r] = "custom" => roleLock = None)
  BY NoWait DEF WaitsForRequest, TypeOK, DeleterInv
<1>1. TypeOK'
  BY FinishType, <1>0 DEF At, TypeOK, CreatorInv, SubjectInv, Ended
<1>2. ShareInv'
  BY <1>0 DEF Finish, Release, At, TypeOK, DeleterInv, ShareInv, CreatorInv, SubjectInv, SharesRole,
     SharesOrg
<1>3. CreatorInv' /\ SubjectInv' /\ RowInv' /\ MadeInv' /\ DeleterInv' /\ CountInv' /\
      CountsHold' /\ NothingSurvivesDeletion'
  BY <1>0 DEF Finish, Release, At, TypeOK, CreatorInv, SubjectInv, RowInv, Ended, MadeInv,
     DeleterInv, ShareInv, CountInv, SharesRole, CountsHold, NothingSurvivesDeletion
<1> QED
  BY <1>1, <1>2, <1>3

\* A creation that commits has a new identity, and holds pending invitations only.
LEMMA NewIsUnused ==
    ASSUME IInv, NEW r \in Requests, CommitCreate(r)
    PROVE  /\ NewId \in Ids /\ status[NewId] = "unused" /\ rowLock[NewId] = None
           /\ \A i \in Ids : rowLock[i] = r => status[i] = "pending"
<1>1. Unused # {}
  BY DEF CommitCreate
<1>2. NewId \in Unused
  BY <1>1 DEF NewId
<1>3. NewId \in Ids /\ status[NewId] = "unused"
  BY <1>2 DEF Unused
<1>4. rowLock[NewId] = None
  BY <1>3 DEF IInv, RowInv, Kept, Ended
<1>5. \A i \in Ids : rowLock[i] = r => status[i] = "pending"
  BY NamesDistinct DEF CommitCreate, At, IInv, RowInv
<1> QED
  BY <1>3, <1>4, <1>5

\* The invitation appears, and the lapsed one it replaces expires, at once.
LEMMA CommitCreateStep ==
    ASSUME IInv, NEW r \in Requests, CommitCreate(r)
    PROVE  IInv'
<1> USE NamesDistinct, RolesKnown
    DEF IInv, Kept, tenant, invites, locks, input, worker, CommitCreate
<1>0. NewId \in Ids /\ status[NewId] = "unused"
  BY NewIsUnused
<1>1. TypeOK'
  BY FinishType, <1>0 DEF At, TypeOK, CreatorInv, SubjectInv, Ended
<1>2. RowInv'
  BY <1>0 DEF Finish, Release, At, TypeOK, CreatorInv, SubjectInv, RowInv, Ended
<1>3. MadeInv'
  BY <1>0 DEF Finish, Release, At, TypeOK, CreatorInv, SubjectInv, RowInv, MadeInv, Ended
<1>4. CountsHold'
  BY <1>0 DEF Finish, Release, At, TypeOK, DeleterInv, ShareInv, CountInv, CountsHold, CreatorInv,
     SubjectInv, SharesRole
<1>5. CreatorInv' /\ SubjectInv' /\ DeleterInv' /\ ShareInv' /\ CountInv' /\
      NothingSurvivesDeletion'
  BY <1>0 DEF Finish, Release, At, TypeOK, CreatorInv, SubjectInv, RowInv, Ended, MadeInv,
     DeleterInv,
     ShareInv, SharesRole, SharesOrg, CountInv, NothingSurvivesDeletion
<1> QED
  BY <1>1, <1>2, <1>3, <1>4, <1>5

\* The arrival of a revocation changes no row.
LEMMA RevokeInviteStep ==
    ASSUME IInv, NEW r \in Requests, NEW i \in Ids, RevokeInvite(r, i)
    PROVE  IInv'
<1> USE NamesDistinct, RolesKnown
    DEF IInv, Kept, tenant, invites, locks, input, worker, RevokeInvite, Arrive
<1>1. TypeOK'
  BY DEF TypeOK, CreatorInv, SubjectInv, Ended
<1>2. CreatorInv' /\ SubjectInv' /\ RowInv' /\ MadeInv' /\ DeleterInv' /\ ShareInv' /\
      CountInv' /\ CountsHold' /\ NothingSurvivesDeletion'
  BY DEF TypeOK, CreatorInv, SubjectInv, RowInv, Ended, MadeInv, DeleterInv, ShareInv,
     SharesRole, SharesOrg, CountInv, CountsHold, NothingSurvivesDeletion
<1> QED
  BY <1>1, <1>2

\* The UPDATE takes a row that is pending and free.
LEMMA RevokeRowStep ==
    ASSUME IInv, NEW r \in Requests, RevokeRow(r)
    PROVE  IInv'
<1> USE NamesDistinct, RolesKnown
    DEF IInv, Kept, tenant, invites, locks, input, worker, RevokeRow, Goto
<1>0. status[invite[r]] = "pending" => rowLock[invite[r]] \in {None, r}
  BY NoWait DEF WaitsForRow, Wanted, TypeOK, SubjectInv
<1>1. TypeOK'
  BY FinishType, <1>0 DEF At, TypeOK, CreatorInv, SubjectInv, Ended
<1>2. SubjectInv'
  BY <1>0 DEF Finish, Release, At, TypeOK, CreatorInv, SubjectInv, RowInv, MadeInv, Ended
<1>3. RowInv'
  BY <1>0 DEF Finish, Release, At, TypeOK, CreatorInv, SubjectInv, RowInv, Ended
<1>4. CreatorInv' /\ MadeInv' /\ DeleterInv' /\ ShareInv' /\ CountInv' /\ CountsHold' /\
      NothingSurvivesDeletion'
  BY <1>0 DEF Finish, Release, At, TypeOK, CreatorInv, SubjectInv, RowInv, Ended, MadeInv,
     DeleterInv, ShareInv, SharesRole, SharesOrg, CountInv, CountsHold,
     NothingSurvivesDeletion
<1> QED
  BY <1>1, <1>2, <1>3, <1>4

\* A revocation ends the invitation that it holds.
LEMMA CommitRevokeStep ==
    ASSUME IInv, NEW r \in Requests, CommitRevoke(r)
    PROVE  IInv'
<1> USE NamesDistinct, RolesKnown
    DEF IInv, Kept, tenant, invites, locks, input, worker, CommitRevoke
<1>1. TypeOK'
  BY FinishType DEF At, TypeOK, CreatorInv, SubjectInv, Ended
<1>2. SubjectInv'
  BY DEF Finish, Release, At, TypeOK, CreatorInv, SubjectInv, RowInv, MadeInv, Ended
<1>3. CreatorInv' /\ RowInv' /\ MadeInv' /\ DeleterInv' /\ ShareInv' /\ CountInv' /\
      CountsHold' /\ NothingSurvivesDeletion'
  BY DEF Finish, Release, At, TypeOK, CreatorInv, SubjectInv, RowInv, Ended, MadeInv, DeleterInv,
     ShareInv, SharesRole, SharesOrg, CountInv, CountsHold, NothingSurvivesDeletion
<1> QED
  BY <1>1, <1>2, <1>3

\* The arrival of an acceptance changes no row.
LEMMA AcceptInviteStep ==
    ASSUME IInv, NEW r \in Requests, NEW i \in Ids, NEW u \in Users,
           AcceptInvite(r, i, u)
    PROVE  IInv'
<1> USE NamesDistinct, RolesKnown
    DEF IInv, Kept, tenant, invites, locks, input, worker, AcceptInvite, Arrive
<1>1. TypeOK'
  BY DEF TypeOK, CreatorInv, SubjectInv, Ended
<1>2. CreatorInv' /\ SubjectInv' /\ RowInv' /\ MadeInv' /\ DeleterInv' /\ ShareInv' /\
      CountInv' /\ CountsHold' /\ NothingSurvivesDeletion'
  BY DEF TypeOK, CreatorInv, SubjectInv, RowInv, Ended, MadeInv, DeleterInv, ShareInv,
     SharesRole, SharesOrg, CountInv, CountsHold, NothingSurvivesDeletion
<1> QED
  BY <1>1, <1>2

\* FOR UPDATE takes a row that is free, and the checks follow it.
LEMMA LockInviteStep ==
    ASSUME IInv, NEW r \in Requests, LockInvite(r)
    PROVE  IInv'
<1> USE NamesDistinct, RolesKnown
    DEF IInv, Kept, tenant, invites, locks, input, worker, LockInvite
<1>0. rowLock[invite[r]] \in {None, r}
  BY NoWait DEF WaitsForRow, Wanted, TypeOK, SubjectInv
<1>1. TypeOK'
  BY FinishType, <1>0 DEF At, TypeOK, CreatorInv, SubjectInv, Ended
<1>2. SubjectInv'
  BY <1>0 DEF Finish, Release, At, TypeOK, CreatorInv, SubjectInv, RowInv, MadeInv, Ended
<1>3. RowInv'
  BY <1>0 DEF Finish, Release, At, TypeOK, CreatorInv, SubjectInv, RowInv, Ended
<1>4. CreatorInv' /\ MadeInv' /\ DeleterInv' /\ ShareInv' /\ CountInv' /\ CountsHold' /\
      NothingSurvivesDeletion'
  BY <1>0 DEF Finish, Release, At, TypeOK, CreatorInv, SubjectInv, RowInv, Ended, MadeInv,
     DeleterInv, ShareInv, SharesRole, SharesOrg, CountInv, CountsHold,
     NothingSurvivesDeletion
<1> QED
  BY <1>1, <1>2, <1>3, <1>4

\* A member's acceptance ends its transaction.
LEMMA ReadMembershipStep ==
    ASSUME IInv, NEW r \in Requests, ReadMembership(r)
    PROVE  IInv'
<1> USE NamesDistinct, RolesKnown
    DEF IInv, Kept, tenant, invites, locks, input, worker, ReadMembership, Goto
<1>1. TypeOK'
  BY FinishType DEF At, TypeOK, CreatorInv, SubjectInv, Ended
<1>2. CreatorInv' /\ SubjectInv' /\ RowInv' /\ MadeInv' /\ DeleterInv' /\ ShareInv' /\
      CountInv' /\ CountsHold' /\ NothingSurvivesDeletion'
  BY DEF Finish, Release, At, TypeOK, CreatorInv, SubjectInv, RowInv, Ended, MadeInv, DeleterInv,
     ShareInv, SharesRole, SharesOrg, CountInv, CountsHold, NothingSurvivesDeletion
<1> QED
  BY <1>1, <1>2

\* The foreign keys find the organization and the role, locked by nobody.
LEMMA InsertMembershipStep ==
    ASSUME IInv, NEW r \in Requests, InsertMembership(r)
    PROVE  IInv'
<1> USE NamesDistinct, RolesKnown
    DEF IInv, Kept, tenant, invites, locks, input, worker, InsertMembership, Goto, Refers
<1>0. orgLock = None /\ (offer[r] = "custom" => roleLock = None)
  BY NoWait DEF WaitsForRequest, TypeOK, DeleterInv
<1>1. TypeOK'
  BY FinishType, <1>0 DEF At, TypeOK, CreatorInv, SubjectInv, Ended
<1>2. ShareInv'
  BY <1>0 DEF Finish, Release, At, TypeOK, DeleterInv, ShareInv, CreatorInv, SubjectInv, SharesRole,
     SharesOrg
<1>3. CreatorInv' /\ SubjectInv' /\ RowInv' /\ MadeInv' /\ DeleterInv' /\ CountInv' /\
      CountsHold' /\ NothingSurvivesDeletion'
  BY <1>0 DEF Finish, Release, At, TypeOK, CreatorInv, SubjectInv, RowInv, Ended, MadeInv,
     DeleterInv, ShareInv, CountInv, SharesRole, CountsHold, NothingSurvivesDeletion
<1> QED
  BY <1>1, <1>2, <1>3

\* The membership appears as the invitation ends.
LEMMA CommitAcceptStep ==
    ASSUME IInv, NEW r \in Requests, CommitAccept(r)
    PROVE  IInv'
<1> USE NamesDistinct, RolesKnown
    DEF IInv, Kept, tenant, invites, locks, input, worker, CommitAccept
<1>1. TypeOK'
  BY FinishType DEF At, TypeOK, CreatorInv, SubjectInv, Ended
<1>2. SubjectInv'
  BY DEF Finish, Release, At, TypeOK, CreatorInv, SubjectInv, RowInv, MadeInv, Ended
<1>3. CountInv'
  BY DEF Finish, Release, At, TypeOK, DeleterInv, ShareInv, CountInv, SubjectInv, SharesRole
<1>4. CreatorInv' /\ RowInv' /\ MadeInv' /\ DeleterInv' /\ ShareInv' /\ CountsHold' /\
      NothingSurvivesDeletion'
  BY DEF Finish, Release, At, TypeOK, CreatorInv, SubjectInv, RowInv, Ended, MadeInv, DeleterInv,
     ShareInv, SharesRole, SharesOrg, CountInv, CountsHold, NothingSurvivesDeletion
<1> QED
  BY <1>1, <1>2, <1>3, <1>4

\* The arrival of a role deletion changes no row.
LEMMA DeleteRoleStep ==
    ASSUME IInv, NEW r \in Requests, DeleteRole(r)
    PROVE  IInv'
<1> USE NamesDistinct, RolesKnown
    DEF IInv, Kept, tenant, invites, locks, input, worker, DeleteRole, Arrive
<1>1. TypeOK'
  BY DEF TypeOK, CreatorInv, SubjectInv, Ended
<1>2. CreatorInv' /\ SubjectInv' /\ RowInv' /\ MadeInv' /\ DeleterInv' /\ ShareInv' /\
      CountInv' /\ CountsHold' /\ NothingSurvivesDeletion'
  BY DEF TypeOK, CreatorInv, SubjectInv, RowInv, Ended, MadeInv, DeleterInv, ShareInv,
     SharesRole, SharesOrg, CountInv, CountsHold, NothingSurvivesDeletion
<1> QED
  BY <1>1, <1>2

\* FOR UPDATE is granted when no uncommitted row refers to the role.
LEMMA LockRoleStep ==
    ASSUME IInv, NEW r \in Requests, LockRole(r)
    PROVE  IInv'
<1> USE NamesDistinct, RolesKnown
    DEF IInv, Kept, tenant, invites, locks, input, worker, LockRole, Goto
<1>0. roleLock = None /\ \A x \in Requests : ~SharesRole(x)
  BY NoWait DEF WaitsForRequest, TypeOK, DeleterInv, SharesRole
<1>1. TypeOK'
  BY FinishType, <1>0 DEF At, TypeOK, CreatorInv, SubjectInv, Ended
<1>2. DeleterInv'
  BY <1>0 DEF Finish, Release, At, TypeOK, DeleterInv, ShareInv, CreatorInv, SubjectInv
<1>3. ShareInv'
  BY <1>0 DEF Finish, Release, At, TypeOK, DeleterInv, ShareInv, CreatorInv, SubjectInv, SharesRole,
     SharesOrg
<1>4. CreatorInv' /\ SubjectInv' /\ RowInv' /\ MadeInv' /\ CountInv' /\ CountsHold' /\
      NothingSurvivesDeletion'
  BY <1>0 DEF Finish, Release, At, TypeOK, CreatorInv, SubjectInv, RowInv, Ended, MadeInv,
     DeleterInv, ShareInv, CountInv, SharesRole, CountsHold, NothingSurvivesDeletion
<1> QED
  BY <1>1, <1>2, <1>3, <1>4

\* Members found end the deletion; later ones need the role unlocked.
LEMMA CountMembersStep ==
    ASSUME IInv, NEW r \in Requests, CountMembers(r)
    PROVE  IInv'
<1> USE NamesDistinct, RolesKnown
    DEF IInv, Kept, tenant, invites, locks, input, worker, CountMembers, Goto
<1>1. TypeOK'
  BY FinishType DEF At, TypeOK, CreatorInv, SubjectInv, Ended
<1>2. CountInv'
  BY DEF Finish, Release, At, TypeOK, DeleterInv, ShareInv, CountInv, SubjectInv, SharesRole
<1>3. CreatorInv' /\ SubjectInv' /\ RowInv' /\ MadeInv' /\ DeleterInv' /\ ShareInv' /\
      CountsHold' /\ NothingSurvivesDeletion'
  BY DEF Finish, Release, At, TypeOK, CreatorInv, SubjectInv, RowInv, Ended, MadeInv, DeleterInv,
     ShareInv, SharesRole, SharesOrg, CountInv, CountsHold, NothingSurvivesDeletion
<1> QED
  BY <1>1, <1>2, <1>3

\* Pending invitations found end the deletion; later ones need the role unlocked.
LEMMA CountInvitesStep ==
    ASSUME IInv, NEW r \in Requests, CountInvites(r)
    PROVE  IInv'
<1> USE NamesDistinct, RolesKnown
    DEF IInv, Kept, tenant, invites, locks, input, worker, CountInvites, Goto
<1>1. TypeOK'
  BY FinishType DEF At, TypeOK, CreatorInv, SubjectInv, Ended
<1>2. CountsHold'
  BY DEF Finish, Release, At, TypeOK, DeleterInv, ShareInv, CountInv, CountsHold, CreatorInv,
     SubjectInv, SharesRole
<1>3. CreatorInv' /\ SubjectInv' /\ RowInv' /\ MadeInv' /\ DeleterInv' /\ ShareInv' /\
      CountInv' /\ NothingSurvivesDeletion'
  BY DEF Finish, Release, At, TypeOK, CreatorInv, SubjectInv, RowInv, Ended, MadeInv, DeleterInv,
     ShareInv, SharesRole, SharesOrg, CountInv, NothingSurvivesDeletion
<1> QED
  BY <1>1, <1>2, <1>3

\* The audit record refers to the organization and changes nothing here.
LEMMA AuditDeletionStep ==
    ASSUME IInv, NEW r \in Requests, AuditDeletion(r)
    PROVE  IInv'
<1> USE NamesDistinct, RolesKnown
    DEF IInv, Kept, tenant, invites, locks, input, worker, AuditDeletion, Goto
<1>1. TypeOK'
  BY DEF At, TypeOK, CreatorInv, SubjectInv, Ended
<1>2. CreatorInv' /\ SubjectInv' /\ RowInv' /\ MadeInv' /\ DeleterInv' /\ ShareInv' /\
      CountInv' /\ CountsHold' /\ NothingSurvivesDeletion'
  BY DEF At, TypeOK, CreatorInv, SubjectInv, RowInv, Ended, MadeInv, DeleterInv, ShareInv,
     SharesRole, SharesOrg, CountInv, CountsHold, NothingSurvivesDeletion
<1> QED
  BY <1>1, <1>2

\* The role that is dropped is nobody's.
LEMMA DropRoleStep ==
    ASSUME IInv, NEW r \in Requests, DropRole(r)
    PROVE  IInv'
<1> USE NamesDistinct, RolesKnown
    DEF IInv, Kept, tenant, invites, locks, input, worker, DropRole
<1>1. TypeOK'
  BY FinishType DEF At, TypeOK, CreatorInv, SubjectInv, Ended
<1>2. DeleterInv'
  BY DEF Finish, Release, At, TypeOK, DeleterInv, ShareInv, CreatorInv, SubjectInv
<1>3. ShareInv'
  BY DEF Finish, Release, At, TypeOK, DeleterInv, ShareInv, CreatorInv, SubjectInv, SharesRole,
     SharesOrg
<1>4. CreatorInv' /\ SubjectInv' /\ RowInv' /\ MadeInv' /\ CountInv' /\ CountsHold' /\
      NothingSurvivesDeletion'
  BY DEF Finish, Release, At, TypeOK, CreatorInv, SubjectInv, RowInv, Ended, MadeInv, DeleterInv,
     ShareInv, CountInv, SharesRole, CountsHold, NothingSurvivesDeletion
<1> QED
  BY <1>1, <1>2, <1>3, <1>4

\* The arrival of a deletion changes no row.
LEMMA DeleteOrganizationStep ==
    ASSUME IInv, NEW r \in Requests, DeleteOrganization(r)
    PROVE  IInv'
<1> USE NamesDistinct, RolesKnown
    DEF IInv, Kept, tenant, invites, locks, input, worker, DeleteOrganization, Arrive
<1>1. TypeOK'
  BY DEF TypeOK, CreatorInv, SubjectInv, Ended
<1>2. CreatorInv' /\ SubjectInv' /\ RowInv' /\ MadeInv' /\ DeleterInv' /\ ShareInv' /\
      CountInv' /\ CountsHold' /\ NothingSurvivesDeletion'
  BY DEF TypeOK, CreatorInv, SubjectInv, RowInv, Ended, MadeInv, DeleterInv, ShareInv,
     SharesRole, SharesOrg, CountInv, CountsHold, NothingSurvivesDeletion
<1> QED
  BY <1>1, <1>2

\* FOR UPDATE is granted when no uncommitted row refers to the organization.
LEMMA LockOrganizationStep ==
    ASSUME IInv, NEW r \in Requests, LockOrganization(r)
    PROVE  IInv'
<1> USE NamesDistinct, RolesKnown
    DEF IInv, Kept, tenant, invites, locks, input, worker, LockOrganization, Goto
<1>0. orgLock = None /\ \A x \in Requests : ~SharesOrg(x)
  BY NoWait DEF WaitsForRequest, TypeOK, DeleterInv, SharesOrg
<1>1. TypeOK'
  BY FinishType, <1>0 DEF At, TypeOK, CreatorInv, SubjectInv, Ended
<1>2. DeleterInv'
  BY <1>0 DEF Finish, Release, At, TypeOK, DeleterInv, ShareInv, CreatorInv, SubjectInv
<1>3. ShareInv'
  BY <1>0 DEF Finish, Release, At, TypeOK, DeleterInv, ShareInv, CreatorInv, SubjectInv, SharesRole,
     SharesOrg
<1>4. CreatorInv' /\ SubjectInv' /\ RowInv' /\ MadeInv' /\ CountInv' /\ CountsHold' /\
      NothingSurvivesDeletion'
  BY <1>0 DEF Finish, Release, At, TypeOK, CreatorInv, SubjectInv, RowInv, Ended, MadeInv,
     DeleterInv, ShareInv, CountInv, SharesRole, CountsHold, NothingSurvivesDeletion
<1> QED
  BY <1>1, <1>2, <1>3, <1>4

\* The cascade takes an invitation that is free.
LEMMA CascadeRowStep ==
    ASSUME IInv, NEW r \in Requests, NEW i \in Ids, CascadeRow(r, i)
    PROVE  IInv'
<1> USE NamesDistinct, RolesKnown
    DEF IInv, Kept, tenant, invites, locks, input, worker, CascadeRow
<1>1. TypeOK'
  BY DEF TypeOK
<1>2. SubjectInv'
  BY DEF TypeOK, SubjectInv
<1>3. RowInv'
  BY DEF TypeOK, RowInv
<1>4. CreatorInv' /\ MadeInv' /\ DeleterInv' /\ ShareInv' /\ CountInv' /\ CountsHold' /\
      NothingSurvivesDeletion'
  BY DEF TypeOK, CreatorInv, MadeInv, DeleterInv, ShareInv, SharesRole, CountInv, CountsHold,
     NothingSurvivesDeletion
<1> QED
  BY <1>1, <1>2, <1>3, <1>4

\* With every lock that it needs the cascade takes all rows.
LEMMA CascadeStep ==
    ASSUME IInv, NEW r \in Requests, Cascade(r)
    PROVE  IInv'
<1> USE NamesDistinct, RolesKnown
    DEF IInv, Kept, tenant, invites, locks, input, worker, Cascade, Delete
<1>0. roleLock = None /\ \A i \in Ids : rowLock[i] \in {None, r}
  BY DEF At, WaitsFor, WaitsForRequest, TypeOK, DeleterInv, RowInv, Ended
<1>1. TypeOK'
  BY FinishType, <1>0 DEF At, TypeOK
<1>2. SubjectInv'
  BY <1>0 DEF Finish, Release, At, TypeOK, SubjectInv, Ended
<1>3. RowInv'
  BY <1>0 DEF Finish, Release, At, TypeOK, RowInv
<1>4. NothingSurvivesDeletion'
  BY DEF TypeOK, NothingSurvivesDeletion, Ended
<1>5. CreatorInv' /\ MadeInv' /\ DeleterInv' /\ ShareInv' /\ CountInv' /\ CountsHold'
  BY <1>0 DEF Finish, Release, At, TypeOK, CreatorInv, SubjectInv, Ended, MadeInv,
     DeleterInv, ShareInv, SharesRole, SharesOrg, CountInv, CountsHold
<1> QED
  BY <1>1, <1>2, <1>3, <1>4, <1>5

\* A member gets the role only while nobody has it locked.
LEMMA ChangeMemberStep ==
    ASSUME IInv, NEW u \in Users, NEW g \in Roles \cup {None}, ChangeMember(u, g)
    PROVE  IInv'
<1> USE NamesDistinct, RolesKnown
    DEF IInv, Kept, tenant, invites, locks, input, worker, ChangeMember
<1>1. TypeOK'
  BY DEF TypeOK, CreatorInv, SubjectInv, Ended
<1>2. CountInv'
  BY DEF TypeOK, DeleterInv, ShareInv, CountInv, SubjectInv, SharesRole
<1>3. CreatorInv' /\ SubjectInv' /\ RowInv' /\ MadeInv' /\ DeleterInv' /\ ShareInv' /\
      CountsHold' /\ NothingSurvivesDeletion'
  BY DEF TypeOK, CreatorInv, SubjectInv, RowInv, Ended, MadeInv, DeleterInv, ShareInv,
     SharesRole, SharesOrg, CountInv, CountsHold, NothingSurvivesDeletion
<1> QED
  BY <1>1, <1>2, <1>3

\* Time changes no status.
LEMMA PassStep ==
    ASSUME IInv, NEW i \in Ids, Pass(i)
    PROVE  IInv'
<1> USE NamesDistinct, RolesKnown
    DEF IInv, Kept, tenant, invites, locks, input, worker, Pass
<1>1. TypeOK'
  BY DEF TypeOK, CreatorInv, SubjectInv, Ended
<1>2. CreatorInv' /\ SubjectInv' /\ RowInv' /\ MadeInv' /\ DeleterInv' /\ ShareInv' /\
      CountInv' /\ CountsHold' /\ NothingSurvivesDeletion'
  BY DEF TypeOK, CreatorInv, SubjectInv, RowInv, Ended, MadeInv, DeleterInv, ShareInv,
     SharesRole, SharesOrg, CountInv, CountsHold, NothingSurvivesDeletion
<1> QED
  BY <1>1, <1>2

\* The batch is a choice and locks nothing yet.
LEMMA RetentionScanStep ==
    ASSUME IInv, RetentionScan
    PROVE  IInv'
<1> USE NamesDistinct, RolesKnown
    DEF IInv, Kept, tenant, invites, locks, input, RetentionScan
<1>1. TypeOK'
  BY DEF TypeOK
<1>2. CreatorInv' /\ SubjectInv' /\ RowInv' /\ MadeInv' /\ DeleterInv' /\ ShareInv' /\
      CountInv' /\ CountsHold' /\ NothingSurvivesDeletion'
  BY DEF TypeOK, CreatorInv, SubjectInv, RowInv, MadeInv, DeleterInv, ShareInv,
     SharesRole, CountInv, CountsHold, NothingSurvivesDeletion
<1> QED
  BY <1>1, <1>2

\* Retention takes a row that is free and old, and makes no other use of it.
LEMMA RetentionDeleteStep ==
    ASSUME IInv, NEW i \in Ids, RetentionDelete(i)
    PROVE  IInv'
<1> USE NamesDistinct, RolesKnown
    DEF IInv, Kept, tenant, invites, locks, input, RetentionDelete
<1>1. TypeOK'
  BY DEF TypeOK
<1>2. SubjectInv'
  BY DEF TypeOK, SubjectInv
<1>3. RowInv'
  BY DEF TypeOK, RowInv
<1>4. CreatorInv' /\ MadeInv' /\ DeleterInv' /\ ShareInv' /\ CountInv' /\ CountsHold' /\
      NothingSurvivesDeletion'
  BY DEF TypeOK, CreatorInv, MadeInv, DeleterInv, ShareInv, SharesRole, CountInv, CountsHold,
     NothingSurvivesDeletion
<1> QED
  BY <1>1, <1>2, <1>3, <1>4

\* The rows that go are those that retention holds: nobody else's.
LEMMA RetentionCommitStep ==
    ASSUME IInv, RetentionCommit
    PROVE  IInv'
<1> USE NamesDistinct, RolesKnown
    DEF IInv, Kept, tenant, invites, locks, input, RetentionCommit, Release, Delete
<1>1. TypeOK'
  BY DEF TypeOK
<1>2. SubjectInv'
  BY DEF TypeOK, SubjectInv
<1>3. RowInv'
  BY DEF TypeOK, RowInv
<1>4. CountsHold'
  BY DEF TypeOK, CountsHold, SharesRole
<1>5. CreatorInv' /\ MadeInv' /\ DeleterInv' /\ ShareInv' /\ CountInv' /\
      NothingSurvivesDeletion'
  BY DEF TypeOK, CreatorInv, MadeInv, Ended, DeleterInv, ShareInv, SharesRole, CountInv,
     NothingSurvivesDeletion
<1> QED
  BY <1>1, <1>2, <1>3, <1>4, <1>5

\* A batch that fails gives its rows back.
LEMMA RetentionAbortStep ==
    ASSUME IInv, RetentionAbort
    PROVE  IInv'
<1> USE NamesDistinct, RolesKnown
    DEF IInv, Kept, tenant, invites, locks, input, RetentionAbort, Release
<1>1. TypeOK'
  BY DEF TypeOK
<1>2. SubjectInv'
  BY DEF TypeOK, SubjectInv
<1>3. RowInv'
  BY DEF TypeOK, RowInv
<1>4. CreatorInv' /\ MadeInv' /\ DeleterInv' /\ ShareInv' /\ CountInv' /\ CountsHold' /\
      NothingSurvivesDeletion'
  BY DEF TypeOK, CreatorInv, MadeInv, DeleterInv, ShareInv, SharesRole, CountInv, CountsHold,
     NothingSurvivesDeletion
<1> QED
  BY <1>1, <1>2, <1>3, <1>4

\* A transaction that is rolled back gives its locks back and changes nothing.
LEMMA AbortStep ==
    ASSUME IInv, NEW r \in Requests, Abort(r)
    PROVE  IInv'
<1> USE NamesDistinct, RolesKnown
    DEF IInv, Kept, tenant, invites, locks, input, worker, Abort
<1>1. TypeOK'
  BY FinishType DEF TypeOK, CreatorInv, SubjectInv, Ended
<1>2. RowInv'
  BY DEF Finish, Release, TypeOK, CreatorInv, SubjectInv, RowInv, Ended
<1>3. DeleterInv'
  BY DEF Finish, Release, TypeOK, DeleterInv, ShareInv, CreatorInv, SubjectInv
<1>4. CreatorInv' /\ SubjectInv' /\ MadeInv' /\ ShareInv' /\ CountInv' /\ CountsHold' /\
      NothingSurvivesDeletion'
  BY DEF Finish, Release, TypeOK, CreatorInv, SubjectInv, RowInv, Ended, MadeInv, DeleterInv,
     ShareInv, SharesRole, SharesOrg, CountInv, CountsHold, NothingSurvivesDeletion
<1> QED
  BY <1>1, <1>2, <1>3, <1>4

-----------------------------------------------------------------------------
\* A stuttering step preserves the inductive invariant.
LEMMA StutterInv == IInv /\ UNCHANGED vars => IInv'
BY DEF IInv, Kept, vars, tenant, invites, locks, input, worker, TypeOK, CreatorInv,
   SubjectInv, RowInv,
   MadeInv, DeleterInv, ShareInv, SharesRole, CountInv, CountsHold, NothingSurvivesDeletion

\* So does every step of Next.
LEMMA StepInv == IInv /\ [Next]_vars => IInv'
<1> SUFFICES ASSUME IInv, [Next]_vars PROVE IInv'
  OBVIOUS
<1>1. CASE \E r \in Requests, i \in Ids :
              RevokeInvite(r, i) \/ \E u \in Users : AcceptInvite(r, i, u)
  BY <1>1, RevokeInviteStep, AcceptInviteStep
<1>2. CASE \E r \in Requests, u \in Users, g \in Roles : CreateInvite(r, u, g)
  BY <1>2, CreateInviteStep
<1>3. CASE \E r \in Requests : DeleteRole(r) \/ DeleteOrganization(r) \/ Abort(r)
  BY <1>3, DeleteRoleStep, DeleteOrganizationStep, AbortStep
<1>4. CASE \E r \in Requests : Step(r)
  BY <1>4, ExpireLapsedStep, InsertInviteStep, ReferInviteStep, CommitCreateStep,
     RevokeRowStep, CommitRevokeStep, LockInviteStep, ReadMembershipStep,
     InsertMembershipStep, CommitAcceptStep, LockRoleStep, CountMembersStep,
     CountInvitesStep, AuditDeletionStep, DropRoleStep, LockOrganizationStep,
     CascadeRowStep, CascadeStep DEF Step
<1>5. CASE \E u \in Users, g \in Roles \cup {None} : ChangeMember(u, g)
  BY <1>5, ChangeMemberStep
<1>6. CASE \E i \in Ids : Pass(i)
  BY <1>6, PassStep
<1>7. CASE RetentionScan \/ RetentionStep \/ RetentionAbort
  BY <1>7, RetentionScanStep, RetentionDeleteStep, RetentionCommitStep, RetentionAbortStep
     DEF RetentionStep
<1>8. CASE UNCHANGED vars
  BY <1>8, StutterInv
<1> QED
  BY <1>1, <1>2, <1>3, <1>4, <1>5, <1>6, <1>7, <1>8 DEF Next

\* The steps of requests that leave the memberships and statuses alone.
LEMMA QuietStep ==
    ASSUME NEW r \in Requests, Step(r), ~CommitCreate(r), ~CommitRevoke(r),
           ~CommitAccept(r), ~Cascade(r)
    PROVE  UNCHANGED <<member, status>>
BY DEF Step, tenant, invites, ExpireLapsed, InsertInvite, ReferInvite, RevokeRow, LockInvite,
   ReadMembership, InsertMembership, LockRole, CountMembers, CountInvites, AuditDeletion,
   DropRole, LockOrganization, CascadeRow

\* So do arrivals, rollbacks and the passing of time.
LEMMA QuietNext ==
    ASSUME Next, ~\E r \in Requests : Step(r), ~RetentionCommit,
           ~\E u \in Users, g \in Roles \cup {None} : ChangeMember(u, g)
    PROVE  UNCHANGED <<member, status>>
BY DEF Next, tenant, invites, RevokeInvite, AcceptInvite, CreateInvite, DeleteRole,
   DeleteOrganization, Arrive, Abort, Pass, RetentionScan, RetentionStep, RetentionDelete,
   RetentionAbort

-----------------------------------------------------------------------------
\* IInv holds in every reachable state: requests hold what they have read until
\* they commit, and the deletions exclude whoever refers to what they delete.
THEOREM Invariance == Spec => []IInv
<1>1. Init => IInv
  BY InitInv
<1>2. IInv /\ [Next]_vars => IInv'
  BY StepInv
<1> QED
  BY <1>1, <1>2, PTL DEF Spec

\* The type invariant of Invites.
THEOREM TypeCorrect == Spec => []TypeOK
<1>1. IInv => TypeOK
  BY DEF IInv
<1> QED
  BY <1>1, Invariance, PTL

\* However many requests overlap, what deleteRole has counted stays true until
\* its DELETE.
THEOREM CountsStayTrue == Spec => []CountsHold
<1>1. IInv => CountsHold
  BY DEF IInv
<1> QED
  BY <1>1, Invariance, PTL

\* However many requests overlap, the foreign keys that restrict deleteRole's DELETE
\* have nothing else to refuse than invitations that have ended: those are what
\* its counts leave out.
THEOREM OnlyEndedRefer ==
    Spec => [](\A r \in Requests :
                  pc[r] = "drop" => Referring \subseteq {i \in Ids : status[i] \in Ended})
<1>1. IInv => \A r \in Requests :
                  pc[r] = "drop" => Referring \subseteq {i \in Ids : status[i] \in Ended}
  BY DEF IInv, CountsHold, Referring, Kept, Ended
<1> QED
  BY <1>1, Invariance, PTL

\* Whatever overlaps the deletion of an organization, no invitation, membership
\* or role of it is left.
THEOREM DeletionComplete == Spec => []NothingSurvivesDeletion
<1>1. IInv => NothingSurvivesDeletion
  BY DEF IInv
<1> QED
  BY <1>1, Invariance, PTL

\* However many acceptances, revocations and deletions overlap, a membership
\* comes from one pending invitation, which it ends.
THEOREM MembersWereInvited == Spec => JoinOnlyByInvite
<1>1. IInv /\ [Next]_vars => [JoinsByInvite]_vars
  <2> SUFFICES ASSUME IInv, Next PROVE JoinsByInvite
    OBVIOUS
  <2>1. ASSUME NEW r \in Requests, CommitAccept(r) PROVE JoinsByInvite
    <3> SUFFICES ASSUME NEW u \in Users, member[u] = None, member'[u] # None
                 PROVE  \E i \in Ids, x \in Requests :
                            /\ status[i] = "pending" /\ status'[i] = "accepted"
                            /\ invite[x] = i /\ timely[x]
                            /\ to[i] = u /\ member'[u] = grants[i]
      BY DEF JoinsByInvite
    <3>1. u = user[r] /\ member'[u] = offer[r]
      BY <2>1 DEF CommitAccept, IInv, TypeOK
    <3>2. /\ invite[r] \in Ids /\ timely[r] /\ rowLock[invite[r]] = r
          /\ to[invite[r]] = user[r] /\ offer[r] = grants[invite[r]]
      BY <2>1 DEF CommitAccept, At, IInv, SubjectInv
    <3>3. status[invite[r]] = "pending" /\ status'[invite[r]] = "accepted"
      BY <2>1, <3>2, NamesDistinct DEF CommitAccept, At, IInv, TypeOK, RowInv
    <3> QED
      BY <3>1, <3>2, <3>3
  <2>2. ASSUME NEW u \in Users, NEW g \in Roles \cup {None}, ChangeMember(u, g)
        PROVE  JoinsByInvite
    BY <2>2 DEF ChangeMember, JoinsByInvite, IInv, TypeOK
  <2>3. ASSUME NEW r \in Requests, Cascade(r) PROVE JoinsByInvite
    BY <2>3 DEF Cascade, JoinsByInvite
  <2>4. CASE UNCHANGED member
    BY <2>4 DEF JoinsByInvite
  <2>5. ASSUME NEW r \in Requests, CommitCreate(r) \/ CommitRevoke(r) PROVE UNCHANGED member
    BY <2>5 DEF CommitCreate, CommitRevoke, tenant
  <2>6. RetentionCommit => UNCHANGED member
    BY DEF RetentionCommit, tenant
  <2> QED
    BY <2>1, <2>2, <2>3, <2>4, <2>5, <2>6, QuietStep, QuietNext
<1> QED
  BY <1>1, Invariance, PTL DEF Spec, JoinOnlyByInvite

\* However many requests overlap, an invitation that has ended does not come
\* back or end another way.
THEOREM EndsOnce == Spec => EndedIsFinal
<1>1. IInv /\ [Next]_vars => [KeepsEnded]_vars
  <2> SUFFICES ASSUME IInv, Next PROVE KeepsEnded
    OBVIOUS
  <2> USE DEF KeepsEnded, Ended
  <2>1. ASSUME NEW r \in Requests, CommitCreate(r) PROVE KeepsEnded
    BY <2>1, NewIsUnused DEF CommitCreate, IInv, TypeOK
  <2>2. ASSUME NEW r \in Requests, CommitRevoke(r) PROVE KeepsEnded
    BY <2>2, NamesDistinct DEF CommitRevoke, At, IInv, TypeOK, SubjectInv, RowInv
  <2>3. ASSUME NEW r \in Requests, CommitAccept(r) PROVE KeepsEnded
    BY <2>3, NamesDistinct DEF CommitAccept, At, IInv, TypeOK, SubjectInv, RowInv
  <2>4. ASSUME NEW r \in Requests, Cascade(r) PROVE KeepsEnded
    BY <2>4 DEF Cascade, Delete, IInv, TypeOK
  <2>5. RetentionCommit => KeepsEnded
    BY DEF RetentionCommit, Delete, IInv, TypeOK
  <2>6. CASE UNCHANGED status
    BY <2>6
  <2>7. ASSUME NEW u \in Users, NEW g \in Roles \cup {None}, ChangeMember(u, g)
        PROVE  UNCHANGED status
    BY <2>7 DEF ChangeMember, invites
  <2> QED
    BY <2>1, <2>2, <2>3, <2>4, <2>5, <2>6, <2>7, QuietStep, QuietNext
<1> QED
  BY <1>1, Invariance, PTL DEF Spec, EndedIsFinal

-----------------------------------------------------------------------------
(* Every operation is atomic *)

\* What the unique indexes see to until a transaction commits: a createInvite
\* holds the lapsed invitations of its address only, from its INSERT on it holds
\* all the pending ones and nobody else inserts the address; whoever inserts a
\* membership is the only one to do so, and no member.
IndexInv ==
    \A r \in Requests :
        /\ pc[r] \in {"insert", "refer", "created"} =>
              \A i \in Ids : rowLock[i] = r => to[i] = user[r] /\ age[i] # "fresh"
        /\ pc[r] \in {"refer", "created"} =>
              /\ \A i \in Ids : to[i] = user[r] /\ status[i] = "pending" => rowLock[i] = r
              /\ \A x \in Requests \ {r} : pc[x] \in {"refer", "created"} => user[x] # user[r]
        /\ pc[r] = "joined" =>
              /\ member[user[r]] = None
              /\ \A x \in Requests \ {r} : pc[x] = "joined" => user[x] # user[r]

\* Whoever ends its transaction without an effect takes nothing from the others.
LEMMA FinishIndex ==
    ASSUME IInv, IndexInv, NEW r \in Requests, Finish(r), UNCHANGED <<member, status, to, age>>
    PROVE  IndexInv'
BY NamesDistinct DEF IInv, TypeOK, IndexInv, Finish, Release

\* An arrival holds nothing and inserts nothing.
LEMMA ArrivalIndex ==
    ASSUME IInv, IndexInv, NEW r \in Requests,
           \/ DeleteRole(r) \/ DeleteOrganization(r)
           \/ \E i \in Ids : RevokeInvite(r, i) \/ \E u \in Users : AcceptInvite(r, i, u)
           \/ \E u \in Users, g \in Roles : CreateInvite(r, u, g)
    PROVE  IndexInv'
<1>1. ASSUME NEW next \in {"lockRole", "lockOrg", "revoke", "accept", "expire"},
             NEW i, NEW u, NEW g, Arrive(r, next, i, u, g)
      PROVE  IndexInv'
  BY <1>1 DEF Arrive, tenant, invites, locks, IInv, TypeOK, IndexInv
<1> QED
  BY <1>1, Zenon DEF DeleteRole, DeleteOrganization, RevokeInvite, AcceptInvite, CreateInvite

\* The lapsed invitations of the address are free or held already.
LEMMA ExpireIndex ==
    ASSUME IInv, IndexInv, NEW r \in Requests, ExpireLapsed(r)
    PROVE  IndexInv'
<1>1. \A i \in Lapsed(user[r]) : rowLock[i] \in {None, r}
  BY NoWait, NamesDistinct DEF ExpireLapsed, WaitsForRow, Wanted, IInv, TypeOK, Lapsed
<1>2. \A i \in Ids : rowLock[i] # r
  BY NamesDistinct DEF ExpireLapsed, At, IInv, RowInv
<1> QED
  BY <1>1, <1>2, NamesDistinct DEF ExpireLapsed, At, Goto, Lapsed, tenant, invites, input,
     IInv, TypeOK, IndexInv

\* The insertion waits for whoever inserts the address, and then finds no
\* pending invitation but those it holds.
LEMMA InsertIndex ==
    ASSUME IInv, IndexInv, NEW r \in Requests, InsertInvite(r)
    PROVE  IndexInv'
<1>1. CASE Pending(r) # {}
  BY <1>1, FinishIndex DEF InsertInvite, tenant, invites
<1>2. CASE Pending(r) = {}
  BY <1>2, NoWait DEF InsertInvite, WaitsForRequest, Pending, Goto, tenant, invites, locks,
     input, IInv, TypeOK, IndexInv
<1> QED
  BY <1>1, <1>2

\* So does the insertion of a membership.
LEMMA JoinIndex ==
    ASSUME IInv, IndexInv, NEW r \in Requests, InsertMembership(r)
    PROVE  IndexInv'
<1>1. CASE member[user[r]] = None /\ Refers(offer[r])
  BY <1>1, NoWait DEF InsertMembership, WaitsForRequest, Goto, tenant, invites, locks,
     input, IInv, TypeOK, IndexInv
<1> QED
  BY <1>1, FinishIndex DEF InsertMembership, tenant, invites

\* Who takes an invitation to end it takes a free one.
LEMMA TakeIndex ==
    ASSUME IInv, IndexInv, NEW r \in Requests, RevokeRow(r) \/ LockInvite(r)
    PROVE  IndexInv'
<1>1. CASE UNCHANGED <<tenant, invites>> /\ Finish(r)
  BY <1>1, FinishIndex DEF tenant, invites
<1>2. CASE /\ UNCHANGED <<tenant, invites, user>>
           /\ pc[r] \in {"revoke", "accept"}
           /\ \E p \in {"revoked", "member"} : pc' = [pc EXCEPT ![r] = p]
           /\ rowLock' = [rowLock EXCEPT ![invite[r]] = r]
           /\ rowLock[invite[r]] \in {None, r}
  BY <1>2, NamesDistinct DEF tenant, invites, IInv, TypeOK, SubjectInv, RowInv, IndexInv
<1>3. RevokeRow(r) /\ status[invite[r]] = "pending" => rowLock[invite[r]] \in {None, r}
  BY NoWait, NamesDistinct DEF RevokeRow, WaitsForRow, Wanted, IInv, TypeOK, SubjectInv
<1>4. LockInvite(r) => rowLock[invite[r]] \in {None, r}
  BY NoWait, NamesDistinct DEF LockInvite, WaitsForRow, Wanted, IInv, TypeOK, SubjectInv
<1> QED
  BY <1>1, <1>2, <1>3, <1>4 DEF RevokeRow, LockInvite, At, Goto, input

\* The other statements of a request in progress lock no invitation and insert
\* nothing.
LEMMA MoveIndex ==
    ASSUME IInv, IndexInv, NEW r \in Requests,
           \/ ReferInvite(r) \/ ReadMembership(r) \/ LockRole(r) \/ CountMembers(r)
           \/ CountInvites(r) \/ AuditDeletion(r) \/ LockOrganization(r) \/ DropRole(r)
    PROVE  IndexInv'
<1>1. CASE Finish(r)
  BY <1>1, FinishIndex DEF ReferInvite, ReadMembership, LockRole, CountMembers,
     CountInvites, AuditDeletion, LockOrganization, DropRole, tenant, invites
<1>2. CASE /\ UNCHANGED <<member, invites, rowLock, user>>
           /\ \/ pc[r] = "refer" /\ pc' = [pc EXCEPT ![r] = "created"]
              \/ \E p \in {"join", "countMembers", "countInvites", "audit", "drop", "cascade"} :
                    pc' = [pc EXCEPT ![r] = p]
  BY <1>2 DEF invites, IInv, TypeOK, IndexInv
<1> QED
  BY <1>1, <1>2 DEF ReferInvite, ReadMembership, LockRole, CountMembers, CountInvites,
     AuditDeletion, LockOrganization, DropRole, At, Goto, tenant, locks, input

\* A commit changes the invitations that its transaction holds and the one it
\* makes, which is of another address than those about to be made.
LEMMA CommitIndex ==
    ASSUME IInv, IndexInv, NEW r \in Requests,
           CommitCreate(r) \/ CommitRevoke(r) \/ CommitAccept(r) \/ Cascade(r)
    PROVE  IndexInv'
<1> USE NamesDistinct DEF IInv, TypeOK, IndexInv, Finish, Release, At
<1>1. CASE CommitCreate(r)
  <2>1. NewId \in Ids /\ status[NewId] = "unused" /\ rowLock[NewId] = None
    BY <1>1, NewIsUnused
  <2>2. UNCHANGED member /\ pc[r] = "created"
    BY <1>1 DEF CommitCreate, tenant
  <2>3. \A i \in Ids, x \in Requests \ {r} :
           /\ rowLock'[i] = x <=> rowLock[i] = x
           /\ rowLock[i] = x => to'[i] = to[i] /\ age'[i] = age[i] /\ i # NewId
           /\ status'[i] = "pending" => status[i] = "pending" \/ i = NewId
           /\ i # NewId => to'[i] = to[i]
    BY <1>1, <2>1 DEF CommitCreate
  <2>4. to'[NewId] = user[r]
    BY <1>1, <2>1 DEF CommitCreate
  <2>5. \A x \in Requests \ {r} : pc'[x] = pc[x] /\ user'[x] = user[x]
    BY <1>1 DEF CommitCreate
  <2>6. pc'[r] = "idle"
    BY <1>1 DEF CommitCreate
  <2> QED
    BY <2>1, <2>2, <2>3, <2>4, <2>5, <2>6
<1>2. CASE CommitRevoke(r)
  BY <1>2 DEF CommitRevoke, SubjectInv, RowInv, tenant
<1>3. CASE CommitAccept(r)
  BY <1>3 DEF CommitAccept, SubjectInv, RowInv
<1>4. CASE Cascade(r)
  BY <1>4 DEF Cascade, Delete, SubjectInv
<1> QED
  BY <1>1, <1>2, <1>3, <1>4

\* Members, time and retention leave what is locked alone.
LEMMA WorldIndex ==
    ASSUME IInv, IndexInv,
           \/ \E u \in Users, g \in Roles \cup {None} : ChangeMember(u, g)
           \/ \E i \in Ids : Pass(i)
           \/ \E r \in Requests : Abort(r) \/ \E i \in Ids : CascadeRow(r, i)
           \/ RetentionScan \/ RetentionStep \/ RetentionAbort
    PROVE  IndexInv'
<1>1. ASSUME NEW u \in Users, NEW g \in Roles \cup {None}, ChangeMember(u, g) PROVE IndexInv'
  BY <1>1 DEF ChangeMember, invites, locks, input, IInv, TypeOK, IndexInv
<1>2. ASSUME NEW i \in Ids, Pass(i) PROVE IndexInv'
  BY <1>2, NamesDistinct DEF Pass, tenant, locks, input, IInv, TypeOK, RowInv, IndexInv
<1>3. ASSUME NEW r \in Requests, NEW i \in Ids, CascadeRow(r, i) PROVE IndexInv'
  BY <1>3, NamesDistinct DEF CascadeRow, tenant, invites, input, IInv, TypeOK, IndexInv
<1>4. RetentionScan => IndexInv'
  BY DEF RetentionScan, tenant, invites, locks, input, IInv, TypeOK, IndexInv
<1>5. ASSUME NEW i \in Ids, RetentionDelete(i) PROVE IndexInv'
  BY <1>5, NamesDistinct DEF RetentionDelete, tenant, invites, input, IInv, TypeOK, IndexInv
<1>6. RetentionCommit => IndexInv'
  BY NamesDistinct DEF RetentionCommit, Release, Delete, tenant, input, IInv, TypeOK, IndexInv
<1>7. RetentionAbort => IndexInv'
  BY NamesDistinct DEF RetentionAbort, Release, tenant, invites, input, IInv, TypeOK, IndexInv
<1>8. ASSUME NEW r \in Requests, Abort(r) PROVE IndexInv'
  BY <1>8, FinishIndex DEF Abort, tenant, invites
<1> QED
  BY <1>1, <1>2, <1>3, <1>4, <1>5, <1>6, <1>7, <1>8 DEF RetentionStep

\* No interleaving lets two insertions into a unique index pass each other.
LEMMA IndexInvariance == Spec => []IndexInv
<1>1. Init => IndexInv
  BY DEF Init, IndexInv
<1>2. IInv /\ IndexInv /\ [Next]_vars => IndexInv'
  <2> SUFFICES ASSUME IInv, IndexInv, [Next]_vars PROVE IndexInv'
    OBVIOUS
  <2>1. CASE UNCHANGED vars
    BY <2>1 DEF vars, tenant, invites, locks, input, worker, IndexInv
  <2>2. ASSUME NEW r \in Requests, Step(r) PROVE IndexInv'
    BY <2>2, ExpireIndex, InsertIndex, JoinIndex, TakeIndex, MoveIndex, CommitIndex, WorldIndex
       DEF Step
  <2> QED
    BY <2>1, <2>2, ArrivalIndex, WorldIndex DEF Next
<1> QED
  BY <1>1, <1>2, Invariance, PTL DEF Spec

-----------------------------------------------------------------------------
\* A creation replaces the pending invitations of the address: those it holds.
LEMMA CreateIsCreate ==
    ASSUME IInv, IndexInv, NEW r \in Requests, CommitCreate(r)
    PROVE  NewId \in Ids /\ Atomic!Create(NewId, user[r], offer[r])
<1>1. /\ pc[r] = "created" /\ user[r] \in Users /\ offer[r] \in Roles
      /\ NewId \in Ids /\ status[NewId] = "unused"
  BY NewIsUnused DEF CommitCreate, At, IInv, CreatorInv
<1>2. Atomic!PendingTo(user[r]) = {i \in Ids : rowLock[i] = r}
  BY <1>1, NamesDistinct DEF Atomic!PendingTo, IInv, TypeOK, RowInv, IndexInv
<1>3. \A j \in Atomic!PendingTo(user[r]) : age[j] # "fresh"
  BY <1>1, <1>2 DEF IndexInv
<1>4. Atomic!Offered(offer[r])
  BY <1>1 DEF Atomic!Offered, IInv, ShareInv, SharesRole
<1>5. /\ status' = [j \in Ids |-> IF j = NewId THEN "pending"
                                  ELSE IF j \in Atomic!PendingTo(user[r]) THEN "expired"
                                  ELSE status[j]]
      /\ age' = [j \in Ids |-> IF j \in Atomic!PendingTo(user[r]) THEN "fresh" ELSE age[j]]
  BY <1>2 DEF CommitCreate
<1> QED
  BY <1>1, <1>3, <1>4, <1>5
     DEF Atomic!Create, CommitCreate, tenant, Atomic!tenant

\* A revocation ends the pending invitation that it holds.
LEMMA RevokeIsRevoke ==
    ASSUME IInv, NEW r \in Requests, CommitRevoke(r)
    PROVE  invite[r] \in Ids /\ Atomic!Revoke(invite[r])
<1>1. invite[r] \in Ids /\ rowLock[invite[r]] = r
  BY DEF CommitRevoke, At, IInv, SubjectInv
<1>2. status[invite[r]] = "pending"
  BY <1>1, NamesDistinct DEF CommitRevoke, At, IInv, RowInv
<1> QED
  BY <1>1, <1>2 DEF CommitRevoke, tenant, Atomic!Revoke, Atomic!End, Atomic!tenant

\* An acceptance ends the pending invitation that it holds, and its addressee is
\* no member until then, whoever else accepts for the same address.
LEMMA AcceptIsAccept ==
    ASSUME IInv, IndexInv, NEW r \in Requests, CommitAccept(r)
    PROVE  invite[r] \in Ids /\ Atomic!Accept(invite[r])
<1>1. /\ invite[r] \in Ids /\ rowLock[invite[r]] = r /\ pc[r] = "joined"
      /\ to[invite[r]] = user[r] /\ offer[r] = grants[invite[r]]
  BY DEF CommitAccept, At, IInv, SubjectInv
<1>2. status[invite[r]] = "pending"
  BY <1>1, NamesDistinct DEF IInv, RowInv
<1>3. member[user[r]] = None
  BY <1>1 DEF IndexInv
<1>4. Atomic!Offered(offer[r])
  BY <1>1 DEF Atomic!Offered, IInv, ShareInv, SharesRole
<1> QED
  BY <1>1, <1>2, <1>3, <1>4 DEF CommitAccept, Atomic!Accept, Atomic!End

\* The DELETE of the role happens when nothing refers to it, or not at all.
LEMMA DropIsDrop ==
    ASSUME IInv, NEW r \in Requests, DropRole(r)
    PROVE  Atomic!DropRole \/ UNCHANGED Atomic!vars
<1>1. roleExists
  BY DEF DropRole, At, IInv, DeleterInv
<1>2. CASE Referring = {}
  BY <1>2 DEF Referring, Kept, Ended, DropRole, invites, Atomic!DropRole, Atomic!Ended,
     Atomic!invites
<1>3. CASE Referring # {}
  BY <1>1, <1>3 DEF DropRole, invites, Atomic!vars, Atomic!tenant, Atomic!invites
<1> QED
  BY <1>2, <1>3

\* The other statements of a request have no effect.
LEMMA QuietStatement ==
    ASSUME NEW r \in Requests, Step(r), ~CommitCreate(r), ~CommitRevoke(r), ~CommitAccept(r),
           ~DropRole(r), ~Cascade(r)
    PROVE  UNCHANGED Atomic!vars
BY DEF Step, tenant, invites, ExpireLapsed, InsertInvite, ReferInvite, RevokeRow, LockInvite,
   ReadMembership, InsertMembership, LockRole, CountMembers, CountInvites, AuditDeletion,
   LockOrganization, CascadeRow, Atomic!vars, Atomic!tenant, Atomic!invites

\* Neither have arrivals and rollbacks.
LEMMA QuietRequest ==
    ASSUME NEW r \in Requests,
           \/ DeleteRole(r) \/ DeleteOrganization(r) \/ Abort(r)
           \/ \E i \in Ids : RevokeInvite(r, i) \/ \E u \in Users : AcceptInvite(r, i, u)
           \/ \E u \in Users, g \in Roles : CreateInvite(r, u, g)
    PROVE  UNCHANGED Atomic!vars
BY DEF tenant, invites, RevokeInvite, AcceptInvite, CreateInvite, DeleteRole,
   DeleteOrganization, Arrive, Abort, Atomic!vars, Atomic!tenant, Atomic!invites

\* A change of a member is one, and time and retention are what they are.
LEMMA WorldIsWorld ==
    ASSUME IInv
    PROVE  /\ \A u \in Users, g \in Roles \cup {None} :
                 ChangeMember(u, g) => Atomic!ChangeMember(u, g)
           /\ \A i \in Ids : Pass(i) => Atomic!Pass(i)
           /\ RetentionCommit => \E D \in SUBSET Ids : Atomic!Purge(D)
           /\ RetentionScan \/ RetentionAbort \/ (\E i \in Ids : RetentionDelete(i))
                 => UNCHANGED Atomic!vars
<1>1. ASSUME NEW u \in Users, NEW g \in Roles \cup {None}, ChangeMember(u, g)
      PROVE  Atomic!ChangeMember(u, g)
  BY <1>1 DEF ChangeMember, invites, Atomic!ChangeMember, Atomic!Offered, Atomic!invites
<1>2. ASSUME NEW i \in Ids, Pass(i) PROVE Atomic!Pass(i)
  BY <1>2 DEF Pass, tenant, Atomic!Pass, Atomic!tenant
<1>3. ASSUME RetentionCommit PROVE Atomic!Purge({i \in Ids : rowLock[i] = Retention})
  BY <1>3, NamesDistinct DEF RetentionCommit, Delete, IInv, RowInv, Kept, Ended, tenant,
     Atomic!Purge, Atomic!Remove, Atomic!Kept, Atomic!Ended, Atomic!tenant
<1>4. RetentionScan \/ RetentionAbort \/ (\E i \in Ids : RetentionDelete(i))
         => UNCHANGED Atomic!vars
  BY DEF RetentionScan, RetentionAbort, RetentionDelete, tenant, invites, Atomic!vars,
     Atomic!tenant, Atomic!invites
<1> QED
  BY <1>1, <1>2, <1>3, <1>4

\* The deletion of the organization takes all in one step.
LEMMA CascadeIsDelete ==
    ASSUME NEW r \in Requests, Cascade(r)
    PROVE  Atomic!Delete
BY DEF Cascade, Delete, Kept, Ended, Atomic!Delete, Atomic!Remove, Atomic!Kept, Atomic!Ended

\* For every number of users, invitations and overlapping requests, creations,
\* revocations, acceptances, role and organization deletions behave as if each
\* happened at one instant: the row locks, share locks and unique indexes leave
\* no interleaving of their statements to be seen.
THEOREM OperationsAreAtomic == Spec => ActsAtomically
<1>1. Init => Atomic!Init
  BY DEF Init, Atomic!Init
<1>2. IInv /\ IndexInv /\ [Next]_vars => [Atomic!Next]_(Atomic!vars)
  <2> SUFFICES ASSUME IInv, IndexInv, [Next]_vars PROVE Atomic!Next \/ UNCHANGED Atomic!vars
    BY DEF Atomic!vars
  <2>1. CASE UNCHANGED vars
    BY <2>1 DEF vars, tenant, invites, Atomic!vars, Atomic!tenant, Atomic!invites
  <2>2. ASSUME NEW r \in Requests, Step(r)
        PROVE  Atomic!Next \/ UNCHANGED Atomic!vars
    <3>1. CASE CommitCreate(r)
      <4>1. user[r] \in Users /\ offer[r] \in Roles
        BY <3>1 DEF CommitCreate, At, IInv, CreatorInv
      <4> QED
        BY <3>1, <4>1, CreateIsCreate DEF Atomic!Next
    <3>2. CASE CommitRevoke(r)
      BY <3>2, RevokeIsRevoke DEF Atomic!Next
    <3>3. CASE CommitAccept(r)
      BY <3>3, AcceptIsAccept DEF Atomic!Next
    <3>4. CASE DropRole(r)
      BY <3>4, DropIsDrop DEF Atomic!Next
    <3>5. CASE Cascade(r)
      BY <3>5, CascadeIsDelete DEF Atomic!Next
    <3> QED
      BY <2>2, <3>1, <3>2, <3>3, <3>4, <3>5, QuietStatement
  <2>3. ASSUME NEW u \in Users, NEW g \in Roles \cup {None}, ChangeMember(u, g)
        PROVE  Atomic!Next
    BY <2>3, WorldIsWorld DEF Atomic!Next
  <2>4. ASSUME NEW i \in Ids, Pass(i) PROVE Atomic!Next
    BY <2>4, WorldIsWorld DEF Atomic!Next
  <2>5. CASE RetentionScan \/ RetentionStep \/ RetentionAbort
    BY <2>5, WorldIsWorld DEF RetentionStep, Atomic!Next
  <2> QED
    BY <2>1, <2>2, <2>3, <2>4, <2>5, QuietRequest DEF Next
<1> QED
  BY <1>1, <1>2, Invariance, IndexInvariance, PTL DEF Spec, ActsAtomically, Atomic!Spec

-----------------------------------------------------------------------------
\* The atomic operations keep the rules of the database.
LEMMA RulesKept ==
    ASSUME TypeOK, Atomic!OnePending, Atomic!ReferencesHold, [Atomic!Next]_(Atomic!vars)
    PROVE  Atomic!OnePending' /\ Atomic!ReferencesHold'
<1> USE NamesDistinct
    DEF TypeOK, Atomic!OnePending, Atomic!PendingTo, Atomic!ReferencesHold, Atomic!Offered,
        Atomic!Ended, Atomic!tenant, Atomic!invites
<1>1. ASSUME NEW i \in Ids, NEW u \in Users, NEW g \in Roles, Atomic!Create(i, u, g)
      PROVE  Atomic!OnePending' /\ Atomic!ReferencesHold'
  <2>1. Atomic!OnePending'
    BY <1>1 DEF Atomic!Create
  <2>2. Atomic!ReferencesHold'
    BY <1>1 DEF Atomic!Create
  <2> QED
    BY <2>1, <2>2
<1>2. ASSUME NEW i \in Ids, Atomic!Revoke(i)
      PROVE  Atomic!OnePending' /\ Atomic!ReferencesHold'
  BY <1>2 DEF Atomic!Revoke, Atomic!End
<1>3. ASSUME NEW i \in Ids, Atomic!Accept(i)
      PROVE  Atomic!OnePending' /\ Atomic!ReferencesHold'
  BY <1>3 DEF Atomic!Accept, Atomic!End
<1>4. ASSUME NEW i \in Ids, Atomic!Pass(i)
      PROVE  Atomic!OnePending' /\ Atomic!ReferencesHold'
  BY <1>4 DEF Atomic!Pass
<1>5. ASSUME NEW D \in SUBSET Ids, Atomic!Purge(D)
      PROVE  Atomic!OnePending' /\ Atomic!ReferencesHold'
  BY <1>5 DEF Atomic!Purge, Atomic!Remove
<1>6. ASSUME NEW u \in Users, NEW g \in Roles \cup {None}, Atomic!ChangeMember(u, g)
      PROVE  Atomic!OnePending' /\ Atomic!ReferencesHold'
  BY <1>6 DEF Atomic!ChangeMember
<1>7. CASE Atomic!DropRole \/ Atomic!Delete
  BY <1>7 DEF Atomic!DropRole, Atomic!Delete, Atomic!Remove, Atomic!Kept
<1>8. CASE UNCHANGED Atomic!vars
  BY <1>8 DEF Atomic!vars
<1> QED
  BY <1>1, <1>2, <1>3, <1>4, <1>5, <1>6, <1>7, <1>8 DEF Atomic!Next

\* They hold in every state of the statements too.
LEMMA Rules == Spec => [](Atomic!OnePending /\ Atomic!ReferencesHold)
<1>1. Atomic!Init => Atomic!OnePending /\ Atomic!ReferencesHold
  BY DEF Atomic!Init, Atomic!OnePending, Atomic!PendingTo, Atomic!ReferencesHold, Atomic!Ended
<1>2. /\ TypeOK /\ Atomic!OnePending /\ Atomic!ReferencesHold /\ [Atomic!Next]_(Atomic!vars)
      => (Atomic!OnePending /\ Atomic!ReferencesHold)'
  BY RulesKept
<1> QED
  BY <1>1, <1>2, TypeCorrect, OperationsAreAtomic, PTL DEF ActsAtomically, Atomic!Spec

\* However many creations for one address overlap, with acceptances, revocations
\* and the clock, two invitations of it are never pending together.
THEOREM OnePendingPerAddress == Spec => []Atomic!OnePending
BY Rules, PTL

\* However the deletions of the role and of the organization overlap with those
\* who are about to refer to them, no member and no invitation is left with a
\* role that is gone.
THEOREM NothingDangles == Spec => []Atomic!ReferencesHold
BY Rules, PTL
=============================================================================
