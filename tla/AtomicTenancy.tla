---------------------------- MODULE AtomicTenancy ----------------------------
(***************************************************************************)
(* What the handlers of an organization's members promise: every request   *)
(* is asked once, by somebody who is entitled to at that instant, and      *)
(* answered by one atomic operation on the organization and its            *)
(* memberships.  A role change or removal owes two things to earlier       *)
(* instants: the owner whom it spares and the row that it is about.        *)
(***************************************************************************)
EXTENDS Naturals

CONSTANTS Users, Requests, None

VARIABLES
    org, owner, role, rowId,    \* the organization and its memberships
    op, target, grant,          \* per request: the question
    seen, seenId,               \*     what it has looked up
    reply                       \*     and the answer

tenant == <<org, owner, role, rowId>>
question == <<op, target, grant>>
view == <<seen, seenId>>
vars == <<tenant, question, view, reply>>

Roles == {"Owner", "Admin", "Member"}

Managers == {"Owner", "Admin"}

Init ==
    /\ org = "absent" /\ owner = None
    /\ role = [u \in Users |-> None]
    /\ rowId = [u \in Users |-> 0]
    /\ op = [r \in Requests |-> "none"]
    /\ target = [r \in Requests |-> None]
    /\ grant = [r \in Requests |-> None]
    /\ seen = [r \in Requests |-> None]
    /\ seenId = [r \in Requests |-> 0]
    /\ reply = [r \in Requests |-> "none"]

\* A manager asks for a role change or a removal, the owner for a transfer or
\* the deletion.
Entitled(actor, handler) ==
    /\ org = "live"
    /\ CASE handler \in {"update", "remove"} -> role[actor] \in Managers
         [] handler \in {"transfer", "delete"} -> role[actor] # None /\ actor = owner

Ask(r, actor, handler, u, g) ==
    /\ op[r] = "none"
    /\ Entitled(actor, handler)
    /\ op' = [op EXCEPT ![r] = handler]
    /\ target' = [target EXCEPT ![r] = u]
    /\ grant' = [grant EXCEPT ![r] = g]
    /\ UNCHANGED <<tenant, view, reply>>

Waiting(r) == op[r] # "none" /\ reply[r] = "none"

Answer(r, answer) ==
    /\ Waiting(r)
    /\ reply' = [reply EXCEPT ![r] = answer]
    /\ UNCHANGED <<question, view>>

-----------------------------------------------------------------------------
(* What a request looks up, once *)

LookUpOwner(r) ==
    /\ Waiting(r) /\ seen[r] = None
    /\ org = "live"
    /\ seen' = [seen EXCEPT ![r] = owner]
    /\ UNCHANGED <<tenant, question, seenId, reply>>

\* A member who is not the owner looked up before, for another role than his.
LookUpMember(r) ==
    /\ Waiting(r) /\ seenId[r] = 0
    /\ op[r] \in {"update", "remove"}
    /\ role[target[r]] # None
    /\ seen[r] \notin {None, target[r]} /\ grant[r] # "Owner"
    /\ seenId' = [seenId EXCEPT ![r] = rowId[target[r]]]
    /\ UNCHANGED <<tenant, question, seen, reply>>

-----------------------------------------------------------------------------
(* The operations of a request *)

\* The member gets the role or, for None, goes: this member, or nobody when he
\* has left since, even if he has come back.
Manage(r) ==
    /\ op[r] \in {"update", "remove"} /\ seenId[r] # 0
    /\ org = "live"
    /\ role' = IF role[target[r]] # None /\ rowId[target[r]] = seenId[r]
               THEN [role EXCEPT ![target[r]] = grant[r]] ELSE role
    /\ Answer(r, "ok")
    /\ UNCHANGED <<org, owner, rowId>>

\* Owner and Owner role pass to another member together.
Transfer(r) ==
    /\ op[r] = "transfer"
    /\ org = "live" /\ target[r] # owner /\ role[target[r]] # None
    /\ owner' = target[r]
    /\ role' = [u \in Users |-> IF u = target[r] THEN "Owner"
                                ELSE IF u = owner /\ role[u] # None THEN "Member"
                                ELSE role[u]]
    /\ Answer(r, "ok")
    /\ UNCHANGED <<org, rowId>>

Delete(r) ==
    /\ op[r] = "delete"
    /\ org = "live"
    /\ org' = "deleted" /\ owner' = None
    /\ role' = [u \in Users |-> None]
    /\ Answer(r, "ok")
    /\ UNCHANGED rowId

\* Refusals change nothing; each is true at its instant.
Refuse(r) ==
    /\ \/ /\ org # "live" \/ (target[r] # None /\ role[target[r]] = None)
          /\ Answer(r, "notFound")
       \/ /\ op[r] \in {"update", "remove"} /\ (target[r] = seen[r] \/ grant[r] = "Owner")
          /\ Answer(r, "locked")
       \/ /\ op[r] = "transfer" /\ target[r] = owner
          /\ Answer(r, "conflict")
       \/ Answer(r, "error")
    /\ UNCHANGED tenant

-----------------------------------------------------------------------------
(* The organization is made, and members join it *)

Create(u) ==
    /\ org = "absent"
    /\ org' = "live" /\ owner' = u
    /\ role' = [role EXCEPT ![u] = "Owner"]
    /\ rowId' = [rowId EXCEPT ![u] = 1]
    /\ UNCHANGED <<question, view, reply>>

Join(u, g) ==
    /\ org = "live" /\ role[u] = None /\ g # "Owner"
    /\ role' = [role EXCEPT ![u] = g]
    /\ rowId' = [rowId EXCEPT ![u] = @ + 1]
    /\ UNCHANGED <<org, owner, question, view, reply>>

Next ==
    \/ \E u \in Users : Create(u) \/ \E g \in Roles : Join(u, g)
    \/ \E r \in Requests, a \in Users, u \in Users \cup {None}, g \in Roles \cup {None},
          handler \in {"update", "remove", "transfer", "delete"} : Ask(r, a, handler, u, g)
    \/ \E r \in Requests :
          \/ LookUpOwner(r) \/ LookUpMember(r)
          \/ Manage(r) \/ Transfer(r) \/ Delete(r) \/ Refuse(r)

Spec == Init /\ [][Next]_vars
=============================================================================
