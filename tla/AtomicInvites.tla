---------------------------- MODULE AtomicInvites ----------------------------
(***************************************************************************)
(* What the invitations of an organization promise: every operation on     *)
(* them, on the custom role and on the organization happens at one instant *)
(* and keeps the rules of the database, one pending invitation per address *)
(* and no reference to what does not exist.  Whether an invitation had     *)
(* expired when it was presented is the caller's instant, not this one.    *)
(***************************************************************************)
CONSTANTS Users, Roles, Ids, None

VARIABLES org, roleExists, member, status, to, grants, age

tenant == <<org, roleExists, member>>
invites == <<status, to, grants, age>>
vars == <<tenant, invites>>

Ended == {"accepted", "revoked", "expired"}

Init ==
    /\ org = TRUE /\ roleExists = TRUE
    /\ member = [u \in Users |-> None]
    /\ status = [i \in Ids |-> "unused"]
    /\ to = [i \in Ids |-> None]
    /\ grants = [i \in Ids |-> None]
    /\ age = [i \in Ids |-> "fresh"]

\* A role that can be referred to, in an organization that can be.
Offered(g) == org /\ (g = "custom" => roleExists)

PendingTo(u) == {i \in Ids : status[i] = "pending" /\ to[i] = u}

-----------------------------------------------------------------------------
\* A new invitation takes the place of the address's lapsed ones, and is refused
\* while one is good.
Create(i, u, g) ==
    /\ status[i] = "unused"
    /\ Offered(g)
    /\ \A j \in PendingTo(u) : age[j] # "fresh"
    /\ status' = [j \in Ids |-> IF j = i THEN "pending"
                                ELSE IF j \in PendingTo(u) THEN "expired" ELSE status[j]]
    /\ age' = [j \in Ids |-> IF j \in PendingTo(u) THEN "fresh" ELSE age[j]]
    /\ to' = [to EXCEPT ![i] = u]
    /\ grants' = [grants EXCEPT ![i] = g]
    /\ UNCHANGED tenant

End(i, result) ==
    /\ status[i] = "pending"
    /\ status' = [status EXCEPT ![i] = result]
    /\ age' = [age EXCEPT ![i] = "fresh"]
    /\ UNCHANGED <<to, grants>>

Revoke(i) == End(i, "revoked") /\ UNCHANGED tenant

\* The addressee, who is no member yet, gets the role that was offered.
Accept(i) ==
    /\ End(i, "accepted")
    /\ member[to[i]] = None /\ Offered(grants[i])
    /\ member' = [member EXCEPT ![to[i]] = grants[i]]
    /\ UNCHANGED <<org, roleExists>>

\* A role goes when no member and no invitation, pending or ended, refers to it.
DropRole ==
    /\ \A u \in Users : member[u] # "custom"
    /\ \A i \in Ids : status[i] \in Ended \cup {"pending"} => grants[i] # "custom"
    /\ roleExists' = FALSE
    /\ UNCHANGED <<org, member, invites>>

\* The rows of D are deleted.
Remove(D) ==
    /\ status' = [i \in Ids |-> IF i \in D THEN "gone" ELSE status[i]]
    /\ to' = [i \in Ids |-> IF i \in D THEN None ELSE to[i]]
    /\ grants' = [i \in Ids |-> IF i \in D THEN None ELSE grants[i]]
    /\ age' = [i \in Ids |-> IF i \in D THEN "fresh" ELSE age[i]]

Kept == {i \in Ids : status[i] \in Ended \cup {"pending"}}

\* The organization goes with everything it has.
Delete ==
    /\ org' = FALSE /\ roleExists' = FALSE
    /\ member' = [u \in Users |-> None]
    /\ Remove(Kept)

ChangeMember(u, g) ==
    /\ member[u] # None /\ Offered(g)
    /\ member' = [member EXCEPT ![u] = g]
    /\ UNCHANGED <<org, roleExists, invites>>

\* Time passes for an invitation; some of the old ones are deleted.
Pass(i) ==
    /\ \E a \in {"lapsed", "old"} : age' = [age EXCEPT ![i] = a]
    /\ UNCHANGED <<tenant, status, to, grants>>

Purge(D) ==
    /\ \A i \in D : i \in Kept /\ age[i] = "old"
    /\ Remove(D)
    /\ UNCHANGED tenant

Next ==
    \/ \E i \in Ids :
          \/ \E u \in Users, g \in Roles : Create(i, u, g)
          \/ Revoke(i) \/ Accept(i) \/ Pass(i)
    \/ \E D \in SUBSET Ids : Purge(D)
    \/ \E u \in Users, g \in Roles \cup {None} : ChangeMember(u, g)
    \/ DropRole \/ Delete

Spec == Init /\ [][Next]_vars

-----------------------------------------------------------------------------
\* The rules: at most one pending invitation per address, every reference is to
\* a role that exists, and nothing of an organization that does not.
OnePending == \A u \in Users : \A i, j \in PendingTo(u) : i = j

ReferencesHold ==
    /\ \A u \in Users : member[u] # None => Offered(member[u])
    /\ \A i \in Ids : status[i] \in Ended \cup {"pending"} => Offered(grants[i])
=============================================================================
