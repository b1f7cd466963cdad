--------------------------- MODULE AtomicSessions ---------------------------
(***************************************************************************)
(* What the session service promises its callers: every request is asked   *)
(* once and answered by one atomic operation on the sessions, as if there  *)
(* were no statements, locks or snapshots.  The two things an operation    *)
(* owes to an earlier instant are part of the question: whether the        *)
(* session had lapsed, and which sessions were active.                     *)
(***************************************************************************)
EXTENDS Naturals

CONSTANTS Sessions, Requests, None

VARIABLES
    status, current, lapsed,    \* per session
    op, sid, gen, late, before, \* per request: the question
    reply                       \* and the answer

session == <<status, current, lapsed>>
question == <<op, sid, gen, late, before>>
vars == <<session, question, reply>>

Active == {s \in Sessions : status[s] = "active"}

Init ==
    /\ status = [s \in Sessions |-> "absent"]
    /\ current = [s \in Sessions |-> 0]
    /\ lapsed = [s \in Sessions |-> FALSE]
    /\ op = [r \in Requests |-> "none"]
    /\ sid = [r \in Requests |-> None]
    /\ gen = [r \in Requests |-> 0]
    /\ late = [r \in Requests |-> FALSE]
    /\ before = [r \in Requests |-> {}]
    /\ reply = [r \in Requests |-> "none"]

Issued(s, g) == status[s] # "absent" /\ g <= current[s]

Good(s, g) == status[s] = "active" /\ g = current[s]

Put(r, handler, s, g) ==
    /\ op[r] = "none"
    /\ op' = [op EXCEPT ![r] = handler]
    /\ sid' = [sid EXCEPT ![r] = s]
    /\ gen' = [gen EXCEPT ![r] = g]
    /\ late' = [late EXCEPT ![r] = handler = "refresh" /\ lapsed[s]]
    /\ before' = [before EXCEPT ![r] = Active]
    /\ UNCHANGED session

Ask(r, handler, s, g) ==
    /\ Issued(s, g)
    /\ handler = "logoutAll" => status[s] = "active" /\ ~lapsed[s]
    /\ Put(r, handler, s, g)
    /\ UNCHANGED reply

Answer(r, answer) ==
    /\ op[r] # "none" /\ reply[r] = "none"
    /\ reply' = [reply EXCEPT ![r] = answer]
    /\ UNCHANGED question

-----------------------------------------------------------------------------
(* The operations of a request *)

\* The token is good: it is replaced, or the session had lapsed and expires.
Exchange(r) ==
    /\ op[r] = "refresh" /\ Good(sid[r], gen[r]) /\ ~late[r]
    /\ current' = [current EXCEPT ![sid[r]] = @ + 1]
    /\ Answer(r, "rotated")
    /\ UNCHANGED <<status, lapsed>>

Expire(r) ==
    /\ op[r] = "refresh" /\ Good(sid[r], gen[r]) /\ late[r]
    /\ status' = [status EXCEPT ![sid[r]] = "expired"]
    /\ Answer(r, "expired")
    /\ UNCHANGED <<current, lapsed>>

\* The session is there but the token is not good, or everything is logged out:
\* at least the sessions that were active and still are end, together.
EndAll(r) ==
    /\ \/ /\ op[r] = "refresh" /\ ~Good(sid[r], gen[r]) /\ status[sid[r]] # "purged"
          /\ Answer(r, "reuse")
       \/ op[r] = "logoutAll" /\ Answer(r, "allLoggedOut")
    /\ \E S \in SUBSET Active :
          /\ before[r] \cap Active \subseteq S
          /\ status' = [s \in Sessions |-> IF s \in S THEN "revoked" ELSE status[s]]
    /\ UNCHANGED <<current, lapsed>>

NotFound(r) ==
    /\ op[r] = "refresh" /\ status[sid[r]] = "purged"
    /\ Answer(r, "invalid")
    /\ UNCHANGED session

\* A logout ends the session if the token is good, and says so in any case.
Logout(r) ==
    /\ op[r] = "logout"
    /\ status' = IF Good(sid[r], gen[r]) THEN [status EXCEPT ![sid[r]] = "revoked"]
                 ELSE status
    /\ Answer(r, "loggedOut")
    /\ UNCHANGED <<current, lapsed>>

\* It may do so at once when there is nothing to end.
LogoutAtOnce(r, s, g) ==
    /\ Issued(s, g) /\ ~Good(s, g)
    /\ Put(r, "logout", s, g)
    /\ reply' = [reply EXCEPT ![r] = "loggedOut"]

\* An error: nothing has happened.
Fail(r) == Answer(r, "error") /\ UNCHANGED session

-----------------------------------------------------------------------------
(* What happens to sessions otherwise *)

Login(s) ==
    /\ status[s] = "absent"
    /\ status' = [status EXCEPT ![s] = "active"]
    /\ UNCHANGED <<current, lapsed, question, reply>>

Lapse(s) ==
    /\ status[s] # "absent"
    /\ lapsed' = [lapsed EXCEPT ![s] = TRUE]
    /\ UNCHANGED <<status, current, question, reply>>

\* Retention: lapsed sessions expire, ended ones are forgotten.
Retire(E, D) ==
    /\ \A s \in E : status[s] = "active" /\ lapsed[s]
    /\ \A s \in D : status[s] \in {"revoked", "expired"}
    /\ status' = [s \in Sessions |-> IF s \in E THEN "expired"
                                     ELSE IF s \in D THEN "purged" ELSE status[s]]
    /\ UNCHANGED <<current, lapsed, question, reply>>

Next ==
    \/ \E s \in Sessions : Login(s) \/ Lapse(s)
    \/ \E E, D \in SUBSET Sessions : Retire(E, D)
    \/ \E r \in Requests, s \in Sessions :
          \E g \in 0 .. current[s], handler \in {"refresh", "logout", "logoutAll"} :
              Ask(r, handler, s, g) \/ LogoutAtOnce(r, s, g)
    \/ \E r \in Requests :
          \/ Exchange(r) \/ Expire(r) \/ EndAll(r) \/ NotFound(r) \/ Logout(r) \/ Fail(r)

Spec == Init /\ [][Next]_vars
=============================================================================
