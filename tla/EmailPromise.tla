---------------------------- MODULE EmailPromise ----------------------------
(***************************************************************************)
(* What the transactional outbox promises about the messages it is given,  *)
(* without workers, leases, attempts or clocks: a queued message is in the *)
(* end reported as sent or as failed, once and for all, and one reported   *)
(* as sent was accepted by the provider.                                   *)
(***************************************************************************)
CONSTANT Deliveries

VARIABLES
    outcome,    \* of each message
    accepted    \* the messages the provider accepted

vars == <<outcome, accepted>>

Init ==
    /\ outcome = [d \in Deliveries |-> "none"]
    /\ accepted = {}

\* The row is part of the transaction that registers, invites or re-issues.
Queue(d) ==
    /\ outcome[d] = "none"
    /\ outcome' = [outcome EXCEPT ![d] = "queued"]
    /\ UNCHANGED accepted

\* The provider may accept a message before or after the outbox gives it up.
Accept(d) ==
    /\ outcome[d] # "none"
    /\ accepted' = accepted \cup {d}
    /\ UNCHANGED outcome

Report(d, result) ==
    /\ outcome[d] = "queued"
    /\ result = "sent" => d \in accepted
    /\ outcome' = [outcome EXCEPT ![d] = result]
    /\ UNCHANGED accepted

Forget(d) ==
    /\ outcome[d] \in {"sent", "failed"}
    /\ outcome' = [outcome EXCEPT ![d] = "purged"]
    /\ UNCHANGED accepted

Next ==
    \E d \in Deliveries :
        \/ Queue(d) \/ Accept(d) \/ Forget(d)
        \/ \E result \in {"sent", "failed"} : Report(d, result)

Spec ==
    /\ Init /\ [][Next]_vars
    /\ \A d \in Deliveries :
          WF_vars(\E result \in {"sent", "failed"} : Report(d, result))
=============================================================================
