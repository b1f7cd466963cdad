------------------------------- MODULE Outbox -------------------------------
(***************************************************************************)
(* The email outbox (services/email-delivery.service.ts): rows of          *)
(* email_deliveries, the workers of the application's instances that claim *)
(* them under a lease, and the provider they call                          *)
(* (services/resend-email.service.ts).                                     *)
(*                                                                         *)
(* Every database statement and the provider call are separate actions of  *)
(* a worker.  A worker can stop between any two of them (a crash, or an    *)
(* error that abandons the batch).  Two comparisons with the clock are     *)
(* flags that the environment sets: a row is due (next_attempt_at has      *)
(* come) and a claim is stale (locked_at is older than LOCK_TIMEOUT_MS).   *)
(* A lease is named by the number of the attempt it was drawn for.         *)
(***************************************************************************)
EXTENDS Naturals, FiniteSets

CONSTANTS
    Deliveries,     \* rows, and the messages they carry
    Workers,        \* one per running instance
    MaxAttempts,    \* MAX_DELIVERY_ATTEMPTS
    BatchSize,      \* DEFAULT_BATCH_SIZE
    MaxFaults,      \* bound on crashes, abandoned batches and overtaken leases
    None            \* no row in hand

ASSUME LimitsArePositive ==
    MaxAttempts \in Nat \ {0} /\ BatchSize \in Nat \ {0} /\ MaxFaults \in Nat
ASSUME NoneIsNoDelivery == None \notin Deliveries

VARIABLES
    status, lease, attempts, body,  \* columns; lease 0 is a null lease_id
    due, stale,                     \* next_attempt_at <= now; locked_at too old
    source,                         \* the rows whose token can still be used
    wpc, mine, cur, permanent,      \* per worker: control, the lease it holds on
                                    \* each row of its batch (0: none), the row in
                                    \* hand, whether the error is permanent
    inflight, accepted,             \* at the provider
    faults, slips                   \* faults so far; how often each claim went stale

row == <<status, lease, attempts, body, due, stale>>
worker == <<wpc, mine, cur, permanent>>
provider == <<inflight, accepted>>
vars == <<row, source, worker, provider, faults, slips>>

TypeOK ==
    /\ status \in [Deliveries -> {"none", "pending", "processing", "sent", "failed",
                                  "purged"}]
    /\ lease \in [Deliveries -> Nat]
    /\ attempts \in [Deliveries -> Nat]
    /\ body \in [Deliveries -> BOOLEAN]
    /\ due \in [Deliveries -> BOOLEAN]
    /\ stale \in [Deliveries -> BOOLEAN]
    /\ source \in SUBSET Deliveries
    /\ wpc \in [Workers -> {"idle", "next", "obsolete", "send", "markSent", "markFailed"}]
    /\ mine \in [Workers -> [Deliveries -> Nat]]
    /\ cur \in [Workers -> Deliveries \cup {None}]
    /\ permanent \in [Workers -> BOOLEAN]
    /\ inflight \in SUBSET Deliveries
    /\ accepted \in SUBSET Deliveries
    /\ faults \in 0 .. MaxFaults
    /\ slips \in [Deliveries -> Nat]

Init ==
    /\ status = [d \in Deliveries |-> "none"]
    /\ lease = [d \in Deliveries |-> 0]
    /\ attempts = [d \in Deliveries |-> 0]
    /\ body = [d \in Deliveries |-> FALSE]
    /\ due = [d \in Deliveries |-> FALSE]
    /\ stale = [d \in Deliveries |-> FALSE]
    /\ source = {}
    /\ wpc = [w \in Workers |-> "idle"]
    /\ mine = [w \in Workers |-> [d \in Deliveries |-> 0]]
    /\ cur = [w \in Workers |-> None]
    /\ permanent = [w \in Workers |-> FALSE]
    /\ inflight = {}
    /\ accepted = {}
    /\ faults = 0
    /\ slips = [d \in Deliveries |-> 0]

-----------------------------------------------------------------------------
(* The mutations that enqueue, and time *)

\* enqueueEmail, in the transaction that issues the token.
Enqueue(d) ==
    /\ status[d] = "none"
    /\ status' = [status EXCEPT ![d] = "pending"]
    /\ body' = [body EXCEPT ![d] = TRUE]
    /\ due' = [due EXCEPT ![d] = TRUE]
    /\ source' = source \cup {d}
    /\ UNCHANGED <<lease, attempts, stale, worker, provider, faults, slips>>

\* The verification token or the invitation is used, replaced, revoked or
\* expires.
SourceDies(d) ==
    /\ d \in source
    /\ source' = source \ {d}
    /\ UNCHANGED <<row, worker, provider, faults, slips>>

BecomeDue(d) ==
    /\ status[d] = "pending" /\ ~due[d]
    /\ due' = [due EXCEPT ![d] = TRUE]
    /\ UNCHANGED <<status, lease, attempts, body, stale, source, worker, provider,
                   faults, slips>>

\* The claim has an owner that is still going to work on it.
Held(d) == \E w \in Workers : mine[w][d] # 0 /\ mine[w][d] = lease[d]

GoStale(d) ==
    /\ status[d] = "processing" /\ ~stale[d]
    /\ stale' = [stale EXCEPT ![d] = TRUE]
    /\ slips' = [slips EXCEPT ![d] = @ + 1]
    /\ UNCHANGED <<status, lease, attempts, body, due, source, worker, provider>>

\* The owner is gone.
AbandonedGoesStale(d) == ~Held(d) /\ GoStale(d) /\ UNCHANGED faults

\* The owner is slow: its batch outlives the lock timeout.
OvertakenGoesStale(d) ==
    Held(d) /\ faults < MaxFaults /\ GoStale(d) /\ faults' = faults + 1

\* runRetentionCleanup deletes sent and failed rows.
Purge(d) ==
    /\ status[d] \in {"sent", "failed"}
    /\ status' = [status EXCEPT ![d] = "purged"]
    /\ UNCHANGED <<lease, attempts, body, due, stale, source, worker, provider, faults,
                   slips>>

-----------------------------------------------------------------------------
(* claimEmailDeliveries *)

\* Mutant of Claimable: a stale claim is never taken over.
ClaimablePending(d) == due[d] /\ status[d] = "pending"

Claimable(d) ==
    due[d] /\ (status[d] = "pending" \/ (status[d] = "processing" /\ stale[d]))

\* Mutant of Claim: a reclaimed row keeps the lease of its former owner.
ClaimSameLease(w, B) ==
    /\ wpc[w] = "idle"
    /\ B # {} /\ Cardinality(B) <= BatchSize
    /\ \A d \in B : Claimable(d)
    /\ status' = [d \in Deliveries |-> IF d \in B THEN "processing" ELSE status[d]]
    /\ attempts' = [d \in Deliveries |-> IF d \in B THEN attempts[d] + 1 ELSE attempts[d]]
    /\ lease' = [d \in Deliveries |-> IF d \in B /\ lease[d] = 0 THEN attempts[d] + 1
                                      ELSE lease[d]]
    /\ stale' = [d \in Deliveries |-> d \notin B /\ stale[d]]
    /\ mine' = [mine EXCEPT ![w] = [d \in Deliveries |-> IF d \in B THEN lease'[d] ELSE 0]]
    /\ wpc' = [wpc EXCEPT ![w] = "next"]
    /\ UNCHANGED <<body, due, source, cur, permanent, provider, faults, slips>>

\* Mutant of Claim: the counter runs down.
ClaimCountingDown(w, B) ==
    /\ wpc[w] = "idle"
    /\ B # {} /\ Cardinality(B) <= BatchSize
    /\ \A d \in B : Claimable(d)
    /\ status' = [d \in Deliveries |-> IF d \in B THEN "processing" ELSE status[d]]
    /\ attempts' = [d \in Deliveries |-> IF d \in B THEN attempts[d] - 1 ELSE attempts[d]]
    /\ lease' = [d \in Deliveries |-> IF d \in B THEN attempts[d] + 1 ELSE lease[d]]
    /\ stale' = [d \in Deliveries |-> d \notin B /\ stale[d]]
    /\ mine' = [mine EXCEPT ![w] = [d \in Deliveries |-> IF d \in B THEN attempts[d] + 1
                                                         ELSE 0]]
    /\ wpc' = [wpc EXCEPT ![w] = "next"]
    /\ UNCHANGED <<body, due, source, cur, permanent, provider, faults, slips>>

\* FOR UPDATE SKIP LOCKED: another instance may have any of the other rows
\* locked, so which claimable rows the batch gets is open.
Claim(w, B) ==
    /\ wpc[w] = "idle"
    /\ B # {} /\ Cardinality(B) <= BatchSize
    /\ \A d \in B : Claimable(d)
    /\ status' = [d \in Deliveries |-> IF d \in B THEN "processing" ELSE status[d]]
    /\ attempts' = [d \in Deliveries |-> IF d \in B THEN attempts[d] + 1 ELSE attempts[d]]
    /\ lease' = [d \in Deliveries |-> IF d \in B THEN attempts[d] + 1 ELSE lease[d]]
    /\ stale' = [d \in Deliveries |-> d \notin B /\ stale[d]]
    /\ mine' = [mine EXCEPT ![w] = [d \in Deliveries |-> IF d \in B THEN attempts[d] + 1
                                                         ELSE 0]]
    /\ wpc' = [wpc EXCEPT ![w] = "next"]
    /\ UNCHANGED <<body, due, source, cur, permanent, provider, faults, slips>>

-----------------------------------------------------------------------------
(* processEmailDeliveries, one row after the other *)

\* isDeliveryActive.
TakeRow(w, d) ==
    /\ wpc[w] = "next"
    /\ mine[w][d] # 0
    /\ cur' = [cur EXCEPT ![w] = d]
    /\ wpc' = [wpc EXCEPT ![w] = IF d \in source THEN "send" ELSE "obsolete"]
    /\ UNCHANGED <<row, source, mine, permanent, provider, faults, slips>>

EndBatch(w) ==
    /\ wpc[w] = "next"
    /\ \A d \in Deliveries : mine[w][d] = 0
    /\ wpc' = [wpc EXCEPT ![w] = "idle"]
    /\ UNCHANGED <<row, source, mine, cur, permanent, provider, faults, slips>>

\* The provider call.  It is accepted and acknowledged; accepted or still under
\* way when withTimeout gives up; refused for now; or refused for good.
Send(w) ==
    /\ wpc[w] = "send"
    /\ \/ /\ accepted' = accepted \cup {cur[w]}
          /\ wpc' = [wpc EXCEPT ![w] = "markSent"]
          /\ UNCHANGED <<inflight, permanent>>
       \/ /\ inflight' = inflight \cup {cur[w]}
          /\ wpc' = [wpc EXCEPT ![w] = "markFailed"]
          /\ UNCHANGED <<accepted, permanent>>
       \/ /\ permanent' \in {permanent, [permanent EXCEPT ![w] = TRUE]}
          /\ wpc' = [wpc EXCEPT ![w] = "markFailed"]
          /\ UNCHANGED provider
    /\ UNCHANGED <<row, source, mine, cur, faults, slips>>

\* Nothing cancels a request that timed out.
LateAccept(d) ==
    /\ d \in inflight
    /\ inflight' = inflight \ {d}
    /\ accepted' = accepted \cup {d}
    /\ UNCHANGED <<row, source, worker, faults, slips>>

\* The guard of the three UPDATEs: the row is still processed under the lease
\* the worker was given.
OwnsLease(w) == status[cur[w]] = "processing" /\ lease[cur[w]] = mine[w][cur[w]]

\* Mutant of Settle: the bodies are cleared by a retry as well.
SettleClearingBody(d, result) ==
    /\ status' = [status EXCEPT ![d] = result]
    /\ lease' = [lease EXCEPT ![d] = 0]
    /\ stale' = [stale EXCEPT ![d] = FALSE]
    /\ body' = [body EXCEPT ![d] = FALSE]
    /\ due' = [due EXCEPT ![d] = @ /\ result # "pending"]
    /\ UNCHANGED attempts

\* lease_id and locked_at are cleared; the bodies too when the row is settled.
Settle(d, result) ==
    /\ status' = [status EXCEPT ![d] = result]
    /\ lease' = [lease EXCEPT ![d] = 0]
    /\ stale' = [stale EXCEPT ![d] = FALSE]
    /\ body' = [body EXCEPT ![d] = result = "pending"]
    /\ due' = [due EXCEPT ![d] = @ /\ result # "pending"]
    /\ UNCHANGED attempts

NextRow(w) ==
    /\ mine' = [mine EXCEPT ![w][cur[w]] = 0]
    /\ cur' = [cur EXCEPT ![w] = None]
    /\ wpc' = [wpc EXCEPT ![w] = "next"]
    /\ permanent' = [permanent EXCEPT ![w] = FALSE]

\* A mark that no longer owns the lease updates nothing, and nobody looks.
Mark(w, result) ==
    /\ IF OwnsLease(w) THEN Settle(cur[w], result) ELSE UNCHANGED row
    /\ NextRow(w)
    /\ UNCHANGED <<source, provider, faults, slips>>

MarkObsolete(w) == wpc[w] = "obsolete" /\ Mark(w, "failed")

MarkSent(w) == wpc[w] = "markSent" /\ Mark(w, "sent")

\* The UPDATE of markEmailSent fails inside the try block, before or after it
\* took effect: the row goes on as a failed one.
MarkSentFails(w) ==
    /\ wpc[w] = "markSent"
    /\ \/ UNCHANGED row
       \/ OwnsLease(w) /\ Settle(cur[w], "sent")
    /\ wpc' = [wpc EXCEPT ![w] = "markFailed"]
    /\ UNCHANGED <<source, mine, cur, permanent, provider, faults, slips>>

\* Mutant of GivesUp: the last attempt is retried like the others.
NeverGivesUp(w) == permanent[w]

GivesUp(w) == permanent[w] \/ mine[w][cur[w]] >= MaxAttempts

MarkFailed(w) ==
    /\ wpc[w] = "markFailed"
    /\ Mark(w, IF GivesUp(w) THEN "failed" ELSE "pending")

\* The process dies, or a query outside the try block throws and the rest of
\* the batch is abandoned: its rows stay in process until the lease is stale.
Abandon(w) ==
    /\ wpc[w] # "idle"
    /\ faults < MaxFaults
    /\ faults' = faults + 1
    /\ inflight' \in {inflight, inflight \cup (IF wpc[w] = "send" THEN {cur[w]} ELSE {})}
    /\ mine' = [mine EXCEPT ![w] = [d \in Deliveries |-> 0]]
    /\ cur' = [cur EXCEPT ![w] = None]
    /\ wpc' = [wpc EXCEPT ![w] = "idle"]
    /\ permanent' = [permanent EXCEPT ![w] = FALSE]
    /\ UNCHANGED <<row, source, accepted, slips>>

-----------------------------------------------------------------------------
Work(w) ==
    \/ \E d \in Deliveries : TakeRow(w, d)
    \/ EndBatch(w) \/ Send(w) \/ MarkObsolete(w) \/ MarkSent(w) \/ MarkSentFails(w)
    \/ MarkFailed(w)

Next ==
    \/ \E d \in Deliveries :
          \/ Enqueue(d) \/ SourceDies(d) \/ BecomeDue(d) \/ AbandonedGoesStale(d)
          \/ OvertakenGoesStale(d) \/ Purge(d) \/ LateAccept(d)
    \/ \E w \in Workers :
          \/ \E B \in SUBSET Deliveries : Claim(w, B)
          \/ Work(w) \/ Abandon(w)

Spec == Init /\ [][Next]_vars

ClaimOf(d) == \E w \in Workers, B \in SUBSET Deliveries : d \in B /\ Claim(w, B)

\* Workers run and poll, oldest row first, so a claimable row is not passed over
\* for ever; time passes.
Fairness ==
    /\ \A w \in Workers : WF_vars(Work(w))
    /\ \A d \in Deliveries :
          SF_vars(ClaimOf(d)) /\ WF_vars(BecomeDue(d)) /\ WF_vars(AbandonedGoesStale(d))

FairSpec == Spec /\ Fairness

-----------------------------------------------------------------------------
(* Properties *)

\* A row is in process exactly while it has a lease, and its body is there
\* exactly as long as it may still be sent: no interleaving of marks, reclaims
\* and crashes leaves a settled row with its body, or a row to be sent without
\* one (the "body is missing" branch of processEmailDeliveries is unreachable).
RowConsistent ==
    \A d \in Deliveries :
        /\ status[d] = "processing" <=> lease[d] # 0
        /\ status[d] \in {"pending", "processing"} <=> body[d]

\* At most one worker can settle a row: an older claim of the same row has lost
\* its lease for good.
OneOwner ==
    \A d \in Deliveries : \A v, w \in Workers :
        mine[v][d] # 0 /\ mine[w][d] # 0 /\ mine[v][d] = mine[w][d] => v = w

\* Attempts beyond the maximum happen only after a claim went stale: each of
\* them is paid for by a crash or by a batch that outlived its lease.
AttemptsPaidFor ==
    \A d \in Deliveries : attempts[d] <= MaxAttempts + slips[d]

Promise == INSTANCE EmailPromise WITH
    outcome <- [d \in Deliveries |-> IF status[d] \in {"pending", "processing"}
                                     THEN "queued" ELSE status[d]]

\* The outbox implements EmailPromise: an enqueued message is eventually sent or
\* failed, whatever workers crash or are overtaken, "sent" is never wrong, and a
\* settled row keeps its outcome, as the late answer of a worker that lost its
\* lease changes nothing.
KeepsPromise == Promise!Spec
=============================================================================
