---------------------------- MODULE OutboxProofs ----------------------------
(***************************************************************************)
(* For every set of rows and workers, every limit and every number of      *)
(* faults: leases exclude each other, rows keep their outcome and lose     *)
(* their bodies, attempts are paid for, and every step of the outbox is a  *)
(* step of EmailPromise or changes nothing it promises about.              *)
(***************************************************************************)
EXTENDS Outbox, TLAPS

\* A row in hand is one of the batch, and one about to be marked as sent was
\* accepted.
WorkInv ==
    \A w \in Workers :
        /\ wpc[w] \in {"obsolete", "send", "markSent", "markFailed"} =>
              cur[w] \in Deliveries /\ mine[w][cur[w]] # 0
        /\ wpc[w] = "markSent" => cur[w] \in accepted

\* A lease is the number of the latest attempt; older claims have older numbers.
LeaseInv ==
    \A d \in Deliveries :
        /\ lease[d] # 0 => lease[d] = attempts[d]
        /\ \A w \in Workers : mine[w][d] <= attempts[d]

\* A row that may be claimed has an attempt left, or has gone stale for it.
BudgetInv ==
    \A d \in Deliveries :
        /\ status[d] = "none" => attempts[d] = 0
        /\ status[d] = "pending" \/ (status[d] = "processing" /\ stale[d]) =>
              attempts[d] < MaxAttempts + slips[d]

\* The provider knows only what was enqueued.
QueuedInv == \A d \in inflight \cup accepted : status[d] # "none"

IInv ==
    /\ TypeOK
    /\ RowConsistent /\ OneOwner /\ AttemptsPaidFor
    /\ WorkInv /\ LeaseInv /\ BudgetInv /\ QueuedInv

-----------------------------------------------------------------------------
\* An empty outbox satisfies the inductive invariant.
LEMMA InitInv == Init => IInv
BY LimitsArePositive, NoneIsNoDelivery DEF Init, IInv, TypeOK, RowConsistent, OneOwner,
   AttemptsPaidFor, WorkInv, LeaseInv, BudgetInv, QueuedInv

\* What a mark does to the row it settles, and to its types.
LEMMA SettleRow ==
    ASSUME TypeOK, NEW d \in Deliveries, NEW result \in {"pending", "sent", "failed"},
           Settle(d, result)
    PROVE  /\ status' = [status EXCEPT ![d] = result]
           /\ lease' = [lease EXCEPT ![d] = 0]
           /\ stale' = [stale EXCEPT ![d] = FALSE]
           /\ attempts' = attempts
           /\ status' \in [Deliveries -> {"none", "pending", "processing", "sent", "failed",
                                          "purged"}]
           /\ lease' \in [Deliveries -> Nat] /\ attempts' \in [Deliveries -> Nat]
           /\ body' \in [Deliveries -> BOOLEAN] /\ due' \in [Deliveries -> BOOLEAN]
           /\ stale' \in [Deliveries -> BOOLEAN]
           /\ body'[d] <=> result = "pending"
           /\ \A e \in Deliveries \ {d} : body'[e] = body[e]
<1>1. PICK b \in BOOLEAN : (b <=> result = "pending") /\ body' = [body EXCEPT ![d] = b]
  <2>1. (result = "pending") \in BOOLEAN
    OBVIOUS
  <2>2. body' = [body EXCEPT ![d] = result = "pending"]
    BY Zenon DEF Settle
  <2> QED
    BY <2>1, <2>2, Zenon
<1>2. PICK e \in BOOLEAN : due' = [due EXCEPT ![d] = e]
  <2>1. (due[d] /\ result # "pending") \in BOOLEAN
    OBVIOUS
  <2> QED
    BY <2>1, Zenon DEF Settle
<1>3. /\ status' = [status EXCEPT ![d] = result]
      /\ lease' = [lease EXCEPT ![d] = 0]
      /\ stale' = [stale EXCEPT ![d] = FALSE]
      /\ attempts' = attempts
  BY Zenon DEF Settle
<1> QED
  BY <1>1, <1>2, <1>3 DEF TypeOK

\* A new row has its body and no attempt.
LEMMA EnqueueStep ==
    ASSUME IInv, NEW d \in Deliveries, Enqueue(d)
    PROVE  IInv'
<1> USE LimitsArePositive, NoneIsNoDelivery DEF IInv, row, worker, provider, Enqueue
<1>1. TypeOK'
  BY DEF TypeOK, WorkInv
<1>2. RowConsistent' /\ WorkInv' /\ QueuedInv'
  BY DEF TypeOK, RowConsistent, WorkInv, LeaseInv, BudgetInv, QueuedInv
<1>3. OneOwner' /\ LeaseInv'
  BY DEF TypeOK, RowConsistent, OneOwner, WorkInv, LeaseInv
<1>4. AttemptsPaidFor' /\ BudgetInv'
  BY DEF TypeOK, AttemptsPaidFor, BudgetInv, LeaseInv, WorkInv
<1> QED
  BY <1>1, <1>2, <1>3, <1>4

\* A token dies.
LEMMA SourceDiesStep ==
    ASSUME IInv, NEW d \in Deliveries, SourceDies(d)
    PROVE  IInv'
<1> USE LimitsArePositive, NoneIsNoDelivery DEF IInv, row, worker, provider, SourceDies
<1>1. TypeOK'
  BY DEF TypeOK, WorkInv
<1>2. RowConsistent' /\ WorkInv' /\ QueuedInv'
  BY DEF TypeOK, RowConsistent, WorkInv, LeaseInv, BudgetInv, QueuedInv
<1>3. OneOwner' /\ LeaseInv'
  BY DEF TypeOK, RowConsistent, OneOwner, WorkInv, LeaseInv
<1>4. AttemptsPaidFor' /\ BudgetInv'
  BY DEF TypeOK, AttemptsPaidFor, BudgetInv, LeaseInv, WorkInv
<1> QED
  BY <1>1, <1>2, <1>3, <1>4

\* Time makes a row due.
LEMMA BecomeDueStep ==
    ASSUME IInv, NEW d \in Deliveries, BecomeDue(d)
    PROVE  IInv'
<1> USE LimitsArePositive, NoneIsNoDelivery DEF IInv, row, worker, provider, BecomeDue
<1>1. TypeOK'
  BY DEF TypeOK, WorkInv
<1>2. RowConsistent' /\ WorkInv' /\ QueuedInv'
  BY DEF TypeOK, RowConsistent, WorkInv, LeaseInv, BudgetInv, QueuedInv
<1>3. OneOwner' /\ LeaseInv'
  BY DEF TypeOK, RowConsistent, OneOwner, WorkInv, LeaseInv
<1>4. AttemptsPaidFor' /\ BudgetInv'
  BY DEF TypeOK, AttemptsPaidFor, BudgetInv, LeaseInv, WorkInv
<1> QED
  BY <1>1, <1>2, <1>3, <1>4

\* A claim that goes stale earns the row an attempt.
LEMMA StaleStep ==
    ASSUME IInv, NEW d \in Deliveries, GoStale(d), faults' \in {faults, faults + 1},
    faults' <= MaxFaults
    PROVE  IInv'
<1> USE LimitsArePositive, NoneIsNoDelivery DEF IInv, row, worker, provider, GoStale
<1>1. TypeOK'
  BY DEF TypeOK, WorkInv
<1>2. RowConsistent' /\ WorkInv' /\ QueuedInv'
  BY DEF TypeOK, RowConsistent, WorkInv, LeaseInv, BudgetInv, QueuedInv
<1>3. OneOwner' /\ LeaseInv'
  BY DEF TypeOK, RowConsistent, OneOwner, WorkInv, LeaseInv
<1>4. AttemptsPaidFor' /\ BudgetInv'
  BY DEF TypeOK, AttemptsPaidFor, BudgetInv, LeaseInv, WorkInv
<1> QED
  BY <1>1, <1>2, <1>3, <1>4

\* A settled row is deleted.
LEMMA PurgeStep ==
    ASSUME IInv, NEW d \in Deliveries, Purge(d)
    PROVE  IInv'
<1> USE LimitsArePositive, NoneIsNoDelivery DEF IInv, row, worker, provider, Purge
<1>1. TypeOK'
  BY DEF TypeOK, WorkInv
<1>2. RowConsistent' /\ WorkInv' /\ QueuedInv'
  BY DEF TypeOK, RowConsistent, WorkInv, LeaseInv, BudgetInv, QueuedInv
<1>3. OneOwner' /\ LeaseInv'
  BY DEF TypeOK, RowConsistent, OneOwner, WorkInv, LeaseInv
<1>4. AttemptsPaidFor' /\ BudgetInv'
  BY DEF TypeOK, AttemptsPaidFor, BudgetInv, LeaseInv, WorkInv
<1> QED
  BY <1>1, <1>2, <1>3, <1>4

\* The provider accepts late.
LEMMA LateAcceptStep ==
    ASSUME IInv, NEW d \in Deliveries, LateAccept(d)
    PROVE  IInv'
<1> USE LimitsArePositive, NoneIsNoDelivery DEF IInv, row, worker, provider, LateAccept
<1>1. TypeOK'
  BY DEF TypeOK, WorkInv
<1>2. RowConsistent' /\ WorkInv' /\ QueuedInv'
  BY DEF TypeOK, RowConsistent, WorkInv, LeaseInv, BudgetInv, QueuedInv
<1>3. OneOwner' /\ LeaseInv'
  BY DEF TypeOK, RowConsistent, OneOwner, WorkInv, LeaseInv
<1>4. AttemptsPaidFor' /\ BudgetInv'
  BY DEF TypeOK, AttemptsPaidFor, BudgetInv, LeaseInv, WorkInv
<1> QED
  BY <1>1, <1>2, <1>3, <1>4

\* A claim draws a number nobody holds.
LEMMA ClaimStep ==
    ASSUME IInv, NEW w \in Workers, NEW B \in SUBSET Deliveries, Claim(w, B)
    PROVE  IInv'
<1> USE LimitsArePositive, NoneIsNoDelivery DEF IInv, row, worker, provider, Claim, Claimable
<1>1. TypeOK'
  BY DEF TypeOK, WorkInv
<1>2. RowConsistent' /\ WorkInv' /\ QueuedInv'
  BY DEF TypeOK, RowConsistent, WorkInv, LeaseInv, BudgetInv, QueuedInv
<1>3. OneOwner' /\ LeaseInv'
  BY DEF TypeOK, RowConsistent, OneOwner, WorkInv, LeaseInv
<1>4. AttemptsPaidFor' /\ BudgetInv'
  <2>0. \A d \in B : attempts[d] < MaxAttempts + slips[d]
    BY DEF BudgetInv
  <2>1. \A d \in B : /\ status'[d] = "processing" /\ ~stale'[d]
                    /\ attempts'[d] = attempts[d] + 1 /\ slips'[d] = slips[d]
    BY DEF TypeOK
  <2>2. \A d \in Deliveries \ B : /\ status'[d] = status[d] /\ (stale'[d] <=> stale[d])
                                 /\ attempts'[d] = attempts[d] /\ slips'[d] = slips[d]
    BY DEF TypeOK
  <2> HIDE DEF Claim
  <2> QED
    BY <2>0, <2>1, <2>2 DEF TypeOK, AttemptsPaidFor, BudgetInv
<1> QED
  BY <1>1, <1>2, <1>3, <1>4

\* A row of the batch is taken in hand.
LEMMA TakeRowStep ==
    ASSUME IInv, NEW w \in Workers, NEW d \in Deliveries, TakeRow(w, d)
    PROVE  IInv'
<1> USE LimitsArePositive, NoneIsNoDelivery DEF IInv, row, worker, provider, TakeRow
<1>1. TypeOK'
  BY DEF TypeOK, WorkInv
<1>2. RowConsistent' /\ WorkInv' /\ QueuedInv'
  BY DEF TypeOK, RowConsistent, WorkInv, LeaseInv, BudgetInv, QueuedInv
<1>3. OneOwner' /\ LeaseInv'
  BY DEF TypeOK, RowConsistent, OneOwner, WorkInv, LeaseInv
<1>4. AttemptsPaidFor' /\ BudgetInv'
  BY DEF TypeOK, AttemptsPaidFor, BudgetInv, LeaseInv, WorkInv
<1> QED
  BY <1>1, <1>2, <1>3, <1>4

\* A batch is over.
LEMMA EndBatchStep ==
    ASSUME IInv, NEW w \in Workers, EndBatch(w)
    PROVE  IInv'
<1> USE LimitsArePositive, NoneIsNoDelivery DEF IInv, row, worker, provider, EndBatch
<1>1. TypeOK'
  BY DEF TypeOK, WorkInv
<1>2. RowConsistent' /\ WorkInv' /\ QueuedInv'
  BY DEF TypeOK, RowConsistent, WorkInv, LeaseInv, BudgetInv, QueuedInv
<1>3. OneOwner' /\ LeaseInv'
  BY DEF TypeOK, RowConsistent, OneOwner, WorkInv, LeaseInv
<1>4. AttemptsPaidFor' /\ BudgetInv'
  BY DEF TypeOK, AttemptsPaidFor, BudgetInv, LeaseInv, WorkInv
<1> QED
  BY <1>1, <1>2, <1>3, <1>4

\* The provider is called.
LEMMA SendStep ==
    ASSUME IInv, NEW w \in Workers, Send(w)
    PROVE  IInv'
<1> USE LimitsArePositive, NoneIsNoDelivery DEF IInv, row, worker, provider, Send
<1>1. TypeOK'
  BY DEF TypeOK, WorkInv
<1>2. RowConsistent' /\ WorkInv' /\ QueuedInv'
  BY DEF TypeOK, RowConsistent, WorkInv, LeaseInv, BudgetInv, QueuedInv
<1>3. OneOwner' /\ LeaseInv'
  BY DEF TypeOK, RowConsistent, OneOwner, WorkInv, LeaseInv
<1>4. AttemptsPaidFor' /\ BudgetInv'
  BY DEF TypeOK, AttemptsPaidFor, BudgetInv, LeaseInv, WorkInv
<1> QED
  BY <1>1, <1>2, <1>3, <1>4

\* A worker stops.
LEMMA AbandonStep ==
    ASSUME IInv, NEW w \in Workers, Abandon(w)
    PROVE  IInv'
<1> USE LimitsArePositive, NoneIsNoDelivery DEF IInv, row, worker, provider, Abandon
<1>1. TypeOK'
  BY DEF TypeOK, WorkInv
<1>2. RowConsistent' /\ WorkInv' /\ QueuedInv'
  BY DEF TypeOK, RowConsistent, WorkInv, LeaseInv, BudgetInv, QueuedInv
<1>3. OneOwner' /\ LeaseInv'
  BY DEF TypeOK, RowConsistent, OneOwner, WorkInv, LeaseInv
<1>4. AttemptsPaidFor' /\ BudgetInv'
  BY DEF TypeOK, AttemptsPaidFor, BudgetInv, LeaseInv, WorkInv
<1> QED
  BY <1>1, <1>2, <1>3, <1>4

\* A mark settles the row of its lease, or nothing.
LEMMA MarkStep ==
    ASSUME IInv, NEW w \in Workers, NEW result \in {"pending", "sent", "failed"},
           wpc[w] \in {"obsolete", "markSent", "markFailed"},
           result = "pending" => mine[w][cur[w]] < MaxAttempts, Mark(w, result)
    PROVE  IInv'
<1> USE LimitsArePositive, NoneIsNoDelivery DEF IInv, provider, Mark, NextRow
<1>0. cur[w] \in Deliveries
  BY DEF WorkInv
<1>1. CASE OwnsLease(w)
  <2>0. Settle(cur[w], result)
    BY <1>1, Zenon
  <2>1. TypeOK'
    <3>1. /\ status' \in [Deliveries -> {"none", "pending", "processing", "sent", "failed",
                                         "purged"}]
          /\ lease' \in [Deliveries -> Nat] /\ attempts' \in [Deliveries -> Nat]
          /\ body' \in [Deliveries -> BOOLEAN] /\ due' \in [Deliveries -> BOOLEAN]
          /\ stale' \in [Deliveries -> BOOLEAN]
      BY <1>0, <2>0, SettleRow
    <3> QED
      BY <1>0, <3>1 DEF TypeOK
  <2>2. RowConsistent'
    BY <1>0, <1>1, <2>0, SettleRow DEF OwnsLease, TypeOK, RowConsistent
  <2>5. WorkInv'
    BY <1>0, <2>0 DEF TypeOK, WorkInv
  <2>6. QueuedInv'
    BY <1>0, <1>1, <2>0, SettleRow DEF OwnsLease, TypeOK, QueuedInv
  <2>3. OneOwner' /\ LeaseInv'
    BY <1>0, <2>0, SettleRow DEF TypeOK, OneOwner, LeaseInv
  <2>4. AttemptsPaidFor' /\ BudgetInv'
    BY <1>0, <1>1, <2>0, SettleRow DEF OwnsLease, TypeOK, RowConsistent, AttemptsPaidFor,
       BudgetInv, LeaseInv
  <2> QED
    BY <2>1, <2>2, <2>3, <2>4, <2>5, <2>6
<1>2. CASE ~OwnsLease(w)
  <2>0. UNCHANGED row
    BY <1>2, Zenon
  <2> QED
    BY <1>0, <2>0 DEF row, TypeOK, RowConsistent, WorkInv, LeaseInv, BudgetInv, QueuedInv,
       OneOwner, AttemptsPaidFor
<1> QED
  BY <1>1, <1>2

\* A mark of success that fails took effect or not.
LEMMA MarkSentFailsStep ==
    ASSUME IInv, NEW w \in Workers, MarkSentFails(w)
    PROVE  IInv'
<1> USE LimitsArePositive, NoneIsNoDelivery DEF IInv, provider, MarkSentFails
<1>0. cur[w] \in Deliveries
  BY DEF WorkInv
<1>1. CASE OwnsLease(w) /\ Settle(cur[w], "sent")
  <2>1. TypeOK'
    <3>1. /\ status' \in [Deliveries -> {"none", "pending", "processing", "sent", "failed",
                                         "purged"}]
          /\ lease' \in [Deliveries -> Nat] /\ attempts' \in [Deliveries -> Nat]
          /\ body' \in [Deliveries -> BOOLEAN] /\ due' \in [Deliveries -> BOOLEAN]
          /\ stale' \in [Deliveries -> BOOLEAN]
      BY <1>0, <1>1, SettleRow
    <3> QED
      BY <1>0, <3>1 DEF TypeOK
  <2>2. RowConsistent' /\ WorkInv' /\ QueuedInv'
    BY <1>0, <1>1, SettleRow DEF OwnsLease, TypeOK, RowConsistent, WorkInv, QueuedInv
  <2>3. OneOwner'
    BY DEF OneOwner
  <2>5. LeaseInv'
    <3>1. lease' = [lease EXCEPT ![cur[w]] = 0] /\ attempts' = attempts /\ mine' = mine
      BY <1>0, <1>1, SettleRow
    <3> QED
      BY <1>0, <3>1 DEF TypeOK, LeaseInv
  <2>4. AttemptsPaidFor' /\ BudgetInv'
    BY <1>0, <1>1, SettleRow DEF TypeOK, AttemptsPaidFor, BudgetInv
  <2> QED
    BY <2>1, <2>2, <2>3, <2>4, <2>5
<1>2. CASE UNCHANGED row
  BY <1>0, <1>2 DEF row, TypeOK, RowConsistent, WorkInv, LeaseInv, BudgetInv, QueuedInv,
     OneOwner, AttemptsPaidFor
<1> QED
  BY <1>1, <1>2

-----------------------------------------------------------------------------
\* A step that marks a row does so for a worker that holds it in hand.
LEMMA MarksAreMarks ==
    ASSUME IInv, NEW w \in Workers, MarkObsolete(w) \/ MarkSent(w) \/ MarkFailed(w)
    PROVE  \E result \in {"pending", "sent", "failed"} :
              /\ wpc[w] \in {"obsolete", "markSent", "markFailed"}
              /\ result = "pending" => mine[w][cur[w]] < MaxAttempts
              /\ result = "sent" => wpc[w] = "markSent"
              /\ Mark(w, result)
<1>1. CASE MarkObsolete(w)
  BY <1>1 DEF MarkObsolete
<1>2. CASE MarkSent(w)
  BY <1>2 DEF MarkSent
<1>3. CASE MarkFailed(w) /\ GivesUp(w)
  BY <1>3 DEF MarkFailed
<1>4. CASE MarkFailed(w) /\ ~GivesUp(w)
  <2>1. cur[w] \in Deliveries /\ mine[w][cur[w]] \in Nat
    BY <1>4 DEF MarkFailed, IInv, TypeOK, WorkInv
  <2>2. mine[w][cur[w]] < MaxAttempts
    BY <1>4, <2>1, LimitsArePositive DEF GivesUp
  <2> QED
    BY <1>4, <2>2 DEF MarkFailed
<1> QED
  BY <1>1, <1>2, <1>3, <1>4

\* Every step preserves the inductive invariant.
LEMMA NextInv == IInv /\ [Next]_vars => IInv'
<1> SUFFICES ASSUME IInv, [Next]_vars PROVE IInv'
  OBVIOUS
<1>1. ASSUME NEW d \in Deliveries,
             Enqueue(d) \/ SourceDies(d) \/ BecomeDue(d) \/ Purge(d) \/ LateAccept(d)
      PROVE  IInv'
  BY <1>1, EnqueueStep, SourceDiesStep, BecomeDueStep, PurgeStep, LateAcceptStep
<1>2. ASSUME NEW d \in Deliveries, AbandonedGoesStale(d) \/ OvertakenGoesStale(d) PROVE IInv'
  <2>1. GoStale(d) /\ faults' \in {faults, faults + 1} /\ faults' <= MaxFaults
    BY <1>2, LimitsArePositive DEF AbandonedGoesStale, OvertakenGoesStale, IInv, TypeOK
  <2> QED
    BY <2>1, StaleStep
<1>3. ASSUME NEW w \in Workers, NEW B \in SUBSET Deliveries, Claim(w, B) PROVE IInv'
  BY <1>3, ClaimStep
<1>4. ASSUME NEW w \in Workers, Work(w) PROVE IInv'
  BY <1>4, TakeRowStep, EndBatchStep, SendStep, MarksAreMarks, MarkStep, MarkSentFailsStep
     DEF Work
<1>5. ASSUME NEW w \in Workers, Abandon(w) PROVE IInv'
  BY <1>5, AbandonStep
<1>6. CASE UNCHANGED vars
  BY <1>6 DEF vars, row, worker, provider, IInv, TypeOK, RowConsistent, OneOwner,
     AttemptsPaidFor, WorkInv, LeaseInv, BudgetInv, QueuedInv
<1> QED
  BY <1>1, <1>2, <1>3, <1>4, <1>5, <1>6 DEF Next

\* The inductive invariant holds in every state.
THEOREM Invariance == Spec => []IInv
<1>1. Init => IInv
  BY InitInv
<1>2. IInv /\ [Next]_vars => IInv'
  BY NextInv
<1> QED
  BY <1>1, <1>2, PTL DEF Spec

\* Rows, workers and provider are of their types in every state.
THEOREM TypeCorrect == Spec => []TypeOK
<1>1. IInv => TypeOK
  BY DEF IInv
<1> QED
  BY <1>1, Invariance, PTL

\* Marks, claims and crashes in any order leave a row its body as long as it may
\* be sent, and no longer.
THEOREM RowsStayConsistent == Spec => []RowConsistent
<1>1. IInv => RowConsistent
  BY DEF IInv
<1> QED
  BY <1>1, Invariance, PTL

\* However many workers claim a row one after the other, one can settle it.
THEOREM LeasesExclude == Spec => []OneOwner
<1>1. IInv => OneOwner
  BY DEF IInv
<1> QED
  BY <1>1, Invariance, PTL

\* Whatever the limit and the number of faults, an attempt beyond the limit was
\* paid for by a claim that went stale.
THEOREM AttemptsArePaidFor == Spec => []AttemptsPaidFor
<1>1. IInv => AttemptsPaidFor
  BY DEF IInv
<1> QED
  BY <1>1, Invariance, PTL

-----------------------------------------------------------------------------
\* What a step may do to the status of rows and to what the provider accepted.
LEMMA StepShape ==
    ASSUME IInv, Next
    PROVE  \/ UNCHANGED <<status, accepted>>
           \/ \E d \in Deliveries : Enqueue(d) \/ Purge(d) \/ LateAccept(d)
           \/ \E w \in Workers, B \in SUBSET Deliveries : Claim(w, B)
           \/ \E w \in Workers : Send(w) \/ MarkSentFails(w)
           \/ \E w \in Workers : MarkObsolete(w) \/ MarkSent(w) \/ MarkFailed(w)
<1>1. ASSUME NEW d \in Deliveries,
             SourceDies(d) \/ BecomeDue(d) \/ AbandonedGoesStale(d) \/ OvertakenGoesStale(d)
      PROVE  UNCHANGED <<status, accepted>>
  BY <1>1 DEF SourceDies, BecomeDue, AbandonedGoesStale, OvertakenGoesStale, GoStale, row,
     provider
<1>2. ASSUME NEW w \in Workers, NEW d \in Deliveries, TakeRow(w, d)
      PROVE  UNCHANGED <<status, accepted>>
  BY <1>2 DEF TakeRow, row, provider
<1>3. ASSUME NEW w \in Workers, EndBatch(w) \/ Abandon(w) PROVE UNCHANGED <<status, accepted>>
  BY <1>3 DEF EndBatch, Abandon, row, provider
<1> QED
  BY <1>1, <1>2, <1>3 DEF Next, Work

\* A mark changes at most the row in hand, from in process to its result, and
\* reports only what was accepted as sent.
LEMMA MarkShape ==
    ASSUME IInv, NEW w \in Workers,
           MarkObsolete(w) \/ MarkSent(w) \/ MarkFailed(w) \/ MarkSentFails(w)
    PROVE  /\ UNCHANGED accepted
           /\ \/ UNCHANGED status
              \/ \E result \in {"pending", "sent", "failed"} :
                    /\ cur[w] \in Deliveries /\ status[cur[w]] = "processing"
                    /\ status' = [status EXCEPT ![cur[w]] = result]
                    /\ result = "sent" => cur[w] \in accepted
<1>1. ASSUME NEW result \in {"pending", "sent", "failed"},
             wpc[w] \in {"obsolete", "markSent", "markFailed"},
             result = "sent" => wpc[w] = "markSent", Mark(w, result)
      PROVE  /\ UNCHANGED accepted
             /\ \/ UNCHANGED status
                \/ /\ cur[w] \in Deliveries /\ status[cur[w]] = "processing"
                   /\ status' = [status EXCEPT ![cur[w]] = result]
                   /\ result = "sent" => cur[w] \in accepted
  <2>1. cur[w] \in Deliveries /\ (wpc[w] = "markSent" => cur[w] \in accepted)
    BY <1>1 DEF IInv, WorkInv
  <2>2. UNCHANGED accepted /\ ((OwnsLease(w) /\ Settle(cur[w], result)) \/ UNCHANGED row)
    BY <1>1, Zenon DEF Mark, provider
  <2>3. CASE OwnsLease(w) /\ Settle(cur[w], result)
    BY <1>1, <2>1, <2>2, <2>3, Zenon DEF OwnsLease, Settle
  <2> QED
    BY <2>2, <2>3 DEF row
<1>2. CASE MarkSentFails(w)
  BY <1>2, Zenon DEF MarkSentFails, OwnsLease, Settle, IInv, WorkInv, row, provider
<1> QED
  BY <1>1, <1>2, MarksAreMarks

\* The safety half of the refinement: whatever workers do, crash or overtake, the
\* outcomes and the provider move as EmailPromise lets them, and "sent" is
\* reported only of what was accepted.
THEOREM ImplementsPromise == Spec => Promise!Init /\ [][Promise!Next]_(Promise!vars)
<1>1. Init => Promise!Init
  BY DEF Init, Promise!Init
<1>2. IInv /\ [Next]_vars => [Promise!Next]_(Promise!vars)
  <2> SUFFICES ASSUME IInv, Next PROVE [Promise!Next]_(Promise!vars)
    BY DEF vars, row, provider, Promise!vars
  <2>1. CASE UNCHANGED <<status, accepted>>
    BY <2>1 DEF Promise!vars
  <2>2. ASSUME NEW d \in Deliveries, Enqueue(d) PROVE Promise!Queue(d)
    BY <2>2 DEF Enqueue, Promise!Queue, provider, IInv, TypeOK
  <2>3. ASSUME NEW d \in Deliveries, Purge(d) PROVE Promise!Forget(d)
    BY <2>3 DEF Purge, Promise!Forget, provider, IInv, TypeOK
  <2>4. ASSUME NEW d \in Deliveries, LateAccept(d) PROVE Promise!Accept(d)
    BY <2>4 DEF LateAccept, Promise!Accept, row, IInv, TypeOK, QueuedInv
  <2>5. ASSUME NEW w \in Workers, NEW B \in SUBSET Deliveries, Claim(w, B)
        PROVE  UNCHANGED Promise!vars
    BY <2>5 DEF Claim, Claimable, Promise!vars, provider, IInv, TypeOK
  <2>6. ASSUME NEW w \in Workers, Send(w)
        PROVE  UNCHANGED <<status, accepted>> \/ Promise!Accept(cur[w])
    <3>1. cur[w] \in Deliveries /\ status[cur[w]] # "none"
      BY <2>6 DEF Send, IInv, TypeOK, WorkInv, LeaseInv, BudgetInv
    <3>2. UNCHANGED status /\ (UNCHANGED accepted \/ accepted' = accepted \cup {cur[w]})
      BY <2>6 DEF Send, row, provider
    <3> QED
      BY <3>1, <3>2 DEF Promise!Accept
  <2>7. ASSUME NEW w \in Workers,
               MarkObsolete(w) \/ MarkSent(w) \/ MarkFailed(w) \/ MarkSentFails(w)
        PROVE  [Promise!Next]_(Promise!vars)
    <3>1. CASE UNCHANGED <<status, accepted>>
      BY <3>1 DEF Promise!vars
    <3>2. ASSUME NEW result \in {"pending", "sent", "failed"},
                 UNCHANGED accepted,
                 cur[w] \in Deliveries, status[cur[w]] = "processing",
                 status' = [status EXCEPT ![cur[w]] = result],
                 result = "sent" => cur[w] \in accepted
          PROVE  [Promise!Next]_(Promise!vars)
      <4>1. CASE result = "pending"
        BY <3>2, <4>1 DEF Promise!vars, IInv, TypeOK
      <4>2. CASE result # "pending"
        <5>1. Promise!Report(cur[w], result)
          BY <3>2, <4>2 DEF Promise!Report, IInv, TypeOK
        <5> QED
          BY <3>2, <4>2, <5>1 DEF Promise!Next
      <4> QED
        BY <4>1, <4>2
    <3> QED
      BY <2>7, <3>1, <3>2, MarkShape
  <2>8. ASSUME NEW w \in Workers, Send(w) PROVE cur[w] \in Deliveries
    BY <2>8 DEF Send, IInv, WorkInv
  <2> QED
    BY <2>1, <2>2, <2>3, <2>4, <2>5, <2>6, <2>7, <2>8, StepShape DEF Promise!Next
<1> QED
  BY <1>1, <1>2, Invariance, PTL DEF Spec
=============================================================================
