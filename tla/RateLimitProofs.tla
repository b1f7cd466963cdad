-------------------------- MODULE RateLimitProofs --------------------------
(***************************************************************************)
(* For every number of instances, requests and hits admitted: the hits of  *)
(* one key admit no more than the limit, and nobody is admitted uncounted. *)
(***************************************************************************)
EXTENDS RateLimit, FiniteSetTheorems, TLAPS

\* Requests that hold an answer which will admit them by a hit of this key.
Pending == {r \in Requests : pc[r] \in {"ttl", "expire"} /\ r \in current /\ hits[r] <= Limit}

Spent == granted + Cardinality(Pending)

\* Hits that admit are hits that were counted, below the limit.
QuotaInv == Spent <= count /\ Spent <= Limit

\* Who is past its INCR was counted; who waits for Redis has no answer.
HitsInv ==
    \A r \in Requests :
        /\ pc[r] \in {"ttl", "expire"} => hits[r] > 0
        /\ pc[r] # "idle" => reply[r] = "none"

IInv == TypeOK /\ QuotaInv /\ HitsInv /\ FailsClosed

-----------------------------------------------------------------------------
\* Pending requests are finitely many.
LEMMA PendingFinite == IsFiniteSet(Pending) /\ Cardinality(Pending) \in Nat
<1>1. Pending \subseteq Requests
  BY DEF Pending
<1> QED
  BY <1>1, RequestsFinite, FS_Subset, FS_CardinalityType

\* Who is not admitted takes no more of the quota.
LEMMA PendingShrinks ==
    ASSUME Pending' \subseteq Pending
    PROVE  Cardinality(Pending') <= Cardinality(Pending) /\ Cardinality(Pending') \in Nat
<1>1. IsFiniteSet(Pending)
  BY PendingFinite
<1>2. IsFiniteSet(Pending') /\ Cardinality(Pending') <= Cardinality(Pending)
  BY <1>1, FS_Subset
<1> QED
  BY <1>2, FS_CardinalityType

\* The quota holds on when no hit is added and none is spent.
LEMMA QuietStep ==
    ASSUME IInv, Pending' \subseteq Pending, granted' = granted, count' \in Nat, count' >= count
    PROVE  QuotaInv'
<1>1. Cardinality(Pending') <= Cardinality(Pending) /\ Cardinality(Pending') \in Nat
  BY PendingShrinks
<1>2. Cardinality(Pending) \in Nat
  BY PendingFinite
<1> QED
  BY <1>1, <1>2, LimitsArePositive DEF IInv, TypeOK, QuotaInv, Spent

\* No hit, no answer.
LEMMA InitInv == Init => IInv
<1> SUFFICES ASSUME Init PROVE IInv
  OBVIOUS
<1>1. TypeOK /\ HitsInv /\ FailsClosed
  BY LimitsArePositive DEF Init, TypeOK, HitsInv, FailsClosed
<1>2. Pending = {}
  BY DEF Init, Pending
<1>3. QuotaInv
  BY <1>2, LimitsArePositive, FS_EmptySet DEF Init, QuotaInv, Spent
<1> QED
  BY <1>1, <1>3 DEF IInv

\* A request begins: an admission of it that counted is counted on.
LEMMA ArriveStep ==
    ASSUME IInv, NEW r \in Requests, Arrive(r)
    PROVE  IInv'
<1> USE DEF Arrive, redis
<1>1. TypeOK' /\ HitsInv' /\ FailsClosed'
  BY LimitsArePositive DEF IInv, TypeOK, HitsInv, FailsClosed
<1>2. Pending' \subseteq Pending
  BY DEF IInv, TypeOK, Pending
<1> QED
  BY <1>1, <1>2, QuietStep DEF IInv, TypeOK

\* A hit is added, which admits while it is within the limit.
LEMMA IncrStep ==
    ASSUME IInv, NEW r \in Requests, Incr(r)
    PROVE  IInv'
<1> USE LimitsArePositive DEF Incr, More
<1>1. TypeOK' /\ HitsInv' /\ FailsClosed'
  BY DEF IInv, TypeOK, HitsInv, FailsClosed
<1>2. CASE count < Limit
  <2>1. Pending' = Pending \cup {r} /\ r \notin Pending
    BY <1>2 DEF IInv, TypeOK, Pending
  <2>2. Cardinality(Pending') = Cardinality(Pending) + 1
    BY <2>1, PendingFinite, FS_AddElement
  <2> QED
    BY <1>1, <1>2, <2>2, PendingFinite DEF IInv, TypeOK, QuotaInv, Spent
<1>3. CASE ~(count < Limit)
  <2>1. Pending' \subseteq Pending
    BY <1>3 DEF IInv, TypeOK, Pending
  <2> QED
    BY <1>1, <1>3, <2>1, QuietStep DEF IInv, TypeOK
<1> QED
  BY <1>2, <1>3

\* A hit whose answer is lost admits nobody.
LEMMA IncrLostStep ==
    ASSUME IInv, NEW r \in Requests, IncrLost(r)
    PROVE  IInv'
<1> USE LimitsArePositive DEF IncrLost, More, history
<1>1. TypeOK' /\ HitsInv' /\ FailsClosed'
  BY DEF IInv, TypeOK, HitsInv, FailsClosed
<1>2. Pending' \subseteq Pending
  BY DEF Pending
<1> QED
  BY <1>1, <1>2, QuietStep DEF IInv, TypeOK

\* A decision spends the hit it is made by.
LEMMA DecideStep ==
    ASSUME IInv, NEW r \in Requests, pc[r] \in {"ttl", "expire"}, Decide(r),
           UNCHANGED <<count, hits, current>>, ttl' \in 0 .. Window, ttl' > 0 => count > 0
    PROVE  IInv'
<1> USE LimitsArePositive DEF Decide
<1>1. TypeOK'
  BY DEF IInv, TypeOK
<1>2. HitsInv' /\ FailsClosed'
  BY DEF IInv, TypeOK, HitsInv, FailsClosed
<1>3. CASE r \in Pending
  <2>1. Pending' = Pending \ {r} /\ granted' = granted + 1
    BY <1>3 DEF IInv, TypeOK, Pending
  <2>2. Cardinality(Pending') = Cardinality(Pending) - 1
    BY <1>3, <2>1, PendingFinite, FS_RemoveElement
  <2> QED
    BY <1>1, <1>2, <2>1, <2>2, PendingFinite DEF IInv, TypeOK, QuotaInv, Spent
<1>4. CASE r \notin Pending
  <2>1. Pending' \subseteq Pending /\ granted' = granted
    BY <1>4 DEF IInv, TypeOK, Pending
  <2> QED
    BY <1>1, <1>2, <2>1, QuietStep DEF IInv, TypeOK
<1> QED
  BY <1>3, <1>4

\* The time to live is read: the key is to expire, or a decision is made.
LEMMA ReadTtlStep ==
    ASSUME IInv, NEW r \in Requests, ReadTtl(r)
    PROVE  IInv'
<1> USE DEF ReadTtl, redis
<1>1. CASE pc' = [pc EXCEPT ![r] = "expire"] /\ UNCHANGED <<reply, granted>>
  <2>1. TypeOK' /\ HitsInv' /\ FailsClosed'
    BY <1>1 DEF IInv, TypeOK, HitsInv, FailsClosed
  <2>2. Pending' \subseteq Pending
    BY <1>1 DEF IInv, TypeOK, Pending
  <2> QED
    BY <1>1, <2>1, <2>2, QuietStep DEF IInv, TypeOK
<1>2. CASE Decide(r)
  BY <1>2, DecideStep DEF IInv, TypeOK
<1> QED
  BY <1>1, <1>2

\* The key is made to expire, and a decision is made.
LEMMA ExpireStep ==
    ASSUME IInv, NEW r \in Requests, Expire(r)
    PROVE  IInv'
BY DecideStep, LimitsArePositive DEF Expire, IInv, TypeOK

\* An expiry that is set again, or late, spends nothing.
LEMMA ExpireLostStep ==
    ASSUME IInv, NEW r \in Requests, ExpireLost(r)
    PROVE  IInv'
<1> USE LimitsArePositive DEF ExpireLost, history
<1>1. TypeOK' /\ HitsInv' /\ FailsClosed'
  BY DEF IInv, TypeOK, HitsInv, FailsClosed
<1>2. Pending' \subseteq Pending
  BY DEF Pending
<1> QED
  BY <1>1, <1>2, QuietStep DEF IInv, TypeOK

\* A request that fails admits nobody.
LEMMA FailStep ==
    ASSUME IInv, NEW r \in Requests, Fail(r)
    PROVE  IInv'
<1> USE DEF Fail, redis, history
<1>1. TypeOK' /\ HitsInv' /\ FailsClosed'
  BY DEF IInv, TypeOK, HitsInv, FailsClosed
<1>2. Pending' \subseteq Pending
  BY DEF IInv, TypeOK, Pending
<1> QED
  BY <1>1, <1>2, QuietStep DEF IInv, TypeOK

\* With the key the hits that admit by it are gone.
LEMMA TickStep ==
    ASSUME IInv, Tick
    PROVE  IInv'
<1> USE LimitsArePositive DEF Tick, history
<1>1. TypeOK' /\ HitsInv' /\ FailsClosed'
  BY DEF IInv, TypeOK, HitsInv, FailsClosed
<1>2. CASE ttl = 1
  <2>1. Pending' = {}
    BY <1>2 DEF Pending
  <2> QED
    BY <1>1, <1>2, <2>1, FS_EmptySet DEF IInv, QuotaInv, Spent
<1>3. CASE ttl # 1
  <2>1. Pending' \subseteq Pending
    BY <1>3 DEF Pending
  <2> QED
    BY <1>1, <1>3, <2>1, QuietStep DEF IInv, TypeOK
<1> QED
  BY <1>2, <1>3

\* Every step keeps the inductive invariant.
LEMMA NextInv == IInv /\ [Next]_vars => IInv'
<1> SUFFICES ASSUME IInv, [Next]_vars PROVE IInv'
  OBVIOUS
<1>1. ASSUME NEW r \in Requests,
             \/ Arrive(r) \/ Incr(r) \/ IncrLost(r) \/ ReadTtl(r)
             \/ Expire(r) \/ ExpireLost(r) \/ Fail(r)
      PROVE  IInv'
  BY <1>1, ArriveStep, IncrStep, IncrLostStep, ReadTtlStep, ExpireStep, ExpireLostStep, FailStep
<1>2. CASE UNCHANGED vars
  BY <1>2 DEF vars, redis, history, IInv, TypeOK, QuotaInv, Spent, Pending, HitsInv, FailsClosed
<1> QED
  BY <1>1, <1>2, TickStep DEF Next

\* The inductive invariant holds in every state.
THEOREM Invariance == Spec => []IInv
<1>1. Init => IInv
  BY InitInv
<1>2. IInv /\ [Next]_vars => IInv'
  BY NextInv
<1> QED
  BY <1>1, <1>2, PTL DEF Spec

\* The key, its time to live and the answers are of their types in every state.
THEOREM TypeCorrect == Spec => []TypeOK
<1>1. IInv => TypeOK
  BY DEF IInv
<1> QED
  BY <1>1, Invariance, PTL

\* However many instances count at once, whichever commands fail or are applied
\* twice, one key admits no more than the limit, and nobody uncounted.
THEOREM QuotaIsKept == Spec => []WindowQuota
<1>1. IInv => WindowQuota
  BY PendingFinite, LimitsArePositive DEF IInv, TypeOK, QuotaInv, Spent, WindowQuota
<1> QED
  BY <1>1, Invariance, PTL
=============================================================================
