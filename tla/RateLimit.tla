----------------------------- MODULE RateLimit -----------------------------
(***************************************************************************)
(* The counter of one client in the shared rate limiter                    *)
(* (middleware/rateLimitStore.ts) and the requests of that client, at any  *)
(* instance of the API.  INCR, TTL and EXPIRE are three round trips; Redis *)
(* may fail any of them, apply a command whose answer is lost, or be sent  *)
(* a command twice, and the process may die between two of them.           *)
(***************************************************************************)
EXTENDS Naturals, FiniteSets

CONSTANTS
    Requests,   \* requests in progress at a time
    Limit,      \* hits admitted in a window
    Window      \* ticks of a window

ASSUME LimitsArePositive == Limit \in Nat \ {0} /\ Window \in Nat \ {0}
ASSUME RequestsFinite == IsFiniteSet(Requests)

VARIABLES
    count,      \* the key: 0 when there is none; Limit + 1 stands for more
    ttl,        \* its time to live; 0 when it has none
    pc, hits,   \* per request: control, and the answer of its INCR
    reply,      \* the last answer of each request
    current,    \* history: requests whose INCR the key still counts
    granted     \* history: admissions by hits of this key

redis == <<count, ttl>>
history == <<current, granted>>
vars == <<redis, pc, hits, reply, history>>

TypeOK ==
    /\ count \in 0 .. Limit + 1
    /\ ttl \in 0 .. Window /\ (ttl > 0 => count > 0)
    /\ pc \in [Requests -> {"idle", "incr", "ttl", "expire"}]
    /\ hits \in [Requests -> 0 .. Limit + 1]
    /\ reply \in [Requests -> {"none", "admitted", "limited", "error"}]
    /\ current \in SUBSET Requests
    /\ granted \in Nat

Init ==
    /\ count = 0 /\ ttl = 0
    /\ pc = [r \in Requests |-> "idle"]
    /\ hits = [r \in Requests |-> 0]
    /\ reply = [r \in Requests |-> "none"]
    /\ current = {} /\ granted = 0

-----------------------------------------------------------------------------
Arrive(r) ==
    /\ pc[r] = "idle"
    /\ pc' = [pc EXCEPT ![r] = "incr"]
    /\ hits' = [hits EXCEPT ![r] = 0]
    /\ reply' = [reply EXCEPT ![r] = "none"]
    /\ current' = current \ {r}
    /\ UNCHANGED <<redis, granted>>

More == IF count > Limit THEN count ELSE count + 1

\* Mutant of Incr: the counter is read, then incremented.
ReadThenIncr(r) ==
    /\ pc[r] = "incr"
    /\ count' = More
    /\ hits' = [hits EXCEPT ![r] = count]
    /\ current' = current \cup {r}
    /\ pc' = [pc EXCEPT ![r] = "ttl"]
    /\ UNCHANGED <<ttl, reply, granted>>

Incr(r) ==
    /\ pc[r] = "incr"
    /\ count' = More
    /\ hits' = [hits EXCEPT ![r] = More]
    /\ current' = current \cup {r}
    /\ pc' = [pc EXCEPT ![r] = "ttl"]
    /\ UNCHANGED <<ttl, reply, granted>>

\* The connection breaks or the time is over after Redis has counted: the client
\* sends it again or gives up.
IncrLost(r) ==
    /\ pc[r] = "incr"
    /\ count' = More
    /\ UNCHANGED <<ttl, pc, hits, reply, history>>

\* express-rate-limit compares the hits with the limit.
Decide(r) ==
    /\ pc' = [pc EXCEPT ![r] = "idle"]
    /\ reply' = [reply EXCEPT ![r] = IF hits[r] <= Limit THEN "admitted" ELSE "limited"]
    /\ granted' = IF r \in current /\ hits[r] <= Limit THEN granted + 1 ELSE granted

\* Mutant of ReadTtl: only the first hit sets the expiry.
ReadTtlFirst(r) ==
    /\ pc[r] = "ttl"
    /\ IF hits[r] = 1
       THEN pc' = [pc EXCEPT ![r] = "expire"] /\ UNCHANGED <<reply, granted>>
       ELSE Decide(r)
    /\ UNCHANGED <<redis, hits, current>>

\* A missing key and a key that does not expire both answer below 0.
ReadTtl(r) ==
    /\ pc[r] = "ttl"
    /\ IF hits[r] = 1 \/ ttl = 0
       THEN pc' = [pc EXCEPT ![r] = "expire"] /\ UNCHANGED <<reply, granted>>
       ELSE Decide(r)
    /\ UNCHANGED <<redis, hits, current>>

\* Mutant of Expire: the seconds of the window are rounded up when they are whole.
ExpireRoundedUp(r) ==
    /\ pc[r] = "expire"
    /\ ttl' = IF count > 0 THEN Window + 1 ELSE 0
    /\ Decide(r)
    /\ UNCHANGED <<count, hits, current>>

\* EXPIRE does nothing to a key that is gone.
Expire(r) ==
    /\ pc[r] = "expire"
    /\ ttl' = IF count > 0 THEN Window ELSE 0
    /\ Decide(r)
    /\ UNCHANGED <<count, hits, current>>

\* It is applied and sent again, or applied when nobody waits for the answer.
ExpireLost(r) ==
    /\ pc[r] = "expire"
    /\ ttl' = IF count > 0 THEN Window ELSE 0
    /\ UNCHANGED <<count, pc, hits, reply, history>>

\* A command is refused, times out or is lost, or the process dies: no answer,
\* or an error.
Fail(r) ==
    /\ pc[r] # "idle"
    /\ pc' = [pc EXCEPT ![r] = "idle"]
    /\ reply' = [reply EXCEPT ![r] = "error"]
    /\ UNCHANGED <<redis, hits, history>>

\* Time passes, and a key whose time to live is over is gone.
Tick ==
    /\ ttl > 0
    /\ ttl' = ttl - 1
    /\ IF ttl = 1
       THEN count' = 0 /\ current' = {} /\ granted' = 0
       ELSE UNCHANGED <<count, history>>
    /\ UNCHANGED <<pc, hits, reply>>

Next ==
    \/ \E r \in Requests :
          \/ Arrive(r) \/ Incr(r) \/ IncrLost(r) \/ ReadTtl(r)
          \/ Expire(r) \/ ExpireLost(r) \/ Fail(r)
    \/ Tick

Spec == Init /\ [][Next]_vars

\* Time passes, and a command that is sent again and again is applied sometimes.
Fairness ==
    /\ WF_vars(Tick)
    /\ \A r \in Requests : SF_vars(Incr(r)) /\ SF_vars(ReadTtl(r)) /\ SF_vars(Expire(r))

FairSpec == Spec /\ Fairness

-----------------------------------------------------------------------------
(* Properties *)

\* "Redis failures fail the limiter closed rather than allowing an untracked
\* request flood": who is admitted was counted, though any command may fail.
FailsClosed == \A r \in Requests : reply[r] = "admitted" => hits[r] \in 1 .. Limit

\* The hits of one key admit at most Limit requests, and nobody else is admitted,
\* however many instances count at once and whatever failed before.
WindowQuota == granted <= Limit /\ FailsClosed

\* A client that keeps asking is not limited for ever: a key left without an
\* expiry, by a process that died or an EXPIRE that failed, is repaired.
NoLockout == (\E r \in Requests : []<>(pc[r] = "incr")) => []<>(count <= Limit)
=============================================================================
