------------------------------ MODULE Process ------------------------------
(***************************************************************************)
(* One process of the API: its requests, its workers, the pool of database *)
(* clients they share, the readiness probe (routes/health.routes.ts), and  *)
(* its shutdown (index.ts).                                                *)
(*                                                                         *)
(* JavaScript runs one callback at a time, so a synchronous section is one *)
(* action.  PostgreSQL and Redis come and go; what is asked of them while  *)
(* they are away may never be answered.  A handler keeps running when its  *)
(* client hangs up.                                                        *)
(***************************************************************************)
EXTENDS Naturals, FiniteSets

CONSTANTS
    Requests,       \* connections of the HTTP server, one request at a time
    Workers,        \* the email worker and the retention worker
    MaxClients,     \* size of the pool
    MaxQueue        \* bound: abandoned checks that still wait for a client

ASSUME PoolNotEmpty == MaxClients \in Nat \ {0} /\ MaxQueue \in Nat
ASSUME JobsDistinct == IsFiniteSet(Requests \cup Workers) /\ Requests \cap Workers = {}

VARIABLES
    up,             \* per dependency: it answers
    conn,           \* per request: its connection is open
    job,            \* what a handler or a worker does; "query" holds a client
    probe,          \* the shared probe: the state of its two checks
    queued, late,   \* checks that timed out: waiting for a client, holding one
    phase,          \* of the shutdown
    timer,          \* the timer that forces the exit is armed
    exit,           \* how the process ended
    seen            \* history: dependencies that answered since the probe began

Deps == {"postgres", "redis"}

checks == <<probe, queued, late, seen>>
shutdown == <<phase, timer, exit>>
vars == <<up, conn, job, checks, shutdown>>

NoProbe == [postgres |-> "off", redis |-> "off"]

TypeOK ==
    /\ up \in [Deps -> BOOLEAN]
    /\ conn \in [Requests -> BOOLEAN]
    /\ job \in [Requests \cup Workers -> {"none", "run", "query", "ready"}]
    /\ \A w \in Workers : job[w] # "ready"
    /\ probe \in [postgres : {"off", "connect", "query", "up", "down"},
                  redis : {"off", "query", "up", "down"}]
    /\ queued \in 0 .. MaxQueue
    /\ late \in 0 .. MaxClients
    /\ phase \in {"up", "closing", "stopping", "ending", "quitting", "exited"}
    /\ timer \in BOOLEAN
    /\ exit \in {"no", "graceful", "forced"}
    /\ seen \subseteq Deps

\* The dependencies answered, the workers and the server are started.
Init ==
    /\ up = [d \in Deps |-> TRUE]
    /\ conn = [r \in Requests |-> FALSE]
    /\ job = [j \in Requests \cup Workers |-> "none"]
    /\ probe = NoProbe
    /\ queued = 0 /\ late = 0
    /\ phase = "up" /\ timer = FALSE /\ exit = "no"
    /\ seen = {}

Alive == exit = "no"

\* Somebody waits for the probe.
Awaited == \E r \in Requests : job[r] = "ready"

-----------------------------------------------------------------------------
(* The pool *)

Holders == {j \in Requests \cup Workers : job[j] = "query"}

InUse == Cardinality(Holders) + late + IF probe.postgres = "query" THEN 1 ELSE 0

\* pool.end refuses whoever asks for a client from then on.
PoolOpen == phase \in {"up", "closing", "stopping"}

Available == PoolOpen /\ InUse < MaxClients

\* A dependency goes away or comes back.
Toggle(d) ==
    /\ Alive
    /\ up' = [up EXCEPT ![d] = ~@]
    /\ seen' = IF Awaited THEN seen \cup {e \in Deps : up'[e]} ELSE seen
    /\ UNCHANGED <<conn, job, probe, queued, late, shutdown>>

-----------------------------------------------------------------------------
(* Handlers and workers *)

\* After server.close only a connection that is still open brings a request.
Accepts(r) ==
    /\ Alive
    /\ job[r] = "none"
    /\ phase = "up" \/ (phase = "closing" /\ conn[r])

Arrive(r) ==
    /\ Accepts(r)
    /\ conn' = [conn EXCEPT ![r] = TRUE]
    /\ job' = [job EXCEPT ![r] = "run"]
    /\ UNCHANGED <<up, checks, shutdown>>

\* A transaction begins, or the ended pool refuses it.
Begin(j) ==
    /\ Alive
    /\ job[j] = "run"
    /\ \/ Available /\ job' = [job EXCEPT ![j] = "query"]
       \/ ~PoolOpen /\ job' = [job EXCEPT ![j] = "none"]
    /\ UNCHANGED <<up, conn, checks, shutdown>>

\* It commits or fails, which may take for ever.
End(j) ==
    /\ Alive
    /\ job[j] = "query"
    /\ job' = [job EXCEPT ![j] = "run"]
    /\ UNCHANGED <<up, conn, checks, shutdown>>

\* A handler answers; a worker's batch is over.
Done(j) ==
    /\ Alive
    /\ job[j] = "run"
    /\ job' = [job EXCEPT ![j] = "none"]
    /\ UNCHANGED <<up, conn, checks, shutdown>>

\* The client or the server ends the connection, with or without an answer.
Hangup(r) ==
    /\ Alive
    /\ conn[r]
    /\ conn' = [conn EXCEPT ![r] = FALSE]
    /\ UNCHANGED <<up, job, checks, shutdown>>

\* stop() of both workers is called at once: stopped is a phase.
WorkersStopped == phase \notin {"up", "closing"}

\* The interval timer fires: one run at a time, none once stopped.
Tick(w) ==
    /\ Alive
    /\ job[w] = "none" /\ ~WorkersStopped
    /\ job' = [job EXCEPT ![w] = "run"]
    /\ UNCHANGED <<up, conn, checks, shutdown>>

-----------------------------------------------------------------------------
(* The readiness probe *)

\* The probe in progress is shared; otherwise one begins.
ArriveReady(r) ==
    /\ Accepts(r)
    /\ conn' = [conn EXCEPT ![r] = TRUE]
    /\ job' = [job EXCEPT ![r] = "ready"]
    /\ probe' = IF probe = NoProbe THEN [postgres |-> "connect", redis |-> "query"] ELSE probe
    /\ seen' = IF Awaited THEN seen ELSE {d \in Deps : up[d]}
    /\ UNCHANGED <<up, queued, late, shutdown>>

CheckConnects ==
    /\ Alive
    /\ probe.postgres = "connect" /\ Available
    /\ probe' = [probe EXCEPT !.postgres = "query"]
    /\ UNCHANGED <<up, conn, job, queued, late, seen, shutdown>>

CheckAnswered(d) ==
    /\ Alive
    /\ probe[d] = "query" /\ up[d]
    /\ probe' = [probe EXCEPT ![d] = "up"]
    /\ UNCHANGED <<up, conn, job, queued, late, seen, shutdown>>

\* An error: the client is given back.
CheckFails(d) ==
    /\ Alive
    /\ \/ probe[d] \in {"connect", "query"} /\ ~up[d]
       \/ probe[d] = "connect" /\ ~PoolOpen
    /\ probe' = [probe EXCEPT ![d] = "down"]
    /\ UNCHANGED <<up, conn, job, queued, late, seen, shutdown>>

\* Mutant of TimesOut: only Redis is given a time.
RedisTimesOut ==
    /\ Alive
    /\ probe.redis = "query" /\ ~up["redis"]
    /\ probe' = [probe EXCEPT !.redis = "down"]
    /\ UNCHANGED <<up, conn, job, queued, late, seen, shutdown>>

\* Two seconds pass: what answers, or has a client to spare, does so in time.  The
\* check itself goes on and keeps the client it has, or its place in the queue.
TimesOut ==
    /\ Alive
    /\ \E d \in Deps :
          /\ \/ probe[d] = "query" /\ ~up[d]
             \/ probe[d] = "connect" /\ (~up[d] \/ ~Available)
          /\ probe' = [probe EXCEPT ![d] = "down"]
          /\ late' = IF d = "postgres" /\ probe[d] = "query" THEN late + 1 ELSE late
          /\ queued' = IF probe[d] = "connect" /\ queued < MaxQueue THEN queued + 1 ELSE queued
    /\ UNCHANGED <<up, conn, job, seen, shutdown>>

\* Mutant of LateConnects: a check takes a client of its own, not the pool's.
LateConnectsAlone ==
    /\ Alive
    /\ queued > 0
    /\ queued' = queued - 1
    /\ late' = late + 1
    /\ UNCHANGED <<up, conn, job, probe, seen, shutdown>>

\* An abandoned check gets its client, or gives up waiting for one.
LateConnects ==
    /\ Alive
    /\ queued > 0
    /\ queued' = queued - 1
    /\ late' = IF Available THEN late + 1 ELSE late
    /\ UNCHANGED <<up, conn, job, probe, seen, shutdown>>

\* It is answered, or the server or the network ends it.
LateDone ==
    /\ Alive
    /\ late > 0
    /\ late' = late - 1
    /\ UNCHANGED <<up, conn, job, probe, queued, seen, shutdown>>

Settled == \A d \in Deps : probe[d] \in {"up", "down"}

Respond == job' = [j \in DOMAIN job |-> IF job[j] = "ready" THEN "none" ELSE job[j]]

\* Mutant of ProbeDone: a finished probe is handed out again.
ProbeKept ==
    /\ Alive
    /\ Settled /\ Awaited
    /\ seen' = {}
    /\ Respond
    /\ UNCHANGED <<up, conn, probe, queued, late, shutdown>>

\* The next request finds no probe; all that share this one are answered.
ProbeDone ==
    /\ Alive
    /\ Settled
    /\ probe' = NoProbe /\ seen' = {}
    /\ Respond
    /\ UNCHANGED <<up, conn, queued, late, shutdown>>

-----------------------------------------------------------------------------
(* Shutdown *)

\* SIGINT, SIGTERM or an unhandled rejection; later ones are ignored.
Signal ==
    /\ Alive
    /\ phase = "up"
    /\ phase' = "closing" /\ timer' = TRUE
    /\ UNCHANGED <<up, conn, job, checks, exit>>

\* Mutant of Closed: the timer is cleared as soon as the server is closed.
ClosedDisarming ==
    /\ Alive
    /\ phase = "closing" /\ \A r \in Requests : ~conn[r]
    /\ phase' = "stopping" /\ timer' = FALSE
    /\ UNCHANGED <<up, conn, job, checks, exit>>

\* The callback of server.close, when no connection is left.
Closed ==
    /\ Alive
    /\ phase = "closing" /\ \A r \in Requests : ~conn[r]
    /\ phase' = "stopping"
    /\ UNCHANGED <<up, conn, job, checks, timer, exit>>

\* stop() of each worker has awaited the run in progress: the pool is ended.
Stopped ==
    /\ Alive
    /\ phase = "stopping" /\ \A w \in Workers : job[w] = "none"
    /\ phase' = "ending"
    /\ UNCHANGED <<up, conn, job, checks, timer, exit>>

\* Mutant of DatabaseClosed: the end of the pool is not awaited.
DatabaseClosing ==
    /\ Alive
    /\ phase = "ending"
    /\ phase' = "quitting"
    /\ UNCHANGED <<up, conn, job, checks, timer, exit>>

\* pool.end waits for the clients in use.
DatabaseClosed ==
    /\ Alive
    /\ phase = "ending" /\ InUse = 0
    /\ phase' = "quitting"
    /\ UNCHANGED <<up, conn, job, checks, timer, exit>>

\* QUIT succeeds or fails.
RedisClosed ==
    /\ Alive
    /\ phase = "quitting"
    /\ phase' = "exited" /\ timer' = FALSE /\ exit' = "graceful"
    /\ UNCHANGED <<up, conn, job, checks>>

\* Twenty seconds after the signal.
ForceExit ==
    /\ Alive
    /\ timer
    /\ phase' = "exited" /\ timer' = FALSE /\ exit' = "forced"
    /\ UNCHANGED <<up, conn, job, checks>>

-----------------------------------------------------------------------------
ProbeStep ==
    CheckConnects \/ (\E d \in Deps : CheckAnswered(d)) \/ TimesOut \/ ProbeDone

Next ==
    \/ \E d \in Deps : Toggle(d)
    \/ \E r \in Requests : Arrive(r) \/ ArriveReady(r) \/ Hangup(r)
    \/ \E j \in Requests \cup Workers : Begin(j) \/ End(j) \/ Done(j)
    \/ \E w \in Workers : Tick(w)
    \/ ProbeStep \/ (\E d \in Deps : CheckFails(d)) \/ LateConnects \/ LateDone
    \/ Signal \/ Closed \/ Stopped \/ DatabaseClosed \/ RedisClosed \/ ForceExit

Spec == Init /\ [][Next]_vars

\* The probe's timers and the abandoned checks' come, and so does the exit's; that
\* a dependency which is away reports an error is not assumed.
Fairness ==
    /\ WF_vars(ProbeStep)
    /\ WF_vars(LateConnects) /\ WF_vars(LateDone)
    /\ WF_vars(ForceExit)

FairSpec == Spec /\ Fairness

-----------------------------------------------------------------------------
(* Properties *)

\* No batch runs once the pool is being closed under it, though the workers start
\* batches while the last connections drain.
WorkersDrained ==
    phase \in {"ending", "quitting"} \/ exit = "graceful" =>
        \A w \in Workers : job[w] = "none"

\* A shutdown that is not forced cuts nothing off: no batch loses the pool, and at
\* the exit every transaction has ended, those of abandoned checks and of handlers
\* without a client included, and nobody who is connected waits for an answer.
GracefulExit ==
    /\ WorkersDrained
    /\ exit = "graceful" => InUse = 0 /\ \A r \in Requests : ~conn[r]

\* "Returns 503 when either is unavailable": an answer that reports both
\* dependencies up was preceded by an answer of each, within the probe that was
\* in progress when the request arrived or that it began.
ReportsFresh ==
    (\E r \in Requests : job[r] = "ready" /\ job'[r] = "none")
        /\ (\A d \in Deps : probe[d] = "up")
    => seen = Deps

ReadyIsFresh == [][ReportsFresh]_vars

\* A readiness request is answered even if a dependency never answers, and the
\* pool has no client to spare.
ReadinessAnswered ==
    \A r \in Requests : job[r] = "ready" ~> job[r] # "ready" \/ ~Alive

\* An outage is not remembered: once both dependencies answer and the pool has
\* clients to spare, probes stop reporting them down.
Recovers ==
    <>[]((\A d \in Deps : up[d]) /\ Available)
        => <>[](\A d \in Deps : probe[d] # "down")

\* A process that was told to stop exits, though a client never hangs up, a
\* batch never ends or a query is never answered.
Exits == phase = "closing" ~> ~Alive
=============================================================================
