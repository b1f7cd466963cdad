--------------------------- MODULE ProcessProofs ---------------------------
(***************************************************************************)
(* For every number of connections, workers and clients of the pool: the   *)
(* pool is not overdrawn, no batch runs while it is closed, a graceful     *)
(* exit cuts nothing off, and readiness is never reported from memory.     *)
(***************************************************************************)
EXTENDS Process, FiniteSetTheorems, TLAPS

\* No more clients are in use than the pool has.
PoolInv == InUse <= MaxClients

\* How far the shutdown has come tells what is over.
DrainInv ==
    /\ phase \in {"stopping", "ending", "quitting"} => \A r \in Requests : ~conn[r]
    /\ phase = "quitting" => InUse = 0
    /\ phase = "exited" <=> ~Alive

IInv == TypeOK /\ PoolInv /\ DrainInv /\ GracefulExit

-----------------------------------------------------------------------------
\* Holders are finitely many.
LEMMA HoldersFinite ==
    /\ IsFiniteSet(Holders) /\ Cardinality(Holders) \in Nat
    /\ IsFiniteSet(Holders') /\ Cardinality(Holders') \in Nat
<1>1. Holders \subseteq Requests \cup Workers /\ Holders' \subseteq Requests \cup Workers
  BY DEF Holders
<1> QED
  BY <1>1, JobsDistinct, FS_Subset, FS_CardinalityType

\* Who takes a client, and who gives one back.
LEMMA HoldersChange ==
    ASSUME TypeOK, NEW j \in Requests \cup Workers, NEW s, job' = [job EXCEPT ![j] = s]
    PROVE  /\ job[j] # "query" /\ s = "query" =>
                 Cardinality(Holders') = Cardinality(Holders) + 1
           /\ job[j] = "query" /\ s # "query" =>
                 Cardinality(Holders') = Cardinality(Holders) - 1
           /\ job[j] # "query" /\ s # "query" => Holders' = Holders
<1>1. ASSUME job[j] # "query", s = "query"
      PROVE  Cardinality(Holders') = Cardinality(Holders) + 1
  <2>1. Holders' = Holders \cup {j} /\ j \notin Holders
    BY <1>1 DEF Holders, TypeOK
  <2> QED
    BY <2>1, HoldersFinite, FS_AddElement
<1>2. ASSUME job[j] = "query", s # "query"
      PROVE  Cardinality(Holders') = Cardinality(Holders) - 1
  <2>1. Holders' = Holders \ {j} /\ j \in Holders
    BY <1>2 DEF Holders, TypeOK
  <2> QED
    BY <2>1, HoldersFinite, FS_RemoveElement
<1>3. ASSUME job[j] # "query", s # "query" PROVE Holders' = Holders
  BY <1>3 DEF Holders, TypeOK
<1> QED
  BY <1>1, <1>2, <1>3

\* While the process lives, the shutdown's own facts are all that is to be shown.
LEMMA LivingStep ==
    ASSUME IInv, Alive, TypeOK', InUse' <= MaxClients, exit' = exit, phase' # "exited",
           phase' \in {"stopping", "ending", "quitting"} => \A r \in Requests : ~conn'[r],
           phase' \in {"ending", "quitting"} => \A w \in Workers : job'[w] = "none",
           phase' = "quitting" => InUse' = 0
    PROVE  IInv'
BY DEF IInv, PoolInv, DrainInv, WorkersDrained,
     GracefulExit, Alive

\* The clients in use are counted in natural numbers.
LEMMA InUseNat == (TypeOK => InUse \in Nat) /\ (TypeOK' => InUse' \in Nat)
BY HoldersFinite DEF TypeOK, InUse

\* No job, no probe, no client in use.
LEMMA InitInv == Init => IInv
<1> SUFFICES ASSUME Init PROVE IInv
  OBVIOUS
<1>1. TypeOK
  <2>1. probe \in [postgres : {"off", "connect", "query", "up", "down"},
                   redis : {"off", "query", "up", "down"}]
    BY DEF Init, NoProbe
  <2>2. job \in [Requests \cup Workers -> {"none", "run", "query", "ready"}]
    BY DEF Init
  <2>3. \A w \in Workers : job[w] # "ready"
    BY DEF Init
  <2>4. queued \in 0 .. MaxQueue /\ late \in 0 .. MaxClients
    BY PoolNotEmpty DEF Init
  <2>5. up \in [Deps -> BOOLEAN] /\ conn \in [Requests -> BOOLEAN]
    BY DEF Init
  <2> QED
    BY <2>1, <2>2, <2>3, <2>4, <2>5 DEF Init, TypeOK
<1>2. Holders = {}
  BY DEF Init, Holders
<1>3. InUse = 0
  BY <1>2, FS_EmptySet DEF Init, InUse, NoProbe
<1> QED
  BY <1>1, <1>3, PoolNotEmpty
     DEF Init, IInv, PoolInv, DrainInv, WorkersDrained,
     GracefulExit, Alive

\* A dependency goes or comes, or a connection ends: nobody has a client more.
LEMMA OutsideStep ==
    ASSUME IInv, (\E d \in Deps : Toggle(d)) \/ (\E r \in Requests : Hangup(r))
    PROVE  IInv'
<1> USE DEF Toggle, Hangup, checks, shutdown
<1>1. TypeOK'
  <2>1. up' \in [Deps -> BOOLEAN] /\ seen' \subseteq Deps
    BY DEF IInv, TypeOK
  <2>2. conn' \in [Requests -> BOOLEAN]
    BY DEF IInv, TypeOK
  <2>3. UNCHANGED <<job, probe, queued, late, phase, timer, exit>>
    OBVIOUS
  <2> QED
    BY <2>1, <2>2, <2>3 DEF IInv, TypeOK
<1>2. Holders' = Holders /\ InUse' = InUse
  BY DEF Holders, InUse
<1> QED
  BY <1>1, <1>2, LivingStep DEF IInv, TypeOK, PoolInv, DrainInv, WorkersDrained,
     GracefulExit, Alive

\* A request arrives on a connection that the shutdown has left open.
LEMMA ArriveStep ==
    ASSUME IInv, NEW r \in Requests, Arrive(r)
    PROVE  IInv'
<1> USE DEF Arrive, Accepts, checks, shutdown
<1>1. TypeOK'
  BY JobsDistinct DEF IInv, TypeOK
<1>2. Holders' = Holders /\ InUse' = InUse
  <2>1. job[r] = "none" /\ job' = [job EXCEPT ![r] = "run"]
    OBVIOUS
  <2> QED
    BY <2>1, HoldersChange DEF IInv, InUse
<1> QED
  BY <1>1, <1>2, LivingStep DEF IInv, PoolInv

\* A readiness request joins the probe or begins one, without a client yet.
LEMMA ArriveReadyStep ==
    ASSUME IInv, NEW r \in Requests, ArriveReady(r)
    PROVE  IInv'
<1> USE DEF ArriveReady, Accepts, shutdown
<1>1. TypeOK'
  BY JobsDistinct DEF IInv, TypeOK, Deps
<1>2. Holders' = Holders
  <2>1. job[r] = "none" /\ job' = [job EXCEPT ![r] = "ready"]
    OBVIOUS
  <2> QED
    BY <2>1, HoldersChange DEF IInv
<1>3. InUse' = InUse
  BY <1>2 DEF InUse, NoProbe
<1> QED
  BY <1>1, <1>3, LivingStep DEF IInv, PoolInv

\* A transaction begins while the pool is open and has a client to spare.
LEMMA BeginStep ==
    ASSUME IInv, NEW j \in Requests \cup Workers, Begin(j)
    PROVE  IInv'
<1> USE DEF Begin, checks, shutdown
<1>1. CASE Available /\ job' = [job EXCEPT ![j] = "query"]
  <2>1. TypeOK'
    BY <1>1 DEF IInv, TypeOK
  <2>2. Cardinality(Holders') = Cardinality(Holders) + 1
    BY <1>1, HoldersChange DEF IInv
  <2>3. InUse' = InUse + 1
    BY <2>2, HoldersFinite DEF IInv, TypeOK, InUse
  <2>4. InUse' <= MaxClients
    BY <1>1, <2>3, InUseNat, PoolNotEmpty DEF IInv, Available
  <2> QED
    BY <1>1, <2>1, <2>4, LivingStep DEF IInv, DrainInv, Available, PoolOpen
<1>2. CASE ~PoolOpen /\ job' = [job EXCEPT ![j] = "none"]
  <2>1. TypeOK'
    BY <1>2 DEF IInv, TypeOK
  <2>2. Holders' = Holders /\ InUse' = InUse
    BY <1>2, HoldersChange DEF IInv, InUse
  <2> QED
    BY <1>2, <2>1, <2>2, LivingStep DEF IInv, TypeOK, PoolInv, DrainInv, WorkersDrained,
     GracefulExit, Alive
<1> QED
  BY <1>1, <1>2

\* A transaction ends and gives its client back: none was in use while quitting.
LEMMA EndStep ==
    ASSUME IInv, NEW j \in Requests \cup Workers, End(j)
    PROVE  IInv'
<1> USE DEF End, checks, shutdown
<1>1. TypeOK'
  BY DEF IInv, TypeOK
<1>2. Cardinality(Holders') = Cardinality(Holders) - 1
  <2>1. job[j] = "query" /\ job' = [job EXCEPT ![j] = "run"]
    OBVIOUS
  <2> QED
    BY <2>1, HoldersChange DEF IInv
<1>3. InUse' = InUse - 1 /\ InUse' \in Nat
  BY <1>1, <1>2, HoldersFinite, InUseNat DEF IInv, TypeOK, InUse
<1>4. InUse \in Nat
  BY InUseNat DEF IInv
<1>5. phase # "quitting"
  BY <1>3, <1>4 DEF IInv, DrainInv
<1>6. phase = "ending" => j \notin Workers
  BY DEF IInv, WorkersDrained, GracefulExit
<1> QED
  BY <1>1, <1>3, <1>4, <1>5, <1>6, PoolNotEmpty, LivingStep
     DEF IInv, TypeOK, PoolInv, DrainInv, WorkersDrained,
     GracefulExit, Alive

\* A handler answers, or a batch is over.
LEMMA DoneStep ==
    ASSUME IInv, NEW j \in Requests \cup Workers, Done(j)
    PROVE  IInv'
<1> USE DEF Done, checks, shutdown
<1>1. TypeOK'
  BY DEF IInv, TypeOK
<1>2. Holders' = Holders /\ InUse' = InUse
  <2>1. job[j] = "run" /\ job' = [job EXCEPT ![j] = "none"]
    OBVIOUS
  <2> QED
    BY <2>1, HoldersChange DEF IInv, InUse
<1> QED
  BY <1>1, <1>2, LivingStep DEF IInv, TypeOK, PoolInv, DrainInv, WorkersDrained,
     GracefulExit, Alive

\* A batch begins before the workers are stopped.
LEMMA TickStep ==
    ASSUME IInv, NEW w \in Workers, Tick(w)
    PROVE  IInv'
<1> USE DEF Tick, WorkersStopped, checks, shutdown
<1>1. TypeOK'
  BY DEF IInv, TypeOK
<1>2. Holders' = Holders /\ InUse' = InUse
  <2>1. job[w] = "none" /\ job' = [job EXCEPT ![w] = "run"]
    OBVIOUS
  <2> QED
    BY <2>1, HoldersChange DEF IInv, InUse
<1> QED
  BY <1>1, <1>2, LivingStep DEF IInv, PoolInv

\* The steps of the probe and of its abandoned checks leave jobs, connections and
\* the shutdown alone.
LEMMA CheckStep ==
    ASSUME IInv, Alive, TypeOK', UNCHANGED <<conn, job, shutdown>>,
           InUse' <= InUse \/ (Available /\ InUse' = InUse + 1)
    PROVE  IInv'
<1>1. InUse \in Nat /\ InUse' \in Nat
  BY InUseNat DEF IInv
<1>2. InUse' <= MaxClients
  BY <1>1, PoolNotEmpty DEF IInv, PoolInv, Available
<1>3. phase = "quitting" => InUse' = 0
  BY <1>1 DEF IInv, DrainInv, Available, PoolOpen
<1> QED
  BY <1>2, <1>3, LivingStep DEF IInv, DrainInv, WorkersDrained, GracefulExit, shutdown

\* What is in use, when no job has changed.
LEMMA SameHolders ==
    ASSUME UNCHANGED job
    PROVE  InUse' = Cardinality(Holders) + late' + IF probe'.postgres = "query" THEN 1 ELSE 0
<1>1. Holders' = Holders
  BY DEF Holders
<1> QED
  BY <1>1 DEF InUse

\* A check takes a client of the pool, as anybody else.
LEMMA CheckConnectsStep ==
    ASSUME IInv, CheckConnects
    PROVE  IInv'
<1> USE DEF CheckConnects
<1>1. TypeOK'
  BY DEF IInv, TypeOK, shutdown
<1>2. InUse' = InUse + 1
  BY SameHolders, HoldersFinite DEF IInv, TypeOK, InUse
<1> QED
  BY <1>1, <1>2, CheckStep DEF shutdown

\* A check has its answer, or its error, and gives its client back.
LEMMA CheckEndsStep ==
    ASSUME IInv, NEW d \in Deps, CheckAnswered(d) \/ CheckFails(d)
    PROVE  IInv'
<1> USE DEF CheckAnswered, CheckFails, Deps
<1>1. TypeOK'
  BY DEF IInv, TypeOK, shutdown
<1>2. InUse' <= InUse
  BY SameHolders, HoldersFinite DEF IInv, TypeOK, InUse
<1> QED
  BY <1>1, <1>2, CheckStep DEF shutdown

\* A check that is abandoned keeps the client it has.
LEMMA TimesOutStep ==
    ASSUME IInv, TimesOut
    PROVE  IInv'
<1> USE DEF TimesOut, Deps
<1>1. InUse' = InUse
  BY SameHolders, HoldersFinite DEF IInv, TypeOK, InUse
<1>2. late' \in Nat /\ queued' \in 0 .. MaxQueue
  BY PoolNotEmpty DEF IInv, TypeOK
<1>3. probe' \in [postgres : {"off", "connect", "query", "up", "down"},
                  redis : {"off", "query", "up", "down"}]
  BY DEF IInv, TypeOK
<1>4. late' <= InUse'
  BY <1>2, SameHolders, HoldersFinite
<1>5. late' \in 0 .. MaxClients
  BY <1>1, <1>2, <1>4, InUseNat, PoolNotEmpty DEF IInv, PoolInv
<1>6. TypeOK'
  BY <1>2, <1>3, <1>5 DEF IInv, TypeOK, shutdown
<1> QED
  BY <1>1, <1>6, InUseNat, CheckStep DEF IInv

\* An abandoned check takes its turn in the pool as anybody else.
LEMMA LateConnectsStep ==
    ASSUME IInv, LateConnects
    PROVE  IInv'
<1> USE DEF LateConnects
<1>1. InUse' = InUse \/ (Available /\ InUse' = InUse + 1)
  BY SameHolders, HoldersFinite DEF IInv, TypeOK, InUse
<1>2. InUse \in Nat /\ InUse' <= MaxClients
  BY <1>1, InUseNat, PoolNotEmpty DEF IInv, PoolInv, Available
<1>3. late' \in Nat /\ late' <= InUse'
  BY SameHolders, HoldersFinite DEF IInv, TypeOK
<1>4. TypeOK'
  BY <1>1, <1>2, <1>3, PoolNotEmpty DEF IInv, TypeOK, shutdown
<1> QED
  BY <1>1, <1>2, <1>4, CheckStep

\* An abandoned check gives its client back.
LEMMA LateDoneStep ==
    ASSUME IInv, LateDone
    PROVE  IInv'
<1> USE DEF LateDone
<1>1. TypeOK'
  BY PoolNotEmpty DEF IInv, TypeOK, shutdown
<1>2. InUse' <= InUse
  BY SameHolders, HoldersFinite DEF IInv, TypeOK, InUse
<1> QED
  BY <1>1, <1>2, CheckStep

\* The probe is over, and everybody who shared it is answered.
LEMMA ProbeDoneStep ==
    ASSUME IInv, ProbeDone
    PROVE  IInv'
<1> USE DEF ProbeDone, Respond, Settled
<1>1. TypeOK'
  BY DEF IInv, TypeOK, NoProbe, shutdown
<1>2. Holders' = Holders
  BY DEF IInv, TypeOK, Holders
<1>3. InUse' = InUse
  BY <1>2 DEF InUse, NoProbe, Deps
<1>4. \A w \in Workers : job'[w] = job[w]
  BY DEF IInv, TypeOK
<1> QED
  BY <1>1, <1>3, <1>4, LivingStep
     DEF IInv, PoolInv, DrainInv, WorkersDrained, GracefulExit, shutdown

\* Each phase of the shutdown awaits what it is to await.
LEMMA ShutdownStep ==
    ASSUME IInv, Signal \/ Closed \/ Stopped \/ DatabaseClosed
    PROVE  IInv'
<1> USE DEF Signal, Closed, Stopped, DatabaseClosed, checks
<1>1. TypeOK'
  BY DEF IInv, TypeOK
<1>2. InUse' = InUse
  BY SameHolders DEF InUse
<1> QED
  BY <1>1, <1>2, LivingStep DEF IInv, PoolInv, DrainInv, WorkersDrained, GracefulExit

\* The process exits, in good order or by force.
LEMMA ExitStep ==
    ASSUME IInv, RedisClosed \/ ForceExit
    PROVE  IInv'
<1> USE DEF RedisClosed, ForceExit, checks
<1>1. TypeOK'
  BY DEF IInv, TypeOK
<1>2. InUse' = InUse
  BY SameHolders DEF InUse
<1> QED
  BY <1>1, <1>2 DEF IInv, PoolInv, DrainInv, WorkersDrained,
     GracefulExit, Alive

\* Every step keeps the inductive invariant.
LEMMA NextInv == IInv /\ [Next]_vars => IInv'
<1> SUFFICES ASSUME IInv, [Next]_vars PROVE IInv'
  OBVIOUS
<1>1. CASE (\E d \in Deps : Toggle(d)) \/ (\E r \in Requests : Hangup(r))
  BY <1>1, OutsideStep
<1>2. ASSUME NEW r \in Requests, Arrive(r) \/ ArriveReady(r) PROVE IInv'
  BY <1>2, ArriveStep, ArriveReadyStep
<1>3. ASSUME NEW j \in Requests \cup Workers, Begin(j) \/ End(j) \/ Done(j) PROVE IInv'
  BY <1>3, BeginStep, EndStep, DoneStep
<1>4. ASSUME NEW w \in Workers, Tick(w) PROVE IInv'
  BY <1>4, TickStep
<1>5. CASE ProbeStep \/ (\E d \in Deps : CheckFails(d))
  BY <1>5, CheckConnectsStep, CheckEndsStep, TimesOutStep, ProbeDoneStep DEF ProbeStep
<1>6. CASE LateConnects \/ LateDone
  BY <1>6, LateConnectsStep, LateDoneStep
<1>7. CASE Signal \/ Closed \/ Stopped \/ DatabaseClosed
  BY <1>7, ShutdownStep
<1>8. CASE RedisClosed \/ ForceExit
  BY <1>8, ExitStep
<1>9. CASE UNCHANGED vars
  BY <1>9 DEF vars, checks, shutdown, IInv, TypeOK, PoolInv, DrainInv, WorkersDrained,
     GracefulExit, InUse, Holders, Alive
<1> QED
  BY <1>1, <1>2, <1>3, <1>4, <1>5, <1>6, <1>7, <1>8, <1>9 DEF Next

\* The inductive invariant holds in every state.
THEOREM Invariance == Spec => []IInv
<1>1. Init => IInv
  BY InitInv
<1>2. IInv /\ [Next]_vars => IInv'
  BY NextInv
<1> QED
  BY <1>1, <1>2, PTL DEF Spec

\* Jobs, probe and shutdown are of their types in every state; abandoned checks
\* have no more clients than the pool.
THEOREM TypeCorrect == Spec => []TypeOK
<1>1. IInv => TypeOK
  BY DEF IInv
<1> QED
  BY <1>1, Invariance, PTL

\* However many clients, workers and connections there are, and whatever stays
\* unanswered, no batch runs while the pool is being closed, and an exit that is
\* not forced leaves no transaction, batch or connection.
THEOREM GracefulExitDrains == Spec => []GracefulExit
<1>1. IInv => GracefulExit
  BY DEF IInv
<1> QED
  BY <1>1, Invariance, PTL

-----------------------------------------------------------------------------
(* The answers of the readiness probe *)

\* There is a probe as long as somebody waits for it; meanwhile every dependency
\* that answers, or that the probe calls up, is remembered.
FreshInv ==
    /\ probe = NoProbe <=> ~Awaited
    /\ \A d \in Deps : Awaited /\ (up[d] \/ probe[d] = "up") => d \in seen

\* Jobs that are no readiness requests do not change who waits.
LEMMA SameAwaited ==
    ASSUME TypeOK, NEW j \in Requests \cup Workers, NEW s, job[j] # "ready", s # "ready",
           job' = [job EXCEPT ![j] = s]
    PROVE  Awaited' <=> Awaited
BY DEF TypeOK, Awaited

\* Jobs, connections and the shutdown are nothing to the probe.
LEMMA JobFresh ==
    ASSUME TypeOK, FreshInv, UNCHANGED <<up, checks>>, NEW j \in Requests \cup Workers,
           \/ \E s \in {"none", "run", "query"} :
                 job[j] # "ready" /\ job' = [job EXCEPT ![j] = s]
           \/ job' = job
    PROVE  FreshInv'
<1>1. Awaited' <=> Awaited
  BY SameAwaited DEF Awaited
<1> QED
  BY <1>1 DEF FreshInv, checks

\* A check that goes on or ends leaves the probe there.
LEMMA CheckFresh ==
    ASSUME TypeOK, FreshInv, UNCHANGED <<up, job, seen>>, NEW d \in Deps,
           NEW x \in {"query", "up", "down"}, probe[d] # "off", x = "up" => up[d],
           probe' = [probe EXCEPT ![d] = x]
    PROVE  FreshInv'
<1>1. Awaited' <=> Awaited
  BY DEF Awaited
<1>2. probe # NoProbe /\ probe' # NoProbe
  BY DEF TypeOK, NoProbe, Deps
<1>3. \A e \in Deps : probe'[e] = "up" => probe[e] = "up" \/ up[e]
  BY DEF TypeOK, Deps
<1> QED
  BY <1>1, <1>2, <1>3 DEF FreshInv

\* Every step remembers what answered since the probe began.
LEMMA FreshNext == TypeOK /\ FreshInv /\ [Next]_vars => FreshInv'
<1> SUFFICES ASSUME TypeOK, FreshInv, [Next]_vars PROVE FreshInv'
  OBVIOUS
<1>1. ASSUME NEW d \in Deps, Toggle(d) PROVE FreshInv'
  <2>1. probe' = probe /\ (Awaited' <=> Awaited)
    BY <1>1 DEF Toggle, Awaited
  <2>2. Awaited => seen' = seen \cup {e \in Deps : up'[e]}
    BY <1>1 DEF Toggle
  <2> QED
    BY <2>1, <2>2 DEF FreshInv
<1>2. ASSUME NEW r \in Requests, ArriveReady(r) PROVE FreshInv'
  <2>1. Awaited'
    BY <1>2 DEF ArriveReady, Awaited, TypeOK
  <2>2. CASE Awaited
    BY <1>2, <2>1, <2>2 DEF ArriveReady, FreshInv
  <2>3. CASE ~Awaited
    <3>1. probe' = [postgres |-> "connect", redis |-> "query"] /\ seen' = {d \in Deps : up[d]}
      BY <1>2, <2>3 DEF ArriveReady, FreshInv
    <3>2. up' = up
      BY <1>2 DEF ArriveReady
    <3> QED
      BY <2>1, <3>1, <3>2 DEF FreshInv, NoProbe, Deps
  <2> QED
    BY <2>2, <2>3
<1>3. ASSUME NEW r \in Requests, Arrive(r) \/ Hangup(r) PROVE FreshInv'
  BY <1>3, JobFresh DEF Arrive, Accepts, Hangup
<1>4. ASSUME NEW j \in Requests \cup Workers, Begin(j) \/ End(j) \/ Done(j) PROVE FreshInv'
  BY <1>4, JobFresh DEF Begin, End, Done
<1>5. ASSUME NEW w \in Workers, Tick(w) PROVE FreshInv'
  BY <1>5, JobFresh DEF Tick
<1>6. CASE CheckConnects
  BY <1>6, CheckFresh DEF CheckConnects, Deps
<1>7. ASSUME NEW d \in Deps, CheckAnswered(d) \/ CheckFails(d) PROVE FreshInv'
  BY <1>7, CheckFresh DEF CheckAnswered, CheckFails
<1>8. CASE TimesOut
  <2>1. PICK d \in Deps :
           probe[d] \in {"query", "connect"} /\ probe' = [probe EXCEPT ![d] = "down"]
    BY <1>8 DEF TimesOut
  <2> QED
    BY <1>8, <2>1, CheckFresh DEF TimesOut
<1>9. CASE ProbeDone
  <2>1. ~Awaited' /\ probe' = NoProbe
    BY <1>9 DEF ProbeDone, Respond, Awaited, TypeOK
  <2> QED
    BY <2>1 DEF FreshInv
<1>10. CASE LateConnects \/ LateDone
  BY <1>10 DEF LateConnects, LateDone, FreshInv, Awaited
<1>11. CASE Signal \/ Closed \/ Stopped \/ DatabaseClosed \/ RedisClosed \/ ForceExit
  BY <1>11 DEF Signal, Closed, Stopped, DatabaseClosed, RedisClosed, ForceExit, checks,
     FreshInv, Awaited
<1>12. CASE UNCHANGED vars
  BY <1>12 DEF vars, checks, FreshInv, Awaited
<1> QED
  BY <1>1, <1>2, <1>3, <1>4, <1>5, <1>6, <1>7, <1>8, <1>9, <1>10, <1>11, <1>12
     DEF Next, ProbeStep

\* However many requests share probes, and whatever the probes before left
\* behind, an answer that reports both dependencies up is a fresh one.
THEOREM ReadinessIsFresh == Spec => ReadyIsFresh
<1>1. Init => FreshInv
  BY DEF Init, FreshInv, Awaited
<1>2. TypeOK /\ FreshInv /\ [Next]_vars => FreshInv'
  BY FreshNext
<1>3. TypeOK /\ FreshInv /\ [Next]_vars => [ReportsFresh]_vars
  <2> SUFFICES ASSUME TypeOK, FreshInv, Next, NEW r \in Requests,
                      job[r] = "ready", job'[r] = "none", \A d \in Deps : probe[d] = "up"
               PROVE  seen = Deps
    BY DEF ReportsFresh
  <2>1. Awaited
    BY DEF Awaited
  <2> QED
    BY <2>1 DEF FreshInv, TypeOK
<1> QED
  BY <1>1, <1>2, <1>3, TypeCorrect, PTL DEF Spec, ReadyIsFresh
=============================================================================
