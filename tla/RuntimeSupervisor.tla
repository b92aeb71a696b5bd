-------------------------- MODULE RuntimeSupervisor --------------------------
(***************************************************************************)
(* The deployment cache of a runtime node (runtime/supervisor.ts): route   *)
(* snapshots replace the route table and drop what it no longer names, a   *)
(* warm-up compiles the new table's deployments with bounded concurrency,  *)
(* worker requests compile on demand and share a compilation in progress,  *)
(* and idle, per-project and global limits evict.                          *)
(*                                                                         *)
(* A deployment is compiled by a job; jobs are numbered in the order they  *)
(* start, which is also the order of the Map `prepared`.  The project and  *)
(* the contents of a deployment never change, so entries keep only their   *)
(* job and their last use.                                                 *)
(***************************************************************************)
EXTENDS Integers, Sequences, FiniteSets, SequencesExt

CONSTANTS
  Deployments,
  Project,          \* the project of a deployment
  Snapshots,        \* route tables: sequences of distinct deployments
  Requests,         \* worker requests, one prepareRoute() call each
  Updates,          \* snapshot updates with warm-up, one each
  WarmupConcurrency,
  MaxWarm,          \* maxWarmDeployments
  MaxWarmPerProject,
  MaxIdle,          \* maxIdleDeploymentAgeMs
  MaxTime,          \* bound: the clock stops here
  MaxFailures       \* bound: how many compilations fail

NoLimit == -1  \* an option that is not set
NoJob   == 0

ASSUME SupervisorAssumption ==
  /\ WarmupConcurrency \in Nat \ {0} /\ MaxFailures \in Nat
  /\ {MaxWarm, MaxWarmPerProject, MaxIdle} \subseteq Nat \cup {NoLimit}
  /\ Snapshots \subseteq Seq(Deployments)
  /\ \A s \in Snapshots : IsInjective(s)

VARIABLES
  table,     \* the deployments the installed snapshot routes to
  prepared,  \* the cache: a function on the cached deployments
  jobs,      \* every compilation so far: its deployment and its status
  request,   \* where each request is and the job it awaits
  update,    \* where each update is, what it has yet to start and its workers
  now,
  leaky      \* history: an update was installed while another one's workers
             \* were still running

vars == <<table, prepared, jobs, request, update, now, leaky>>

Init ==
  /\ table = {}
  /\ prepared = [d \in {} |-> 0]
  /\ jobs = <<>>
  /\ request = [r \in Requests |-> [pc |-> "idle", job |-> NoJob]]
  /\ update = [u \in Updates |->
                 [pc |-> "idle", snapshot |-> <<>>, todo |-> <<>>, workers |-> {}]]
  /\ now = 0
  /\ leaky = FALSE

-----------------------------------------------------------------------------
(* The cache.  P is its contents, D what prepareDeployment() works on.     *)

Keep(P, K) == [d \in DOMAIN P \cap K |-> P[d]]

\* evictIdleDeployments()
WithoutIdle(P) ==
  IF MaxIdle = NoLimit THEN P
  ELSE Keep(P, {d \in DOMAIN P : P[d].lastUsed >= now - MaxIdle})

\* The order in which evictUntil() drops entries.
UsedBefore(P, a, b) ==
  \/ P[a].lastUsed < P[b].lastUsed
  \/ P[a].lastUsed = P[b].lastUsed /\ P[a].job < P[b].job

\* MUTANT of EvictUntil: the most recently used entries go first.
EvictUntilNewestFirst(P, S, max, d) ==
  LET rank(x) == Cardinality({y \in S \ {d} : UsedBefore(P, x, y)})
  IN  IF max = NoLimit THEN {} ELSE {x \in S \ {d} : rank(x) < Cardinality(S) - max}

\* What evictUntil() drops: the least recently used of the entries S, but never
\* d, until no more than max of S are left.
EvictUntil(P, S, max, d) ==
  LET rank(x) == Cardinality({y \in S \ {d} : UsedBefore(P, y, x)})
  IN  IF max = NoLimit THEN {} ELSE {x \in S \ {d} : rank(x) < Cardinality(S) - max}

\* enforcePackingPolicy(): the project's limit, then the node's.
Pack(P, d) ==
  LET ofProject == {x \in DOMAIN P : Project[x] = Project[d]}
      left == DOMAIN P \ EvictUntil(P, ofProject, MaxWarmPerProject, d)
  IN  Keep(P, left \ EvictUntil(P, left, MaxWarm, d))

\* The job of the entry prepared.get() finds for d, if it finds one.
Cached(P, d) == {P[x].job : x \in DOMAIN P \cap {d}}

\* prepareDeployment(d) up to its first await: D.got collects the jobs whose
\* promises it returned.
Prepare(D, d) ==
  LET P == WithoutIdle(D.prepared)
      known == Cached(P, d) # {}
      job == IF known THEN Max(Cached(P, d)) ELSE Len(D.jobs) + 1
      Q == [x \in DOMAIN P \cup {d} |->
              IF x = d THEN [job |-> job, lastUsed |-> now] ELSE P[x]]
  IN  [prepared |-> IF known THEN Q ELSE Pack(Q, d),
       jobs     |-> IF known THEN D.jobs
                    ELSE Append(D.jobs, [deployment |-> d, status |-> "running"]),
       got      |-> D.got \cup {job}]

\* The cache with P in place of its entries.
CacheWith(P) == [prepared |-> P, jobs |-> jobs, got |-> {}]

-----------------------------------------------------------------------------
(* Compilation, external: artifactStore.materialize() and the backend.     *)

Compiled(j) ==
  /\ jobs[j].status = "running"
  /\ jobs' = [jobs EXCEPT ![j].status = "ok"]
  /\ UNCHANGED <<table, prepared, request, update, now, leaky>>

\* MUTANT of Fail: the rejected promise stays in the cache.
FailKeeps(j) ==
  /\ jobs[j].status = "running"
  /\ jobs' = [jobs EXCEPT ![j].status = "failed"]
  /\ UNCHANGED <<table, prepared, request, update, now, leaky>>

\* The failure drops the deployment's entry, whichever job it is of by now.
Fail(j) ==
  /\ jobs[j].status = "running"
  /\ Cardinality({i \in DOMAIN jobs : jobs[i].status = "failed"}) < MaxFailures
  /\ jobs' = [jobs EXCEPT ![j].status = "failed"]
  /\ prepared' = Keep(prepared, Deployments \ {jobs[j].deployment})
  /\ UNCHANGED <<table, request, update, now, leaky>>

-----------------------------------------------------------------------------
(* A worker request.                                                       *)

\* prepareRoute() of a request that the table routes to d.
PrepareRoute(r, d) ==
  /\ request[r].pc = "idle"
  /\ d \in table
  /\ LET D == Prepare(CacheWith(prepared), d)
     IN  /\ prepared' = D.prepared
         /\ jobs' = D.jobs
         /\ \E j \in D.got : request' = [request EXCEPT ![r] = [pc |-> "waiting", job |-> j]]
  /\ UNCHANGED <<table, update, now, leaky>>

\* "no route matched"
NotFound(r) ==
  /\ request[r].pc = "idle"
  /\ request' = [request EXCEPT ![r].pc = "error"]
  /\ UNCHANGED <<table, prepared, jobs, update, now, leaky>>

\* The promise the request awaits has settled.
Settle(r) ==
  /\ request[r].pc = "waiting"
  /\ jobs[request[r].job].status # "running"
  /\ request' = [request EXCEPT ![r].pc =
                   IF jobs[request[r].job].status = "ok" THEN "served" ELSE "error"]
  /\ UNCHANGED <<table, prepared, jobs, update, now, leaky>>

-----------------------------------------------------------------------------
(* loadSnapshot() and warmupSnapshot().                                    *)

\* What loadSnapshot() leaves in the cache.
Retained(s) == Keep(prepared, ToSet(s))

\* How many workers mapBounded() starts.
Batch(s) == Min({Len(s), WarmupConcurrency})

\* What the workers of the warm-up leave when each has started on its first
\* deployment, in the order of the snapshot.
Started(s) ==
  LET after[n \in 0..Batch(s)] ==
        IF n = 0 THEN CacheWith(Retained(s)) ELSE Prepare(after[n - 1], s[n])
  IN  after[Batch(s)]

\* The table is replaced, what it does not name is dropped, and the warm-up
\* starts.
Load(u, s) ==
  /\ update[u].pc = "idle"
  /\ LET D == Started(s)
     IN  /\ prepared' = D.prepared
         /\ jobs' = D.jobs
         /\ update' = [update EXCEPT ![u] =
              [pc |-> IF s = <<>> THEN "acked" ELSE "warming", snapshot |-> s,
               todo |-> SubSeq(s, Batch(s) + 1, Len(s)), workers |-> D.got]]
  /\ table' = ToSet(s)
  /\ leaky' = (leaky \/ \E v \in Updates : update[v].workers # {})
  /\ UNCHANGED <<request, now>>

\* A worker's deployment is ready: it takes the next one.
WorkerTakes(u, j) ==
  /\ j \in update[u].workers
  /\ jobs[j].status = "ok"
  /\ update[u].todo # <<>>
  /\ LET D == Prepare(CacheWith(prepared), Head(update[u].todo))
     IN  /\ prepared' = D.prepared
         /\ jobs' = D.jobs
         /\ update' = [update EXCEPT ![u].todo = Tail(@),
                                     ![u].workers = (@ \ {j}) \cup D.got]
  /\ UNCHANGED <<table, request, now, leaky>>

\* MUTANT of WorkerEnds: a worker ends with the update's answer, and none is
\* left to answer once another one has failed.
WorkerEndsWarming(u, j) ==
  /\ j \in update[u].workers
  /\ jobs[j].status = "ok"
  /\ update[u].todo = <<>> /\ update[u].pc = "warming"
  /\ update' = [update EXCEPT ![u].workers = @ \ {j},
                              ![u].pc = IF update[u].workers = {j} THEN "acked" ELSE @]
  /\ UNCHANGED <<table, prepared, jobs, request, now, leaky>>

\* There is none left.  The last worker to end acknowledges the update, unless
\* a failed one has already.
WorkerEnds(u, j) ==
  /\ j \in update[u].workers
  /\ jobs[j].status = "ok"
  /\ update[u].todo = <<>>
  /\ update' = [update EXCEPT ![u].workers = @ \ {j},
                              ![u].pc = IF @ = "warming" /\ update[u].workers = {j}
                                        THEN "acked" ELSE @]
  /\ UNCHANGED <<table, prepared, jobs, request, now, leaky>>

\* MUTANT of WorkerFails: the rejection is swallowed.
WorkerFailsSilently(u, j) ==
  /\ j \in update[u].workers
  /\ jobs[j].status = "failed"
  /\ update' = [update EXCEPT ![u].workers = @ \ {j},
                              ![u].pc = IF @ = "warming" /\ update[u].workers = {j}
                                        THEN "acked" ELSE @]
  /\ UNCHANGED <<table, prepared, jobs, request, now, leaky>>

\* Promise.all rejects with the first failure; the other workers go on.
WorkerFails(u, j) ==
  /\ j \in update[u].workers
  /\ jobs[j].status = "failed"
  /\ update' = [update EXCEPT ![u].workers = @ \ {j}, ![u].pc = "failed"]
  /\ UNCHANGED <<table, prepared, jobs, request, now, leaky>>

Tick ==
  /\ now < MaxTime
  /\ now' = now + 1
  /\ UNCHANGED <<table, prepared, jobs, request, update, leaky>>

-----------------------------------------------------------------------------
Compile(j) == Compiled(j) \/ Fail(j)

Worker(u) ==
  \E j \in update[u].workers : WorkerTakes(u, j) \/ WorkerEnds(u, j) \/ WorkerFails(u, j)

\* Every request is answered and no warm-up has a worker left.
Quiet ==
  /\ \A r \in Requests : request[r].pc \in {"served", "error"}
  /\ \A u \in Updates : update[u].pc # "idle" /\ update[u].workers = {}
  /\ UNCHANGED vars

Next ==
  \/ \E j \in DOMAIN jobs : Compile(j)
  \/ \E r \in Requests : \/ \E d \in Deployments : PrepareRoute(r, d)
                         \/ NotFound(r)
                         \/ Settle(r)
  \/ \E u \in Updates : \/ \E s \in Snapshots : Load(u, s)
                        \/ Worker(u)
  \/ Tick
  \/ Quiet

Spec == Init /\ [][Next]_vars

\* A job settles because materialization and compilation are bounded by their
\* own timeouts, and the event loop runs every worker whose job has settled; as
\* there are finitely many such steps, fairness of all of them together is
\* fairness of each.
FairSpec ==
  /\ Spec
  /\ WF_jobs(\E j \in DOMAIN jobs : Compile(j))
  /\ WF_update(\E u \in Updates : Worker(u))
-----------------------------------------------------------------------------
(* Properties.                                                             *)

\* The state has its shape, and an entry's job compiles its deployment.
TypeOK ==
  /\ table \subseteq Deployments
  /\ jobs \in Seq([deployment : Deployments, status : {"running", "ok", "failed"}])
  /\ DOMAIN prepared \subseteq Deployments
  /\ \A d \in DOMAIN prepared :
       /\ prepared[d].job \in DOMAIN jobs
       /\ jobs[prepared[d].job].deployment = d
       /\ prepared[d].lastUsed \in 0..now
  /\ \A r \in Requests : /\ request[r].pc \in {"idle", "waiting", "served", "error"}
                         /\ request[r].job \in {NoJob} \cup DOMAIN jobs
  /\ \A u \in Updates : /\ update[u].pc \in {"idle", "warming", "acked", "failed"}
                        /\ update[u].workers \subseteq DOMAIN jobs
  /\ leaky \in BOOLEAN

Within(S, max) == max # NoLimit => Cardinality(S) <= Max({1, max})

\* The packing limits hold in every state: requests and warm-ups that insert
\* side by side never leave more deployments prepared than configured (one is
\* always allowed: the one just asked for).
WarmWithinLimits ==
  /\ Within(DOMAIN prepared, MaxWarm)
  /\ \A d \in DOMAIN prepared :
       Within({x \in DOMAIN prepared : Project[x] = Project[d]}, MaxWarmPerProject)

\* A failed compilation is never served from the cache, although it may fail
\* after its entry was evicted, dropped or replaced.
NoFailedEntry ==
  \A d \in DOMAIN prepared : jobs[prepared[d].job].status # "failed"

\* "ACKs wait until every deployment target in the snapshot has been
\* materialized and precompiled": whoever started the compilations, and
\* whatever was evicted or superseded meanwhile.
AckMeansCompiled ==
  \A u \in Updates : update[u].pc = "acked" =>
    \A d \in ToSet(update[u].snapshot) :
      \E j \in DOMAIN jobs : jobs[j].deployment = d /\ jobs[j].status = "ok"

\* As long as no snapshot is installed over a warm-up that is still running,
\* only deployments of the installed table are prepared.
PreparedAreRouted == ~leaky => DOMAIN prepared \subseteq table

\* What is prepared is what should be: nothing that failed, nothing the table
\* does not route to, and no more than the limits allow.
PreparedSound == NoFailedEntry /\ PreparedAreRouted /\ WarmWithinLimits

\* A deployment is evicted to make room for another only when every untouched
\* one that stays was used at least as recently, within its own project and,
\* when the newcomer is of another project, within the whole node.  (A snapshot
\* that is loaded drops what it does not name, whenever that was used.)
EvictsLeastRecent ==
  [][Len(jobs') = Len(jobs) + 1 /\ (\A u \in Updates : update'[u].pc = "idle" <=> update[u].pc = "idle") =>
       LET newcomer == jobs'[Len(jobs')].deployment
       IN  \A x \in DOMAIN prepared \ DOMAIN prepared' :
             \A y \in {z \in DOMAIN prepared \cap DOMAIN prepared' : prepared'[z] = prepared[z]} :
               Project[x] = Project[y] \/ Project[x] # Project[newcomer]
               => prepared[x].lastUsed <= prepared[y].lastUsed]_vars

\* Once no further update comes, every warm-up ends, with or without an
\* acknowledgement, and all its workers with it, although one of them may fail
\* while others still compile or have yet to take a deployment.
WarmupTerminates ==
  (\E u \in Updates : update[u].pc = "warming") ~>
    (\A u \in Updates : update[u].pc # "warming" /\ update[u].workers = {})
=============================================================================
