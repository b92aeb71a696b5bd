# odenctl in TLA+

Specifications of odenctl (a control plane and gateway for Wasm components) and
of the oden runtime: TLC checks them on small instances, TLAPS proves most of
the safety properties for every instance. `PROJECT.json` lists the runs,
the mutants that show each property has teeth, the source lines behind each
definition, the hazards, the theorems and the findings. Paths below are relative
to `src/crates`.

## The system and its parts

A **control plane** (`odenctl/src/http/app.ts`, `control-plane/*.ts`) stores
organizations, projects, deployments and routes behind a repository (SQLite,
Postgres or memory). It stamps the route table into *route snapshots*, places
them on *runtime nodes* and replicates them to regional control planes. A
**runtime node** (`odenctl/src/runtime/*.ts`) installs snapshots, compiles the
deployments they name, caches responses and invokes components, in process or
through a **host daemon** (`odenctl/src/main.rs`). **oden** (`oden-core/src`,
`oden/src`) runs one component as a *resident service* or per request.

| Part | State | Operations | Hard because | Correct when |
|---|---|---|---|---|
| response cache | entries, pending fills, generation, suspensions | lookup, fill, coalesce, purge, suspend | purges and snapshot updates race fills; waiters depend on leaders | nothing older than the last purge is stored or served; budgets exact; every request answered |
| snapshot delivery | route table, snapshots in flight, node memory and file, replica | publish, retry, install, warm, save, replicate | lost, late and repeated PUTs; crashes; overlapping publications | recorded ok means persisted; replicas never go back |
| runtime supervisor | route table, prepared deployments | load, warm up, prepare, evict | shared compilations that fail after replacement; concurrent warm-ups | limits hold; failures are not cached; an ACK means compiled |
| resident service | mailbox, permits, worker, serve loop | admit, enqueue, run, drain, stop | disconnects, deadlines, traps, shutdown in any order | stop runs once, after the drain, never on a failed Store |
| runtime node gateway | lifecycle, invocation counters, rate buckets | drain, activate, invoke, close | drain against requests still being prepared | limits hold; a drain waits for what was accepted |
| memberships, keys | members, roles, invites, keys | add, change, remove, accept, rotate | check-then-act across awaits | a project keeps an owner; revoked keys stop working |
| quotas, usage, billing | counts, events, invoices, deliveries | create, record, issue, deliver, prune | check-then-act; retries; no claim on deliveries | events count once; one invoice per period |
| routes, canaries, domains | routes, decisions, previews, TLS states | point, canary, roll back, analyze, verify | stale reads written back | a newer decision is not undone |
| node registry, edge releases | nodes, heartbeats, releases, outbox | register, heartbeat, clean up, delete, deliver | read-modify-write between awaits; provider calls around writes | live nodes stay; no orphan at the provider |
| repositories, migrations | tables, indexes, applied versions | every statement; open, migrate | two backends that must agree; openers that die half way | both services answer alike; a served schema is complete |
| control-plane HTTP API | tokens, audit log, artifact store | authorize, dispatch, upload | rights checked before an await; uploads of the same bytes | no handler without its right; what is registered is stored |
| placement, fleet | nodes, policies, what each node holds | plan, match, select, publish | the registry changes while a snapshot is sent | isolated tenants stay in their pool |
| Fly autoscaler | lease, cooldown, machines | reconcile | a lease that is never renewed | one controller acts at a time |
| durable objects, volume SQLite | alarms, databases, writer queues, pool, backups | dispatch, write, evict, export, restore | read and delete of an alarm; handles closed in use | no alarm lost; writes serial per database |
| artifact and code caches | files, temporary files, keep sets | load, compile, collect, invalidate | loads race collections; crashes between write and rename | a final name holds what it says; what is served is on disk |
| host daemon | route table, active count | replace, match, admit, invoke | two matchers over two copies of a table | the daemon runs what the node checked |
| oden HTTP server | permits, guest tasks, connections | accept, respond, cancel, shut down | tasks outlive their connections | permits come back; a shutdown leaves nothing behind |

The parts interact through HTTP (publisher to nodes, replicas and daemon),
through the repository (every `await repository.x()` is an interleaving point)
and, inside a process, through promises, semaphores and cancellation tokens.

## What is modelled

One action is one uninterrupted piece of code: from an `await` to the next in
TypeScript, from one shared-state operation to the next in Rust. Names follow
the code. Definitions marked MUTANT are plausible bugs used to test the
properties; they are not part of any specification.

### ResponseCache — `odenctl/src/runtime/response-cache.ts`, `response-cache-policy.ts`, parts of `node-app.ts`

State: the Map `entries` as a function with its insertion order, the pending
fills (leaders and waiters), the generation counter, active suspensions, the
installed route table and the clock. Actions: arrival of a request and the
await in `prepareRoute` (`Arrive`, `SelectRoute`), the branches of `execute`
(`ExecuteRefused`, `ExecuteHit`, `ExecuteLead`, `ExecuteCoalesce`,
`ExecuteUncoordinated`), completion of a fill (`FillStores`, `FillDiscards`,
`FillFails`), of waiters (`WakeHit`, `WakeMiss`, `WakeFenced`), aborts, purges and
snapshot updates. A key stands for method, URI, identity and variant; a response
for its table, request time, size, age and lifetime.

### SnapshotDelivery — publisher, publish job, replication, the node's PUT handler and its file

State: the version of the route table, one record per publication (where it is,
its snapshot, its targets, the call to each peer), PUTs on the wire, the node's
handlers, memory and file, the replica. A PUT whose attempt timed out stays on
the wire and may arrive at any time. `Install` changes memory before the
awaits of `Warmed` and `Save`, as in the handler; `Restart` reloads the file. The
snapshot id is a hash, so `IdRank` is an arbitrary order.

### RuntimeSupervisor — `odenctl/src/runtime/supervisor.ts`

State: the table, the Map `prepared`, the compilations (`jobs`), each request
and each warm-up with its workers. `Prepare` is `prepareDeployment` up to its
first await; the failure handler of a job deletes the entry of its deployment
whichever job it belongs to by then, as the code does.

### ResidentService — `oden-core/src/service.rs`

State: the connection tasks, each request's place in `respond_inner`, expired
deadlines, the mailbox, the worker, the watchdog's armed deadline, the serve loop.
The permit is held exactly while `respond_inner` runs. A connection outlives the
request's answer: its client may take any time to read it, or to send a request at
all, so `ConnectionEnds` happens when the client lets it, and `Joined`, the end of
the drain, waits for it. `WatchdogFires` uses the deadline
that was armed, which `Rearm` updates later than the worker changes it: the
biased `select!` polls the timer first. The start hook's deadline is part of
`StartFails`, the stop hook's of `StopReturns`. A socket beyond the cap on
connections is dropped (`MaxConnections`).

### RuntimeNode — gateway and shutdown: `node-app.ts`, `shutdown.ts`

State: which connections are open, where each worker request is, whether its
handler has answered before its invocation ended, the counters the code keeps (the
invocation metric, the drain tracker, the permits of each project), lifecycle,
`close()` and how the process ended. `Arrive` is the lifecycle check; everything
up to the invocation (`prepareRoute`, the request rate, capabilities, the cache)
is one place, "preparing", from which the request is answered or starts. The
awaits of `invoke()` are `BodyRead`/`BodyFails`, `GuestReturns`/`GuestFails`/
`WallTimeout` and `Flushed`. With a cache, `Disconnect` and `WaitTimeout` abort at
once and the invocation notices later. Whether a project's token bucket has a
token is left open. The node with no invoker (501) is not started by `main.ts`.
A second signal of the same kind finds no listener and kills the process.
Operators may activate a node that is closing; the model lets them. The last step
of `close()`, `ServerClosed`, is the callback of `server.close()`, which waits for
every connection and has no time-out; it also stops the timer of the HTTP server,
so a client that withholds its body from then on keeps its request waiting (`Held`).

### The control plane — `odenctl/src/control-plane/`

The two services of the code, the synchronous one over SQLite and the
asynchronous one over PostgreSQL, are modelled separately and related by a
refinement.

| Module | Models |
|---|---|
| `ControlPlaneDb` | the database as one record of tables, and what a statement does to it: insert, update, conflict, foreign key |
| `SqliteRepository`, `PostgresRepository` | every method of `repository.ts` and `postgres-repository.ts` that writes, with its constraints |
| `Metering`, `RoutingRules` | pure code both services share: quotas, budgets, statements, webhooks, retention; admission, signatures, canary analysis, normalizers |
| `TenancyService`, `BillingService`, `RoutingService`, `FleetService` | `service.ts`: an operation is a function of database and request |
| `ControlPlaneService` | the synchronous control plane: one request at a time |
| `ControlPlaneCalls` | calls in flight: a call's place, its locals, what it answered, the death of a process and the client's retry |
| `Tenancy`, `Billing`, `Routing`, `Fleet` | `async-service.ts`: one action for each piece between two awaits |
| `ControlPlane` | the composition and its properties |

`db` is the database. `call[c]` is where the operation of caller `c` stands and
what it has read; `todo` what it will ask next; `answered` the outcomes. In a
serial workload `base` remembers the database at the last answer: it is the
`db` of the abstract specification, and `Twin` is the refinement
`INSTANCE ControlPlaneService WITH db <- base`. `Retry` ends a call at any await,
as the death of its process does, and starts it anew. Two deliverers, two
rotations or two creations need nothing special: they are two callers.

Not every pair of operations is safe, and the module says which: `RacyPairs`
lists those that write back what they read before an await, or insert what they
counted before one. Between any others, the result is that of one order or the
other (`SerializableOutsideRaces`). What the races can do:

| Pair | Outcome no order gives |
|---|---|
| writers of one route (point, canary, analyze, preview, rollbacks) | the older decision replaces the newer; a preview's "previous" is not what it replaced |
| TLS and ownership of one domain | a state computed from the one before last |
| role changes and removals of two owners | none is left |
| deletion and outbox of one release | the attempt count or status of the other is lost |
| prune against invoice writers | a legal hold set between reading the policy and deleting is lost |
| cleanup against a heartbeat | a node that came back is deleted |
| two counted creations at a quota | one more than the limit (`QuotaOvershootIsBounded`) |
| two billing profiles, two webhook deliverers | a column of the other is lost; an attempt is not counted |

A heartbeat carries a status of its own (active when it names none), so in any
order it replaces what an operator set before it. Two operations are not safe to retry (`NotRetrySafe`): `createBetaOnboarding`
meets its own organization, `createDeployPreview` takes the route it pointed
itself for the previous one.

### HttpRoutes, HttpApi — `odenctl/src/http/app.ts`

`HttpRoutes` is the table of handlers with their patterns, in the order of the
code, and the scope rule that decides before it. `HttpApi` follows a request
through authorization, body, dispatch, handler, audit and answer, and an upload
through its temporary file, digest, validator, store and registration. `ran`
records with which scopes an operation ran and whether its key was already
revoked when the request arrived. What an operation does to the database is
ControlPlane's subject; here it succeeds or throws.

### RuntimeFleet — `placement.ts`, `heartbeat.ts`, publication in `app.ts`

Its first half is placement, which is pure: rules, failover tiers, isolation,
drain, exclusion. The second runs it under a registry that changes: nodes
register and send heartbeats, operators drain, a publication reads the nodes once and then
delivers target by target, a warm-up sends a new node the whole snapshot.

### FlyAutoscaler — `autoscaling.ts`, `fly-autoscaler.ts`

The decision of how many machines there should be comes first. A controller then
goes from await to await: cooldown, lease, cooldown again under the lease, machine actions, new
cooldown, release; it may crash, fail or outlive its lease, and a machine may be
changed although its request fails. `rounds` is the history of every reconciliation
from its first step on: the first and last time at which it can have changed a
machine, whether its cooldown was written, whether its lease had run out by then. The memory, SQLite and
Postgres stores differ in how a lease is taken and given back.

### VolumeSqlite, DurableObjects — `volume-sqlite.ts`, `durable-object-*.ts`

Only `writeDatabase()` awaits, so only its operations interleave with others:
jobs wait in the queue of their database, run in a transaction on a pooled
handle, and meanwhile the handle may be evicted or its database restored. A file
is what its transactions left. `kept` is the history the properties compare it
with. A backup loses its file and then its row, and gets them in that order, and
each may be the last step (`deleteBackups`, `exportDatabase`). The dispatcher of alarms shares the queues; a restart may happen at any
point, also between handler and deletion, or when the deletion is done and the
dispatcher has not noticed. `raced` is history: the databases whose alarm was set
again before it was deleted, which is one of the two ways the code loses one.

### Migrations — `migrations.ts`, `repository.ts`, `db/postgres/001_init.sql`

A table is its set of columns; a row is kept only if a new column left it blank.
SQLite runs its schema and then each unrecorded migration statement by statement,
without a transaction; the opener may die or find the file busy after any of
them, and a second may open it meanwhile. Postgres runs one script in one
transaction. Databases come from any of several earlier releases.

### ArtifactCache — `runtime/artifacts.ts`, `wasmtime.ts`, `wasip3-host.ts`, `cache-retention.ts`

Loads from every kind of location (file, http, S3, OCI registry), compilations
and collections, step by step over one directory of names and inodes, so that a
write in progress follows its file when another load renames it.

### HostDaemon — `odenctl/src/main.rs`, with `supervisor.ts` and `wasip3-host.ts`

A request is matched by the node, checked, and matched again by the daemon
against the table of the last PUT. Both matchers and the weighted choice are
modelled from their own source; publication, its failure, the compare-and-swap
of admission and a restart of the daemon are actions. The daemon adds weights up
to `MaxWeight` (`u32::MAX`, `saturating_add`), the node in JavaScript numbers.

### HttpServer — `oden-core/src/server.rs`

The serve loop, the connection (with the future of `respond_inner`, then the
body) and the guest's task, which ends some steps after it was cancelled. The
permit and the guard that cancels the task move from future to body.

## Runs

| Run | Shows |
|---|---|
| `control_plane` | one caller: the asynchronous control plane over PostgreSQL implements the synchronous one over SQLite (`Twin`), and no project loses its last owner. Two callers: serializable but for the listed races; a process that dies and a client that retries converge; quotas overshoot by at most a request; events, invoices, webhooks and edge workers are not lost; keys rotate once and routes stay in their project. Every call is answered |
| `hosts` | HTTP API: no handler without its right, a complete audit log, registered artifacts are stored. Fleet: isolation after a publication. Fly: serial scaling. Volumes and alarms: serial writers, restorable backups, no lost alarm. Opening: a served database is complete. Caches: names hold what they say, what is served is on disk. Daemon: it runs what the node checked. Server: permits and guests come back |
| `cache_updates` | GET, HEAD and unmatched requests against purges and two overlapping updates: the fence, empty while suspended, only entries of the installed table (`CacheFenced`); exact pending count, attached waiters, one leader per generation (`CoalescingExact`); every request answered |
| `cache_capacity` | three requests, a clock, sizes, ages, lifetimes, a full pending budget: limits hold, hits are current |
| `delivery_faults` | two publications, refusing, failing and crashing peers, late PUTs, equal timestamps: an undisturbed node restores what it serves, a confirmed replica never goes back |
| `delivery_reports` | the job's publications with time-outs and retries everywhere, to a node that fails and crashes: ok means saved, and the file holds that or another saved publication (`PublishedMeansPersisted`); every publication is reported though peers never answer |
| `delivery_restore` | **violated**: overlapping PUTs leave an older snapshot in the file |
| `supervisor` | two warm-ups of two workers and a request, of which one compilation fails, under idle, project and node limits: no failed entry, nothing unrouted stays, limits hold (`PreparedSound`), ACK means compiled, eviction by last use, every warm-up ends |
| `service` | stop once, after the drain, never on a failed Store, clean exits (`OrderlyStop`); at most 2n wait for the guest; a request whose client stays fails only by its own deadline or with the generation (`FailuresHaveCause`); every admitted request answered, and a drain ends by itself or, held by a client, at the shutdown deadline (`DrainAnswersEveryone`) |
| `service_claim` | **violated**: disconnects let more than n requests in |
| `service_watchdog` | **violated**: the previous call's deadline ends the running call |
| `runtime_node` | two projects, with and without a cache: exact counters and limits (`PermitsSound`), outcomes counted once, an orderly exit cuts off nothing the signal found in progress, requests and shutdowns wait for nothing but clients, and the drain not for them (`EveryoneIsServed`) |

**Bounds.** Two or three of each actor: every race above needs two writers and
one observer.

*`control_plane`*: eight domains (tenancy, metering, invoices, resources, routes,
custom domains, nodes, releases), each with a database the synchronous service
built and 10 to 25 requests chosen so that every branch of every operation is
taken; every ordered pair of requests of a domain runs after one another and at
once. Two callers and one retry (`MaxRetries`): three requests at once add no
pair, and the properties on races are about pairs; `Quota = 2` is met
by the second creation.

*`hosts`*: the eight parts share no state, so a behaviour picks one and the others
stand still. The API takes every path a route or a scope rule looks at, of every
method that fits one, under every kind of token, and then pairs of requests
that meet: a key revoked in flight, uploads of the same bytes. The fleet has two
nodes, a static URL that never registers, and four policies under three steps
of registry and publications (`MaxFleetSteps`). Two Fly controllers begin two reconciliations between them (`MaxRounds`: the property
compares pairs; the theorem has any number) on a clock of three instants, with lease
and cooldown of one, so both run out within a reconciliation. Volume scripts are up to six calls on two databases, a pool of one handle
and queues of two. Openings start from eleven SQLite and four PostgreSQL
databases, a new one, earlier releases and a later one, with one opener that may
die or two at once. Caches have two loads, two collections and three instants. The daemon has
two requests and two or three tables; the server three connections on one
permit: one that runs, one refused, one that comes once a permit is back.

*The others*: in `cache_updates` two requests give a leader and a waiter, and two
updates overlap; `cache_capacity` has a third request, for which the pending
budget is full, and times on both sides of every lifetime. In `supervisor` one
table exceeds the node's limit and the other a project's; a warm-up has two workers
and one compilation may fail (`MaxFailures`), so that the other worker of its
warm-up, the other warm-up and the request meet the failure at every point; one
tick of the clock (`MaxTime`) orders uses but expires no idle entry, whose eviction
is left to the theorems. `delivery_faults`
crosses crashes and handler failures with two versions of the route table and
two instants, but only the replica's connection is unreliable;
`delivery_reports` makes both unreliable, lets the node fail and crash, and keeps
the table and the clock fixed: the product of both runs has more than eight
million states. `service` has one permit and three
requests: one in the guest, one in the mailbox and one blocked sending, which is
only possible once clients have left. `runtime_node` has two requests of a
limited project and one of another; with one invocation at a time the node's
limit is met with a project's permit in hand, with two the projects overlap.
Clocks and version counters stop at a named bound (`MaxTime`, `MaxRoutes`,
`MaxGeneration`). Symmetry is used only in runs without liveness and on sets
whose members are interchangeable.

**Fairness.** Cache and supervisor: the event loop runs ready callbacks, and
invocations and compilations settle because their own timeouts bound them.
Delivery: only the control plane is fair, and a fetch without an answer ends in
an error; nodes and replicas may be silent for ever. Service: Tokio polls ready
tasks and timers fire; guest handlers may never return, and clients may never
send, read or close: `ConnectionEnds` is not fair. Only the last conjunct of
`DrainTerminates` uses the shutdown deadline, as a premise. Node: preparing a route
settles, the HTTP server times a slow body out until it is closing, `fetch()` a log
drain, and every component has a `wallMs` (contracts.ts:928); guests may never
return and clients never close. Control plane: each caller's next step is weakly fair,
as Node runs the continuations of settled awaits; a retry is not promised. The
parts of `hosts` state no fairness and no liveness.

## Findings

1. `delivery_restore`. `docs/user/control-plane-reference.md:226` promises that
   the latest accepted snapshot is persisted. The PUT handler installs before it
   awaits the file, and nothing orders two handlers: installs A, B and renames
   B, A leave the node serving B with A on disk.
2. `service_claim`. `docs/developer/service-runtime.md:48` says the limit bounds
   executing, queued and body-receiving requests. The permit is dropped with the
   connection while its call stays queued or running. The bound that does hold
   is 2n besides the request being executed (`WorkBounded`).
3. `service_watchdog`. `docs/developer/service-runtime.md:43` says that an
   execution runs to completion within its deadline. The watchdog polls its
   timer before the watch channel; when the next queued call starts in the same
   poll, the timer of the finished call can still fire and end the generation.

The models also led to observations that contradict no text of the repository, or
that the properties except by name:

* the races of the control plane and the two operations that are not safe to
  retry, above;
* of two overlapping publications the one with the newer `generatedAt` may have
  read the older routes: the stamp is taken after the read (async-service.ts:2240);
* a Fly controller that outlived its lease overwrites the cooldown with an older
  one, and controllers without `controllerId` all are "default-controller",
  whose lease each of them may take (`ScalingIsSerial` excepts both);
* an alarm set between the dispatcher's check and its deletion is lost, and so is
  one set to the same time again after its handler was called (`raced`);
* a client that keeps its connection holds the end of a node's `close()` for as long
  as it likes, after the drain (node-app.ts:527), and that of the resident service's
  drain until its deadline (service.rs:328);
* a backup deletion that stops half way leaves a row whose file is gone, which only
  a later prune removes (volume-sqlite.ts:585);
* a validator that fails one upload unlinks the file of another upload of the
  same bytes (`RegisteredIsStored`);
* an older binary runs its schema before it refuses a newer database; the
  Postgres script cannot upgrade a release-25 database, whose
  `edge_worker_releases` has no `status` (001_init.sql:304);
* with `verifyDigest` off a bad download stays in the cache and fails later
  loads; two loads may hold one temporary name of a millisecond, and a collection
  short of space that deletes the file under it lets the second create it again
  while the first still means to rename it; a load begun during a collection may
  be served from a deleted path (`CacheIsSound`);
* daemon and supervisor disagree on a prefix that ends in a slash and on a host
  and prefix held by two projects, and on weights whose sum exceeds `u32::MAX`
  (`Unambiguous`); overlapping or half-failed PUTs leave their tables different
  until the next one that runs alone;
* rolling a preview back writes the route it replaced without counting it
  (async-service.ts:1683), so that previews on top of one another, with the route
  deleted in between, exceed the route quota even one call at a time (`Counted`);
* an edge worker whose script another release deployed again between a failed
  deletion and the end of its retries has nothing that deletes it (`Redeployed`).

## Proofs

`tlapm` checks every step; nothing is assumed but the ASSUMEs on constants, which
TLC evaluates in every run. Each theorem holds for every value of the constants
those allow: any number of requests, callers, nodes or databases, any limit, any
workload.

| Assumption | Says | Why the code justifies it |
|---|---|---|
| `ConfigAssumption`, `ResponseAssumption`, `DeliveryAssumption`, `NodeAssumption`, `ServiceAssumption`, `ServerAssumption`, `SupervisorAssumption`, `VolumeAssumption` | positive limits, finite sets of requests, disjoint nodes and replicas, a snapshot names a deployment once | options are validated; a process has finitely many requests; the targets of a warm-up go through a Map by deployment (supervisor.ts:293) |
| `CallersAssumption` | there is a caller, and finitely many | nothing to say otherwise |
| `WorkloadsAssumption` | a workload starts from a `SoundDb`: its routes are of their projects, its deliveries honest, one invoice for an organization and period, the operations of a release in order, nodes and invoices finite, no failed deletion forgotten, every project within its quotas. An onboarding names its project | the empty database is sound (`EmptyIsSound`), and so is every database the runs start from; all but the last two are invariants themselves, and the invoices have that unique key in both schemas. A project the request does not name gets an id before the first statement that uses it. A database that a race took past a quota, or whose script was deployed again, is one the theorems say nothing more about |
| `CacheAssumption` | a node starts with whole files under final names | what its last process left; what a dying one leaves is a step of the model |
| `TokensAssumption` | the secret of a key the service generates is no token the operator configured | keys are random (service.ts) |
| `FlyAssumption`, `ObjectAssumption`, `DaemonAssumption` | the shape of setups and scripts; `deleteAlarm` of an object names no time; a prefix is not empty and a path begins with a slash | types of the handlers' parameters; a URL's path |

* **ResponseCacheProofs** — `TypeCorrect`, `CacheIsFenced` (`CacheFenced`),
  `CoalescingIsSound` (`CoalescingExact`), `HitsAreCurrent` (`HitIsCurrent`),
  `CacheWithinLimits` (`StoreWithinLimits`). The fence is not inductive by itself:
  an entry is stored by a fill that read the generation earlier, so the invariant
  also says what a pending fill of the current generation has seen (its table is
  the installed one, its request is newer than the purge of its key, no update is
  in progress). Coalescing needs that the leader registered for a key is the only
  pending one of its generation and that waiters name existing fills. That the
  evictions of `store()` suffice needs that the Map orders its entries totally
  (`StoreInv`): with a tie neither would be evicted.
* **SnapshotDeliveryProofs** — `TypeCorrect`, `PublishedIsPersisted`
  (`PublishedMeansPersisted`), `ConfirmedIsHeld` (`ConfirmedMeansHeld`),
  `RestoresWhatItServes` (`ServesWhatItWouldRestore`). Answers arrive long after
  their cause, so the invariant follows a PUT from stamp to answer: whatever is
  on the wire or in a handler was stamped before (`StampInv`), calls and attempts
  go together (`CallInv`), an "ok" of a node follows its save (`SavedInv`), and an
  undisturbed node has at most one handler, of the snapshot it serves
  (`LoneInv`), and the file of a node is always that of a publication it saved
(`FileInv`). `ConfirmedIsHeld` is proved for every order of ids.
* **RuntimeSupervisorProofs** — `SupervisorTypeCorrect`, `PreparedIsSound`
  (`PreparedSound`), `AcknowledgedIsCompiled` (`AckMeansCompiled`),
  `EvictionIsByLastUse` (`EvictsLeastRecent`), from `SupervisorInvariant`. The
  lemmas before it are about the eviction: ranks by last use have no gaps, the
  packing of a warm-up stays within the limits per project and per node, and an
  entry kept is not older than one evicted for the same limit. `AckInv` says
  where each deployment an update names is (compiled, with a worker or still to
  be started), since workers take them from a shared index.
  And `CachesAreSound` (`CacheIsSound`) for the files of `ArtifactCache`: a load
  that alone holds a temporary name is the only one whose bytes reach the inode it
  opened, which is under that name or under none (`HolderInv`), so what it renames
  is what it wrote (`ContentInv`); as long as a collection is under way, every load
  behind an entry is one it still waits for, or is ready and has its files in the
  keep set (`ServedInv`).
* **RuntimeNodeProofs** — `NodeTypeCorrect`, `PermitsAreExact` (`PermitsSound`),
  `MetricsAreBalanced` (`MetricsBalance`), `ExitWaitsForAll` (`ExitWaits`). Every
  step leaves the set of invocations alone, adds one or removes one (`Kinds`), and
  the counters follow by cardinality. `DrainInv` follows what `close()` found in
  progress: such a request only moves on to its end, and the drain is over only
  when the tracker, which is exact, is at zero. `AbortInv` ties an abort to its
  invocation, so that its failure is counted once.
* **ControlPlaneProofs** — `KeysAndRoutes` (`KeysAndRoutesHold`), `Outboxes`
  (`OutboxesSurviveRaces`), from `ControlPlaneInvariant`, for any number of
  callers and any number of processes that die. The operations are many and each
  writes few tables, so the first part gives the footprint of every step: which
  tables it writes, and where its call stands afterwards. Each invariant then
  looks only at the operations that write what it is about, and says what a call
  in flight has found and still relies on after its awaits: a rotation holds the
  row lock until its key is revoked (`KeysInv`); a route read before an await is
  still of its project when it is written back, as no operation moves a
  deployment (`RoutesInv`); a call that lost an insert finds the row that won
  (`UsageInv`, `InvoiceInv`); an answer of the endpoint reaches its row
  (`DeliveryInv`); a release deleted at the provider has a call, or an operation
  the outbox holds, that retries it (`EdgeInv`).
* **ControlPlaneQuotaProofs** — `QuotaOvershoot` (`QuotaOvershootIsBounded`), from
  `QuotaInvariant`. The bound is not inductive: rows and the calls that were
  counted and have yet to insert are bounded together. For metered units, whose
  events weigh differently, the bound is over every set of counted calls: the
  last of them to be counted saw what the others had inserted. `LastOwner`
  (`LastOwnerStays`): in a serial workload the memberships are those of the last
  answer until the call writes one (`MemberCall`), so what
  `assertProjectKeepsOwner()` found holds when the UPDATE or DELETE comes; an
  onboarding only writes to a project that the last answer did not know.
* The refinement, `AsyncIsSync` (`Twin`), at the end of both modules: used by one
  caller at a time, `async-service.ts` over PostgreSQL is `service.ts` over SQLite,
  for every workload. Its parts, in order:
  1. The two repositories and the rules do alike (`SamePrimitives`,
     `SameStatements`, `SameMeters`, `SameRules`): the synchronous control plane is
     an instance, so each of its operators is another symbol and must be shown
     equal.
  2. Each method of `service.ts` comes to its statements in the order the
     asynchronous one makes them (the lemmas `...Served`). Three of them loop over a
     list, which a call of `async-service.ts` may take in any order here:
     `FiniteInduction` shows that the end is the same, since each row is treated on
     its own. `FleetService` leaves out the status "deleting", which the method
     writes and then writes over: it leaves no trace (`StatusOverwritten`).
  3. `Rests` says, for each await, what is left of the method. `TwinInv`: what is
     left, on the database as it is, comes to what the whole method makes of the
     database of the last answer.
  4. Each step keeps that or answers as the method does (a lemma `...Twins` for
     each operation; `CheckTwins`, `WriteTwins`, `FinishTwins` for a check, a
     statement and the last one). So an answer is a step of the synchronous control
     plane, and any other step a stutter.
* **HostsProofs** — hosts that share no state, one section each:
  * `HttpServer`: `GuestsAreReclaimed` (`ServerReclaimsGuests`). A guest outlives
    its connection, so the invariant counts permits against the connections that
    hold one (`CountInv`), ties a guest nobody has cancelled to such a connection
    (`GuardInv`), and says that joined connections start no guest (`JoinedInv`).
  * `FlyAutoscaler`: `ScalingSerial` (`ScalingIsSerial`), for each of the stores.
    A controller whose lease has not run out is the holder in the store, and none
    is ahead of the clock (`FlyIInv`); the rest of the invariant follows each
    reconciliation's record from its first change to the cooldown, as one that threw
    or died leaves its record behind.
  * `RuntimeFleet`: `PublicationsIsolate` (`PlacementIsolates`), for every policy.
  * `HttpApi`: `AuditLogIsComplete` (`AuditIsComplete`), `RegisteredBytesAreStored`
    (`RegisteredIsStored`): what the hook has appended and the store holds goes
    with the place of each request (`ApiInv`). `OperationsAreGuarded`
    (`HandlersAreGuarded`), for every method, path and token: the right asked of a
    request is computed from its method and path alone, apart from the table of
    handlers, so the table and the rule are shown to agree handler by handler
    (`DispatchIsRightful`); no path is like those of two groups of handlers
    (`Home`), and within a group methods, lengths and end segments tell them
    apart. `TokenInv` says that who was let in has the right, and that a key found
    revoked on arrival is never accepted later.
  * `HostDaemon`: `DaemonRunsWhatNodeChecked` (`DaemonRunsWhatWasChecked`). The two
    matchers are shown to choose alike on an unambiguous table, and the counter
    of the limiter to be the number of permits held (`DaemonInv`).
  * `ResidentService`: `ResidentTypeCorrect`, `StopIsOrderly` (`OrderlyStop`),
    `WorkIsBounded` (`WorkBounded`), `FailuresAreCaused` (`FailuresHaveCause`). No
    connection is left once the stop token is cancelled and the mailbox closes
    only then (`PhaseInv`); the stop hook has run exactly when the worker is past
    its loop (`StopInv`); permits are at most n (`PermitInv`), from which the
    bound of 2n follows by cardinality.
  * `VolumeSqlite`, `DurableObjects`: `VolumeSerial` (`VolumeIsSerial`), `AlarmsKept`
    (`AlarmsAreKept`), from `ObjectInvariant`. That at most one operation runs
    follows from the order of the queue: each operation waits for the one that
    was the tail when it came, so those of a database form a chain (`Chained`),
    and a queue that is remembered has the last of them as its tail. A
    transaction that is still connected holds what its file holds
    (`RunsOnFile`), so its commit loses nothing. A row without its file is one the
    retention would delete: a deletion goes from the newest of its database on, and
    nothing takes a row's rank back (`BackupInv`). The dispatcher's deletion is the
    only one with a time that can be waiting (`ClearsForDispatcher`).
* **FiniteFacts** holds what these share: a least number, cardinalities of a set
  with one more element, sums over finite sets, and induction over a finite set
  (stated for a set of subsets, which the provers can instantiate).

Attempts that failed changed what is stated. `UndeletedIsRetried` and
`EvictsLeastRecent` were stronger than the code in cases the runs did not reach;
the route quota was too (`Counted`), and `LastOwnerStays`, which named the answer that
takes an owner: one that was given before is no new answer. `CacheIsSound` excepted a load that
opens the temporary file of another one; its proof needs the exception for the
name, also when a collection has deleted the file in between, and TLC showed the
torn artifact that results otherwise (a workload of `hosts` now has three loads
and a collection in one millisecond). An alarm deleted by the dispatcher just before
a restart was missing from `raced`; a script of the run now takes that path.

What was written for the provers: `Put`, `Bind`, `Visit` and a few records are
function constructors, sums are `SumFunctionOnSet`, a closed handle is removed with
`RemoveAt`, inodes are numbered as they are made, and a request is dispatched to
the least place of a handler that takes it (`Fits`). The modules of the synchronous
control plane extend one another, so that its operators have one name each under
`Sync!`, and its methods chain checks with `Provided` and writes with `Then`. No
definition computes anything else than before.

Only model-checked:

* all liveness, which is out of the prover's reach;
* `SerializableOutsideRaces` and `RetriesConverge`: they compare a database
  with the ones other orders produce, through a recursive function over the
  requests (`InTurn`), for pairs that the workload names;
* `MigrationsComplete`, a fact about the statements of some thirty migrations
  applied in sequence.

## Not modelled

* *External*: SQL (each statement or transaction is one atomic step), Wasmtime,
  the providers' APIs (their answers are inputs), cryptography (a signature or a
  ciphertext is a term of its key).
* *Contracts and errors*: the normalizers of single values and the record
  types of `contracts.ts`; where one decides over a request it is part of the
  operation. Parsing of placement and admission policies.
* *Reads*: lists, exports, the enforcement and billing reports, response bodies,
  logs, events, traces, metrics, telemetry. They change nothing.
* *No state of their own*: the durable client (one attempt and its
  classification), the host adapters' encodings, secret encryption, reading of
  configuration, the command lines (`cli.ts`, `oden`), development loops.
* *Left out of a modelled part*: quarantine of an invalid route file, which no
  modelled step produces; the interval of the retention job; the backup job and
  the restore drill, which work on copies; listing of keys and the alarm demo; the
  daemon's precompilation and its encoding of bodies; the cap on connections of
  `server.rs`, which drops sockets before there is a request; the failure of a
  single database statement while its process lives on; the batch limit and the
  order of the outbox of edge workers (a delivery takes what is due in any order).
* *Drivers*: benchmarks, smoke tests, operator scripts, examples.
* The component runtime (`component.rs`, `engine.rs`) keeps a cache of compiled
  components and otherwise drives Wasmtime.

Per component reasons are in `PROJECT.json`.

## Plan

1. Done: the core (ResponseCache, SnapshotDelivery, RuntimeSupervisor,
   ResidentService, RuntimeNode); the control plane with its two services and
   their refinement; the hosts; the theorems above.
2. Models still worth writing: token buckets of the node under a clock that may
   be set back; the daemon's precompilation; `hosts` with its parts composed (a
   publication that places, delivers and reaches the daemon).

Runs stay few: a run holds a component's safety and liveness together.
