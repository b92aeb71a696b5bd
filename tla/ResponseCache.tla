---------------------------- MODULE ResponseCache ----------------------------
(***************************************************************************)
(* The in-memory response cache of the Node deployment gateway             *)
(* (runtime/response-cache.ts) with the part of the gateway that drives it *)
(* (runtime/node-app.ts): worker requests that capture the cache revision, *)
(* select a route and call execute(), route snapshot updates that suspend  *)
(* the cache while they install a new route table, and operator purges.    *)
(*                                                                         *)
(* Node runs one synchronous stretch of code at a time, so an action is    *)
(* what the code does between two awaits.  A cache key stands for the hash *)
(* of project, deployment, component, URI and headers: a record that keeps *)
(* the two fields a purge scope looks at.  Bodies and headers are reduced  *)
(* to the size and the freshness the code computes from them; the counters *)
(* that stats() reports and that no branch reads are left out.             *)
(***************************************************************************)
EXTENDS Integers, FiniteSets, FiniteSetsExt

CONSTANTS
  Requests,       \* worker requests, one execute() call each
  Updates,        \* PUT /__runtime/snapshots/routes calls, one each
  Keys,           \* cache keys: records with projectId, deploymentId, rest
  Selections,     \* <<key, isHead>>: what a request may turn out to ask for
  Responses,      \* what a guest may answer: ok, size, ttl, age, lag
  MaxEntries, MaxBytes, MaxEntryBytes, MaxPending, MaxTtl,  \* the config
  MaxGeneration,  \* bound: operator purges stop at this generation
  MaxTime         \* bound: the clock stops here

NoKey == [projectId |-> "none", deploymentId |-> "none", rest |-> "none"]
AnyId == "any"

ASSUME ConfigAssumption ==
  /\ MaxEntries \in Nat \ {0}
  /\ MaxPending \in Nat
  /\ {MaxBytes, MaxEntryBytes, MaxTtl, MaxGeneration, MaxTime} \subseteq Nat
  /\ IsFiniteSet(Requests)
  /\ IsFiniteSet(Updates)
  /\ IsFiniteSet(Keys)
  /\ NoKey \notin Keys
  /\ Selections \subseteq (Keys \cup {NoKey}) \X BOOLEAN

ASSUME ResponseAssumption ==
  \A a \in Responses : /\ a.ok \in BOOLEAN
                       /\ {a.size, a.ttl, a.age} \subseteq Nat
                       /\ a.lag \in Int

VARIABLES
  pc,          \* where each request is, or how it was answered
  rev,         \* execution.revision: the generation the request captured
  route,       \* the route table its route was selected from
  key,         \* match.key, or NoKey when the request is not cacheable
  head,        \* the requests whose method is HEAD
  requestedAt, \* requestTime of a leader's load
  leader,      \* the fill a coalesced request waits on
  aborted,     \* the requests whose AbortSignal has fired
  entries,     \* the stored responses, a function on the cached keys
  older,       \* <<a, b>>: a precedes b in the Map, so a is evicted first
  fills,       \* the registered fill of a key, by its leader
  generation,  \* identity of the current generation
  suspended,   \* how many suspend() calls are not resumed
  bytes,       \* bytes charged for the stored responses
  pending,     \* leaders and waiters in flight
  now,         \* the clock
  update,      \* where each snapshot update is
  installed,   \* identity of the supervisor's route table
  purgedAt     \* history: the generation opened by the last purge of a key

requestData == <<rev, route, key, head, requestedAt, leader, aborted>>
storeVars   == <<entries, older, bytes>>
updateVars  == <<generation, suspended, update, installed, purgedAt>>
vars == <<pc, requestData, storeVars, fills, pending, updateVars, now>>

\* Requests that have been answered, by the status of the answer.
Answered == {"HIT", "MISS", "BYPASS", "error"}
\* Requests that count towards `pending`.
Holding  == {"filling", "waiting", "wokenStored", "wokenEmpty", "detached"}
Places   == {"idle", "arrived", "selected", "bypassing"} \cup Holding \cup Answered

Scope == [projectId    : {k.projectId : k \in Keys} \cup {AnyId},
          deploymentId : {k.deploymentId : k \in Keys} \cup {AnyId}]

Init ==
  /\ pc = [r \in Requests |-> "idle"]
  /\ rev = [r \in Requests |-> 0]
  /\ route = [r \in Requests |-> 0]
  /\ key = [r \in Requests |-> NoKey]
  /\ head = {}
  /\ requestedAt = [r \in Requests |-> 0]
  /\ leader = [r \in Requests |-> r]
  /\ aborted = {}
  /\ entries = [k \in {} |-> 0]
  /\ older = {}
  /\ fills = [k \in {} |-> 0]
  /\ generation = 0
  /\ suspended = 0
  /\ bytes = 0
  /\ pending = 0
  /\ now = 0
  /\ update = [u \in Updates |-> "idle"]
  /\ installed = 0
  /\ purgedAt = [k \in Keys |-> 0]

-----------------------------------------------------------------------------
(* The store: a Map in insertion order, with its byte count.               *)

SizeOf(K) == SumFunctionOnSet([k \in DOMAIN entries |-> entries[k].size], K)

\* The entries and their order once only the keys in K are left.
Only(K)      == [k \in K |-> entries[k]]
OrderOf(K)   == {p \in older : p[1] \in K /\ p[2] \in K}
\* The order once k has been deleted and set again, behind every key of K.
SetLast(K, k) == OrderOf(K \ {k}) \cup {<<j, k>> : j \in K \ {k}}

\* remove() of every key outside K.
Keep(K) ==
  /\ entries' = Only(K)
  /\ older' = OrderOf(K)
  /\ bytes' = bytes - SizeOf(DOMAIN entries \ K)

\* What lookup() finds: a stored response that has not expired.
Fresh(k) == k \in DOMAIN entries /\ now < entries[k].expiresAt

\* lookup() of a fresh entry: it becomes the most recently used one.
Touch(k) ==
  /\ older' = SetLast(DOMAIN entries, k)
  /\ UNCHANGED <<entries, bytes>>

\* lookup() of anything else: an expired entry is removed on the way.
DropStale(k) == Keep(DOMAIN entries \ {k})

Matches(k, scope) ==
  /\ scope.projectId \in {AnyId, k.projectId}
  /\ scope.deploymentId \in {AnyId, k.deploymentId}

-----------------------------------------------------------------------------
(* prepareResponseCacheEntry() and the insertion at the end of a fill.     *)

\* MUTANT of InitialAge: the time the invocation took is not counted.
InitialAgeOnArrival(a, sent) == Max({0, a.lag, a.age})

\* The age a response has when it arrives, from its Date and Age headers and
\* from the time the invocation took.
InitialAge(a, sent) == Max({0, a.lag, a.age + Max({0, now - sent})})
Lifetime(a)         == Min({a.ttl, MaxTtl})

Cacheable(a, sent) ==
  /\ a.ok
  /\ a.ttl > 0
  /\ InitialAge(a, sent) < Lifetime(a)
  /\ a.size <= MaxEntryBytes
  /\ a.size <= MaxBytes

\* rev, route and freshUntil are history: the generation and the route table
\* of the load, and the last moment its headers let a cache use it.
EntryFor(r, a) ==
  [size       |-> a.size,
   expiresAt  |-> now + Lifetime(a) - InitialAge(a, requestedAt[r]),
   rev        |-> rev[r],
   route      |-> route[r],
   freshUntil |-> requestedAt[r] + Lifetime(a) - a.age]

\* The keys other than k that survive the sweep of expired entries.
Unexpired(k) == {j \in DOMAIN entries : entries[j].expiresAt > now} \ {k}

\* MUTANT of Survivors: entries are not evicted to make room.
SurvivorsUnbounded(k, size) == Unexpired(k)

\* The survivors, without the least recently used ones that make room for a
\* response of the given size.  Entries are dropped from the front of the Map
\* until the limits hold, which leaves the longest tail that fits: the tails
\* of the order are nested, so that is the union of those that fit.
Survivors(k, size) ==
  LET live == Unexpired(k)
      tails == {K \in SUBSET live :
                  \A i \in K, j \in live : <<i, j>> \in older => j \in K}
      fits(K) == /\ Cardinality(K) < MaxEntries
                 /\ bytes - SizeOf(DOMAIN entries \ K) + size <= MaxBytes
  IN  UNION {K \in tails : fits(K)}

Store(r, a) ==
  LET k == key[r]
      K == Survivors(k, a.size)
  IN  /\ entries' = [j \in K \cup {k} |->
                       IF j = k THEN EntryFor(r, a) ELSE entries[j]]
      /\ older' = OrderOf(K) \cup {<<j, k>> : j \in K}
      /\ bytes' = bytes - SizeOf(DOMAIN entries \ K) + a.size

-----------------------------------------------------------------------------
(* purge(), which every suspend and resume also calls.                     *)

\* MUTANT of Woken: resolve() calls no listener.
WokenNobody(L, place) == pc

\* resolve() of a set of fills wakes the requests that wait on them.
Woken(L, place) ==
  [r \in Requests |->
     IF pc[r] = "waiting" /\ leader[r] \in L THEN place ELSE pc[r]]

PurgeWith(scope) ==
  /\ generation' = generation + 1
  /\ Keep({k \in DOMAIN entries : ~Matches(k, scope)})
  /\ pc' = Woken({fills[k] : k \in DOMAIN fills}, "wokenEmpty")
  /\ fills' = [k \in {} |-> 0]
  /\ purgedAt' = [k \in Keys |->
                    IF Matches(k, scope) THEN generation + 1 ELSE purgedAt[k]]

Everything == [projectId |-> AnyId, deploymentId |-> AnyId]

\* POST /__runtime/response-cache/purge
Purge(scope) ==
  /\ generation < MaxGeneration
  /\ PurgeWith(scope)
  /\ UNCHANGED <<requestData, pending, suspended, update, installed, now>>

\* PUT /__runtime/snapshots/routes up to its first await: the cache is
\* suspended and the supervisor replaces its route table.
SnapshotPut(u) ==
  /\ update[u] = "idle"
  /\ update' = [update EXCEPT ![u] = "updating"]
  /\ suspended' = suspended + 1
  /\ PurgeWith(Everything)
  /\ installed' = installed + 1
  /\ UNCHANGED <<requestData, pending, now>>

\* Warm-up, publication and save succeeded or failed: the finally block.
SnapshotDone(u) ==
  /\ update[u] = "updating"
  /\ update' = [update EXCEPT ![u] = "done"]
  /\ suspended' = suspended - 1
  /\ PurgeWith(Everything)
  /\ UNCHANGED <<requestData, pending, installed, now>>

-----------------------------------------------------------------------------
(* A worker request.                                                       *)

Goto(r, place) == pc' = [pc EXCEPT ![r] = place]

\* bypass(): an invocation of its own, refused at once for a dead request.
Bypass(r) == Goto(r, IF r \in aborted THEN "error" ELSE "bypassing")

\* The gateway accepts the request and captures the cache revision.
Arrive(r) ==
  /\ pc[r] = "idle"
  /\ Goto(r, "arrived")
  /\ rev' = [rev EXCEPT ![r] = generation]
  /\ UNCHANGED <<route, key, head, requestedAt, leader, aborted, storeVars, fills, pending, updateVars, now>>

\* prepareRoute() selects a deployment from the table installed now; with the
\* URI, the headers and the rules that fixes the cache key and the method.
SelectRoute(r, k, isHead) ==
  /\ pc[r] = "arrived"
  /\ Goto(r, "selected")
  /\ route' = [route EXCEPT ![r] = installed]
  /\ key' = [key EXCEPT ![r] = k]
  /\ head' = IF isHead THEN head \cup {r} ELSE head
  /\ UNCHANGED <<rev, requestedAt, leader, aborted, storeVars, fills, pending, updateVars, now>>

\* The client disconnects or the wall deadline of the request passes.  A
\* waiter detaches from its fill; the others notice when they continue.
Abort(r) ==
  /\ pc[r] \in {"selected", "bypassing"} \cup (Holding \ {"detached"})
  /\ r \notin aborted
  /\ aborted' = aborted \cup {r}
  /\ IF pc[r] = "waiting" THEN Goto(r, "detached") ELSE pc' = pc
  /\ UNCHANGED <<rev, route, key, head, requestedAt, leader, storeVars, fills, pending, updateVars, now>>

\* The revision the gateway passes still names the current generation, the
\* cache is in use and the request has a cache key.
Admitted(r) == suspended = 0 /\ rev[r] = generation /\ key[r] # NoKey

\* A fill of the key is registered.
Filling(k) == k \in DOMAIN fills

ExecuteRefused(r) ==
  /\ pc[r] = "selected"
  /\ r \in aborted \/ ~Admitted(r)
  /\ Bypass(r)
  /\ UNCHANGED <<requestData, storeVars, fills, pending, updateVars, now>>

ExecuteHit(r) ==
  /\ pc[r] = "selected" /\ r \notin aborted /\ Admitted(r)
  /\ Fresh(key[r])
  /\ Touch(key[r])
  /\ Goto(r, "HIT")
  /\ UNCHANGED <<requestData, fills, pending, updateVars, now>>

\* A miss that may not coordinate: a HEAD, or the pending budget is used up.
ExecuteUncoordinated(r) ==
  /\ pc[r] = "selected" /\ r \notin aborted /\ Admitted(r)
  /\ ~Fresh(key[r])
  /\ r \in head \/ pending >= MaxPending
  /\ DropStale(key[r])
  /\ Bypass(r)
  /\ UNCHANGED <<requestData, fills, pending, updateVars, now>>

\* A miss whose key another request is filling: wait for that fill.
ExecuteCoalesce(r) ==
  /\ pc[r] = "selected" /\ r \notin aborted /\ Admitted(r)
  /\ ~Fresh(key[r])
  /\ r \notin head /\ pending < MaxPending
  /\ Filling(key[r])
  /\ DropStale(key[r])
  /\ leader' = [leader EXCEPT ![r] = fills[key[r]]]
  /\ pending' = pending + 1
  /\ Goto(r, "waiting")
  /\ UNCHANGED <<rev, route, key, head, requestedAt, aborted, fills, updateVars, now>>

\* A miss that leads the fill of its key.
ExecuteLead(r) ==
  /\ pc[r] = "selected" /\ r \notin aborted /\ Admitted(r)
  /\ ~Fresh(key[r])
  /\ r \notin head /\ pending < MaxPending
  /\ ~Filling(key[r])
  /\ DropStale(key[r])
  /\ fills' = [k \in DOMAIN fills \cup {key[r]} |->
                 IF k = key[r] THEN r ELSE fills[k]]
  /\ pending' = pending + 1
  /\ requestedAt' = [requestedAt EXCEPT ![r] = now]
  /\ Goto(r, "filling")
  /\ UNCHANGED <<rev, route, key, head, leader, aborted, updateVars, now>>

\* The finally block of a leader: unregister the fill unless a purge already
\* did, give back its slot and settle the waiters that are still attached.
FinishFill(r, stored, status) ==
  /\ fills' = [k \in {j \in DOMAIN fills : fills[j] # r} |-> fills[k]]
  /\ pending' = pending - 1
  /\ pc' = [Woken({r}, IF stored THEN "wokenStored" ELSE "wokenEmpty")
              EXCEPT ![r] = status]

\* MUTANT of MayStore: the generation is not compared after the load.
MayStoreUnfenced(r) == suspended = 0 /\ r \notin aborted

\* The load may still populate the cache.
MayStore(r) == generation = rev[r] /\ suspended = 0 /\ r \notin aborted

FillStores(r, a) ==
  /\ pc[r] = "filling"
  /\ MayStore(r)
  /\ Cacheable(a, requestedAt[r])
  /\ Store(r, a)
  /\ FinishFill(r, TRUE, "MISS")
  /\ UNCHANGED <<requestData, updateVars, now>>

FillDiscards(r, a) ==
  /\ pc[r] = "filling"
  /\ ~MayStore(r) \/ ~Cacheable(a, requestedAt[r])
  /\ FinishFill(r, FALSE, "MISS")
  /\ UNCHANGED <<requestData, storeVars, updateVars, now>>

\* The invocation failed, or the leader's signal fired first.
FillFails(r) ==
  /\ pc[r] = "filling"
  /\ FinishFill(r, FALSE, "error")
  /\ UNCHANGED <<requestData, storeVars, updateVars, now>>

\* A waiter continues after its fill was settled: use what was stored if the
\* generation is still the one it joined, otherwise invoke on its own.
WakeHit(r) ==
  /\ pc[r] = "wokenStored"
  /\ rev[r] = generation /\ suspended = 0
  /\ Fresh(key[r])
  /\ Touch(key[r])
  /\ pending' = pending - 1
  /\ Goto(r, "HIT")
  /\ UNCHANGED <<requestData, fills, updateVars, now>>

WakeMiss(r) ==
  /\ pc[r] = "wokenStored"
  /\ rev[r] = generation /\ suspended = 0
  /\ ~Fresh(key[r])
  /\ DropStale(key[r])
  /\ pending' = pending - 1
  /\ Bypass(r)
  /\ UNCHANGED <<requestData, fills, updateVars, now>>

WakeFenced(r) ==
  /\ \/ pc[r] = "wokenEmpty"
     \/ pc[r] = "wokenStored" /\ (rev[r] # generation \/ suspended > 0)
  /\ pending' = pending - 1
  /\ Bypass(r)
  /\ UNCHANGED <<requestData, storeVars, fills, updateVars, now>>

\* MUTANT of Detach: the aborted waiter keeps its unit of the budget.
DetachLeaks(r) ==
  /\ pc[r] = "detached"
  /\ Goto(r, "error")
  /\ UNCHANGED <<requestData, storeVars, fills, pending, updateVars, now>>

Detach(r) ==
  /\ pc[r] = "detached"
  /\ pending' = pending - 1
  /\ Goto(r, "error")
  /\ UNCHANGED <<requestData, storeVars, fills, updateVars, now>>

BypassSettles(r) ==
  /\ pc[r] = "bypassing"
  /\ \E status \in {"BYPASS", "error"} : Goto(r, status)
  /\ UNCHANGED <<requestData, storeVars, fills, pending, updateVars, now>>

Tick ==
  /\ now < MaxTime
  /\ now' = now + 1
  /\ UNCHANGED <<pc, requestData, storeVars, fills, pending, updateVars>>

-----------------------------------------------------------------------------
\* The steps the process takes by itself once the request has arrived.
Continue(r) ==
  \/ \E s \in Selections : SelectRoute(r, s[1], s[2])
  \/ ExecuteRefused(r) \/ ExecuteHit(r) \/ ExecuteUncoordinated(r)
  \/ ExecuteCoalesce(r) \/ ExecuteLead(r)
  \/ \E a \in Responses : FillStores(r, a) \/ FillDiscards(r, a)
  \/ FillFails(r)
  \/ WakeHit(r) \/ WakeMiss(r) \/ WakeFenced(r) \/ Detach(r)
  \/ BypassSettles(r)

\* Every request is answered and every update is over.
Quiet ==
  /\ \A r \in Requests : pc[r] \in Answered
  /\ \A u \in Updates : update[u] = "done"
  /\ UNCHANGED vars

Next ==
  \/ \E r \in Requests : Arrive(r) \/ Abort(r) \/ Continue(r)
  \/ \E u \in Updates : SnapshotPut(u) \/ SnapshotDone(u)
  \/ \E scope \in Scope : Purge(scope)
  \/ Tick
  \/ Quiet

Spec == Init /\ [][Next]_vars

\* Node keeps running continuations, and every invocation settles because the
\* gateway aborts it at the component's wall deadline.  Nothing is assumed of
\* clients, of operators, or of the waiters' own deadlines (Abort).
FairSpec == Spec /\ \A r \in Requests : WF_vars(Continue(r))
-----------------------------------------------------------------------------
(* Properties.                                                             *)

Entry == [size : Nat, expiresAt : Int, rev : Nat, route : Nat, freshUntil : Int]

\* The state has its shape: every entry belongs to a cache key and every fill
\* to a request.  (StoreWithinLimits says what `bytes` is.)
TypeOK ==
  /\ pc \in [Requests -> Places]
  /\ rev \in [Requests -> Nat]
  /\ route \in [Requests -> Nat]
  /\ key \in [Requests -> Keys \cup {NoKey}]
  /\ head \subseteq Requests
  /\ requestedAt \in [Requests -> Nat]
  /\ leader \in [Requests -> Requests]
  /\ aborted \subseteq Requests
  /\ DOMAIN entries \subseteq Keys
  /\ entries \in [DOMAIN entries -> Entry]
  /\ older \subseteq (DOMAIN entries) \X (DOMAIN entries)
  /\ DOMAIN fills \subseteq Keys
  /\ fills \in [DOMAIN fills -> Requests]
  /\ generation \in Nat
  /\ suspended \in Nat
  /\ pending \in Int
  /\ now \in Nat
  /\ update \in [Updates -> {"idle", "updating", "done"}]
  /\ installed \in Nat
  /\ purgedAt \in [Keys -> Nat]

\* "Requests that selected a route before an update cannot fill the new
\* generation": whatever is stored was produced under the route table that is
\* installed now, however requests and snapshot updates interleave.
EntriesFromInstalledTable ==
  \A k \in DOMAIN entries : entries[k].route = installed

\* "Fills started before [a purge] cannot repopulate the cache": every stored
\* response was requested after the last purge whose scope covers its key.
EntriesNewerThanPurge ==
  \A k \in DOMAIN entries : entries[k].rev >= purgedAt[k]

\* While any snapshot update is between its suspend() and its resume nothing
\* is stored and no fill is registered that a request could join.
SuspendedMeansEmpty ==
  suspended > 0 => DOMAIN entries = {} /\ DOMAIN fills = {}

\* The pending budget is exact: each leader and waiter holds one unit from the
\* moment it starts until it leaves, by whichever of the six ways it leaves,
\* and the budget is never exceeded.
PendingExact ==
  /\ pending = Cardinality({r \in Requests : pc[r] \in Holding})
  /\ pending <= MaxPending

\* No lost wake-up: the fill a waiter is subscribed to is still registered
\* under its key and its leader is still running, so someone will settle it.
WaitersAttached ==
  \A r \in Requests : pc[r] = "waiting" =>
    /\ key[r] \in DOMAIN fills
    /\ fills[key[r]] = leader[r]
    /\ pc[leader[r]] = "filling"

\* Concurrent misses share one invocation: within a generation a key has at
\* most one leader.
SingleFlight ==
  \A r, s \in Requests :
    /\ pc[r] = "filling" /\ pc[s] = "filling"
    /\ key[r] = key[s] /\ rev[r] = rev[s]
    => r = s

\* The cache is fenced: whatever requests, purges and snapshot updates overlap,
\* it serves nothing of another table, nothing older than a purge of its key,
\* and nothing at all during an update.
CacheFenced == EntriesFromInstalledTable /\ EntriesNewerThanPurge /\ SuspendedMeansEmpty

\* Coalescing loses no wake-up, starts no second invocation of a key in a
\* generation, and counts everyone who is part of it.
CoalescingExact == WaitersAttached /\ SingleFlight /\ PendingExact

\* The byte count is the sum over the stored entries, and the configured
\* limits hold after any sequence of fills, expiries, evictions and purges.
StoreWithinLimits ==
  /\ bytes = SizeOf(DOMAIN entries)
  /\ bytes <= MaxBytes
  /\ Cardinality(DOMAIN entries) <= MaxEntries

ServedFromStore(r) == pc[r] # "HIT" /\ pc'[r] = "HIT"

\* A hit answers with a response of the route table the request was routed
\* by, requested after the last purge of its key and within the lifetime its
\* own Age, Date and max-age gave it when it was requested.
HitIsCurrent ==
  [][\A r \in Requests : ServedFromStore(r) =>
       /\ key[r] \in DOMAIN entries
       /\ entries[key[r]].route = route[r]
       /\ entries[key[r]].rev >= purgedAt[key[r]]
       /\ now < entries[key[r]].freshUntil]_vars

\* Every accepted request is answered, including a waiter whose leader fails,
\* is aborted or is fenced off, without help from its own deadline.
EveryRequestAnswered ==
  \A r \in Requests : pc[r] = "arrived" ~> pc[r] \in Answered
=============================================================================
