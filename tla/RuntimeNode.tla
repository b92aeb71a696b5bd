----------------------------- MODULE RuntimeNode -----------------------------
(***************************************************************************)
(* The gateway of a runtime node (runtime/node-app.ts) and its shutdown    *)
(* (runtime/shutdown.ts): a worker request passes the lifecycle check, is  *)
(* routed, may be refused for its project's request rate, takes a permit   *)
(* of its project and one of the node, reads its body, runs in the guest   *)
(* and flushes its logs.  Operators drain and activate the node, and a     *)
(* signal closes it: it waits for the invocations in progress, then for    *)
(* every connection, which is its client's to end.                         *)
(*                                                                         *)
(* With a response cache a request is aborted as soon as its client goes   *)
(* away or its wait times out, while its invocation goes on until its next *)
(* await returns; without one the handler does not notice the client.      *)
(* What the cache itself does is in ResponseCache, what preparing a route  *)
(* does in RuntimeSupervisor.  Whether the token bucket of a project has a *)
(* token is left open.                                                     *)
(***************************************************************************)
EXTENDS Integers, FiniteSets

CONSTANTS
  Requests,
  Projects,
  ProjectOf,      \* the project of the component a request is routed to
  Configs,        \* [cache, concurrent]: whether there is a response cache, and
                  \* maxConcurrentInvocations
  ProjectLimit,   \* maxConcurrentInvocationsByProject
  Limited         \* the projects that have a request rate limit

NoLimit == -1  \* a project without an entry

ASSUME NodeAssumption ==
  /\ IsFiniteSet(Requests)
  /\ ProjectOf \in [Requests -> Projects]
  /\ Configs \subseteq [cache : BOOLEAN, concurrent : Nat]
  /\ ProjectLimit \in [Projects -> Nat \cup {NoLimit}]
  /\ Limited \subseteq Projects

Signals == {"SIGTERM", "SIGINT"}

VARIABLES
  config,     \* the member of Configs the node was started with
  lifecycle,  \* lifecycleStatus
  closing,    \* how far close() is
  caught,     \* signals whose once() listener has run
  exit,       \* how the process ended
  pc,         \* where a request's handler is
  sockets,    \* requests whose connection is open, before and after they arrive
  aborted,    \* requests answered before their invocation ended
  active,     \* metrics.invocations.active
  tracked,    \* active of the invocation drain tracker
  permits,    \* activeByProject
  started, succeeded, failed,  \* metrics.invocations
  underway    \* history: invocations in progress when close() was called

reqVars     == <<pc, sockets, aborted>>
permitVars  == <<active, tracked, permits>>
metricVars  == <<started, succeeded, failed>>
closeVars   == <<lifecycle, closing, caught, exit, underway>>
vars == <<config, reqVars, permitVars, metricVars, closeVars>>

Invoking == {r \in Requests : pc[r] \in {"reading", "invoking", "flushing"}}

\* The client of r has been answered.
IsAnswered(r) == pc[r] = "done" \/ r \in aborted

\* The client of r has left and the cache's controller notices.
Cancelled(r) == config.cache /\ r \notin sockets

Running == exit = "none"

Init ==
  /\ config \in Configs
  /\ lifecycle = "active"
  /\ closing = "no"
  /\ caught = {}
  /\ exit = "none"
  /\ pc = [r \in Requests |-> "idle"]
  /\ sockets = {}
  /\ aborted = {}
  /\ active = 0
  /\ tracked = 0
  /\ permits = [p \in Projects |-> 0]
  /\ started = 0
  /\ succeeded = 0
  /\ failed = 0
  /\ underway = {}

-----------------------------------------------------------------------------
(* The way of a request to its invocation.                                 *)

\* The handler of r ends; its client has yet to read the response.
Done(r) ==
  /\ pc' = [pc EXCEPT ![r] = "done"]
  /\ aborted' = aborted \ {r}
  /\ UNCHANGED sockets

\* A client connects, until server.close(); it may never send a whole request.
Connect(r) ==
  /\ Running
  /\ closing # "closing"
  /\ pc[r] = "idle" /\ r \notin sockets
  /\ sockets' = sockets \cup {r}
  /\ UNCHANGED <<config, pc, aborted, permitVars, metricVars, closeVars>>

\* A worker request on an open connection: 503 unless the node is active.
Arrive(r) ==
  /\ Running
  /\ pc[r] = "idle" /\ r \in sockets
  /\ IF lifecycle = "active"
     THEN pc' = [pc EXCEPT ![r] = "preparing"] /\ UNCHANGED <<sockets, aborted>>
     ELSE Done(r)
  /\ UNCHANGED <<config, permitVars, metricVars, closeVars>>

\* A handler ends without an invocation.
Reply(r) ==
  /\ Running
  /\ pc[r] = "preparing"
  /\ Done(r)
  /\ UNCHANGED <<config, permitVars, metricVars, closeVars>>

\* No route matches, its compilation fails, or a capability is refused.
Fails(r) == Reply(r)

\* 429: the project's bucket has no token left.
RateLimited(r) == ProjectOf[r] \in Limited /\ Reply(r)

\* The response cache answers without an invocation, or the request is aborted
\* before: its client has left, or it has waited too long for another one's.
FromCache(r)    == config.cache /\ ~Cancelled(r) /\ Reply(r)
StartAborted(r) == config.cache /\ Reply(r)

HasLimit(p)    == ProjectLimit[p] # NoLimit
Acquired(p)    == IF HasLimit(p) THEN [permits EXCEPT ![p] = @ + 1] ELSE permits
Dec(n)         == IF n = 0 THEN 0 ELSE n - 1
Released(P, p) == IF HasLimit(p) THEN [P EXCEPT ![p] = Dec(@)] ELSE P

ProjectFull(p) == HasLimit(p) /\ permits[p] >= ProjectLimit[p]

\* "runtime node project concurrency limit exceeded"
ProjectOverloaded(r) == ~Cancelled(r) /\ ProjectFull(ProjectOf[r]) /\ Reply(r)

\* MUTANT of Overloaded: the project's permit is not given back.
OverloadedKeepsPermit(r) ==
  /\ Running
  /\ pc[r] = "preparing"
  /\ ~Cancelled(r)
  /\ ~ProjectFull(ProjectOf[r]) /\ active >= config.concurrent
  /\ permits' = Acquired(ProjectOf[r])
  /\ Done(r)
  /\ UNCHANGED <<config, active, tracked, metricVars, closeVars>>

\* "runtime node concurrency limit exceeded": the project's permit, already
\* taken, is given back.
Overloaded(r) ==
  /\ Running
  /\ pc[r] = "preparing"
  /\ ~Cancelled(r)
  /\ ~ProjectFull(ProjectOf[r]) /\ active >= config.concurrent
  /\ permits' = Released(Acquired(ProjectOf[r]), ProjectOf[r])
  /\ Done(r)
  /\ UNCHANGED <<config, active, tracked, metricVars, closeVars>>

Start(r) ==
  /\ Running
  /\ pc[r] = "preparing"
  /\ ~Cancelled(r)
  /\ ~ProjectFull(ProjectOf[r]) /\ active < config.concurrent
  /\ permits' = Acquired(ProjectOf[r])
  /\ active' = active + 1
  /\ tracked' = tracked + 1
  /\ started' = started + 1
  /\ pc' = [pc EXCEPT ![r] = "reading"]
  /\ UNCHANGED <<config, sockets, aborted, succeeded, failed, closeVars>>

-----------------------------------------------------------------------------
(* The invocation.                                                         *)

\* MUTANT of Release: notifyIfIdle() wakes close() whoever is left.
ReleaseNotifiesAlways(r) ==
  /\ active' = Dec(active)
  /\ tracked' = Dec(tracked)
  /\ permits' = Released(permits, ProjectOf[r])
  /\ closing' = IF closing = "draining" THEN "closing" ELSE closing

\* The finally block: the last invocation to end wakes close().
Release(r) ==
  /\ active' = Dec(active)
  /\ tracked' = Dec(tracked)
  /\ permits' = Released(permits, ProjectOf[r])
  /\ closing' = IF closing = "draining" /\ tracked' = 0 THEN "closing" ELSE closing

\* MUTANT of InvocationFails: the failure of an aborted request counts again.
InvocationFailsTwice(r) ==
  /\ Done(r)
  /\ failed' = failed + 1
  /\ Release(r)
  /\ UNCHANGED <<config, started, succeeded, lifecycle, caught, exit, underway>>

\* invoke() throws.  The handler of an aborted request has answered and counted
\* the failure already.
InvocationFails(r) ==
  /\ Done(r)
  /\ failed' = IF r \in aborted THEN failed ELSE failed + 1
  /\ Release(r)
  /\ UNCHANGED <<config, started, succeeded, lifecycle, caught, exit, underway>>

\* An await of invoke() returns, and an aborted request goes no further.
Continue(r, from, to) ==
  /\ Running
  /\ pc[r] = from
  /\ r \notin aborted
  /\ pc' = [pc EXCEPT ![r] = to]
  /\ UNCHANGED <<config, sockets, aborted, permitVars, metricVars, closeVars>>

BodyRead(r)     == Continue(r, "reading", "invoking")
GuestReturns(r) == Continue(r, "invoking", "flushing")

\* invoke() throws at one of its awaits: the body is too long or incomplete, the
\* guest traps or its response is too long, or the abort is noticed.
Throws(r, from) ==
  /\ Running
  /\ pc[r] = from
  /\ InvocationFails(r)

BodyFails(r)      == Throws(r, "reading")
GuestFails(r)     == Throws(r, "invoking")
FlushedAborted(r) == r \in aborted /\ Throws(r, "flushing")

\* MUTANT of WallTimeout: the component has no wallMs.
NoWallTimeout(r) == FALSE

\* withWallTimeout() does not wait for the guest any longer.
WallTimeout(r) == Throws(r, "invoking")

\* The logs are drained: the response is written.
Flushed(r) ==
  /\ Running
  /\ pc[r] = "flushing"
  /\ r \notin aborted
  /\ Done(r)
  /\ succeeded' = succeeded + 1
  /\ Release(r)
  /\ UNCHANGED <<config, started, failed, lifecycle, caught, exit, underway>>

\* The abort of a request in its invocation: the handler answers and counts the
\* failure at once.
Abort(r) ==
  /\ aborted' = aborted \cup {r}
  /\ failed' = failed + 1
  /\ UNCHANGED <<config, pc, started, succeeded, permitVars, closeVars>>

\* The connection ends: before the request is sent, while it is handled, or once
\* the response has been read.
Disconnect(r) ==
  /\ Running
  /\ r \in sockets
  /\ sockets' = sockets \ {r}
  /\ IF config.cache /\ r \in Invoking \ aborted THEN Abort(r)
     ELSE UNCHANGED <<config, pc, aborted, permitVars, metricVars, closeVars>>

\* The cache's wait of wallMs ends during the invocation.
WaitTimeout(r) ==
  /\ Running
  /\ config.cache
  /\ r \in Invoking \ aborted
  /\ Abort(r)
  /\ UNCHANGED sockets

-----------------------------------------------------------------------------
(* The life of the node.                                                   *)

\* POST /__runtime/drain and /__runtime/activate, at any time.
SetLifecycle(status) ==
  /\ Running
  /\ lifecycle # status
  /\ lifecycle' = status
  /\ UNCHANGED <<config, reqVars, permitVars, metricVars, closing, caught, exit, underway>>

\* close(): the drain tracker resolves at once when nothing runs.
Close ==
  /\ lifecycle' = "draining"
  /\ closing' = IF tracked = 0 THEN "closing" ELSE "draining"
  /\ underway' = Invoking
  /\ UNCHANGED exit

\* A signal closes the node once.  Its listener is gone after that, and the
\* signal's default is to kill the process.
Signal(s) ==
  /\ Running
  /\ caught' = caught \cup {s}
  /\ IF s \in caught THEN exit' = "killed" /\ UNCHANGED <<lifecycle, closing, underway>>
     ELSE IF closing = "no" THEN Close
     ELSE UNCHANGED <<lifecycle, closing, underway, exit>>
  /\ UNCHANGED <<config, reqVars, permitVars, metricVars>>

\* "runtime drain timed out": exit(1).
DrainTimeout ==
  /\ Running
  /\ closing = "draining"
  /\ exit' = "failed"
  /\ UNCHANGED <<config, reqVars, permitVars, metricVars, lifecycle, closing, caught, underway>>

\* The server is closed when its last connection is, and close() waits for that
\* without a timeout: exit(0).
ServerClosed ==
  /\ Running
  /\ closing = "closing"
  /\ sockets = {}
  /\ exit' = "ok"
  /\ UNCHANGED <<config, reqVars, permitVars, metricVars, lifecycle, closing, caught, underway>>

Ended == exit # "none" /\ UNCHANGED vars

\* The steps a handler takes once what it waits for is there.
Handle(r) ==
  \/ RateLimited(r) \/ Fails(r) \/ FromCache(r) \/ StartAborted(r)
  \/ ProjectOverloaded(r) \/ Overloaded(r) \/ Start(r)
  \/ BodyRead(r) \/ BodyFails(r) \/ WallTimeout(r) \/ Flushed(r) \/ FlushedAborted(r)

Next ==
  \/ \E r \in Requests :
       \/ Connect(r) \/ Arrive(r) \/ Handle(r) \/ GuestReturns(r) \/ GuestFails(r)
       \/ Disconnect(r) \/ WaitTimeout(r)
  \/ \E status \in {"active", "draining"} : SetLifecycle(status)
  \/ \E s \in Signals : Signal(s)
  \/ DrainTimeout
  \/ ServerClosed
  \/ Ended

Spec == Init /\ [][Next]_vars

\* r's client has not sent the whole body, and server.close() has stopped the
\* timer that would end the wait.
Held(r) == closing = "closing" /\ pc[r] = "reading" /\ r \in sockets

\* Nothing is assumed of the guest or of clients: they may never send the rest of
\* a request, read a response or close a connection.  Preparing a route settles
\* (RuntimeSupervisor), the HTTP server times a slow body out while it is open,
\* fetch() a log drain, and every component has a wallMs; there are finitely many
\* such steps, so fairness of all of them is fairness of each.
FairSpec ==
  /\ Spec
  /\ WF_vars(\E r \in Requests : ~Held(r) /\ Handle(r))
  /\ WF_vars(ServerClosed)

-----------------------------------------------------------------------------
(* Properties.                                                             *)

\* The state has its shape.
TypeOK ==
  /\ config \in Configs
  /\ lifecycle \in {"active", "draining"}
  /\ closing \in {"no", "draining", "closing"}
  /\ caught \subseteq Signals
  /\ exit \in {"none", "ok", "failed", "killed"}
  /\ pc \in [Requests -> {"idle", "preparing", "reading", "invoking", "flushing", "done"}]
  /\ sockets \subseteq Requests /\ aborted \subseteq Requests /\ underway \subseteq Requests
  /\ active \in Nat /\ tracked \in Nat /\ permits \in [Projects -> Nat]
  /\ started \in Nat /\ succeeded \in Nat /\ failed \in Nat

\* The three counters of the invocations in progress are exact although each is
\* clamped at zero when it goes down: the metric, the drain tracker, and the
\* permits of every project that has a limit; whatever was refused, aborted or
\* timed out on the way.
PermitsExact ==
  /\ active = Cardinality(Invoking)
  /\ tracked = Cardinality(Invoking)
  /\ \A p \in Projects :
       permits[p] = IF HasLimit(p) THEN Cardinality({r \in Invoking : ProjectOf[r] = p}) ELSE 0

\* No more handlers are in their invocation than the node allows, and no more
\* of one project than it allows.
WithinLimits ==
  /\ Cardinality(Invoking) <= config.concurrent
  /\ \A p \in Projects :
       HasLimit(p) => Cardinality({r \in Invoking : ProjectOf[r] = p}) <= ProjectLimit[p]

\* The permits are what the limits need them to be: exact, and never exceeded.
PermitsSound == PermitsExact /\ WithinLimits

\* Every invocation that was started is counted as succeeded or as failed
\* exactly once: when it ends, or when its request is abandoned before.
MetricsBalance ==
  started = succeeded + failed + Cardinality(Invoking \ aborted)

\* An orderly exit never cuts an invocation off that was in progress when the
\* signal came, even when its client has left or its request was aborted, and
\* whatever was started or refused in between.
ExitWaits == exit = "ok" => underway \cap Invoking = {}

\* Every request that is let in is answered, unless the process ends first,
\* however long its guest runs, or it waits for a client that does not end its
\* body once the server is closing (and is answered if that client does, or leaves).
Answered ==
  \A r \in Requests : pc[r] # "idle" ~> (IsAnswered(r) \/ Held(r) \/ exit # "none")

\* A signal ends the process, unless it waits for a client that keeps its
\* connection; the drain before that waits for no client, also when invocations
\* start during it, and once the last connection has ended nothing is waited for.
ShutdownEnds ==
  closing # "no" ~> (exit # "none" \/ (closing = "closing" /\ sockets # {}))

\* Nobody is kept waiting but by clients: not a request by its guest or by a
\* shutdown, and not a signal by the requests.
EveryoneIsServed == Answered /\ ShutdownEnds
=============================================================================
