----------------------------- MODULE HostDaemon -----------------------------
(***************************************************************************)
(* A runtime node in front of a host daemon.  The node matches a request   *)
(* against the snapshot of its supervisor (runtime/supervisor.ts), makes   *)
(* its checks for the deployment it found, and then hands the request to   *)
(* the daemon (main.rs), which matches it again, against the route table   *)
(* the node published last (runtime/wasip3-host.ts).  Two matchers, in two *)
(* languages, over two copies of one snapshot.                             *)
(*                                                                         *)
(* A path is the sequence of its characters, as prefixes are compared by   *)
(* character.  The tables hold the routes of one host: both sides leave    *)
(* those of others out in the same way.  A request carries the sum         *)
(* stable_hash() has for its host and path; on both sides it is the sum of *)
(* the characters.                                                         *)
(***************************************************************************)
EXTENDS Naturals, FiniteSets, SequencesExt

CONSTANTS
    DaemonWorkloads,  \* [snaps, requests]: snapshots, the first one installed and the others PUT, and requests
    DaemonLimit,      \* max_concurrent_invocations
    MaxWeight         \* u32::MAX, at which the daemon's sum of weights stops

ShareRecord == [deployment : STRING, weight : Nat]
RouteRecord == [prefix : Seq(STRING), deployment : STRING, targets : Seq(ShareRecord)]
VisitRecord == [path : Seq(STRING), hash : Nat]

(* A prefix has a character, and the path of a URL begins with a slash. *)
ASSUME DaemonAssumption ==
    /\ DaemonLimit \in Nat /\ MaxWeight \in Nat \ {0}
    /\ \A w \in DaemonWorkloads :
         /\ w.snaps \in Seq(Seq(RouteRecord)) /\ w.snaps # <<>>
         /\ \A n \in DOMAIN w.snaps : \A i \in DOMAIN w.snaps[n] : w.snaps[n][i].prefix # <<>>
         /\ w.requests \in Seq(VisitRecord)
         /\ \A v \in DOMAIN w.requests : w.requests[v].path # <<>> /\ w.requests[v].path[1] = "/"

VARIABLES
    daemonWork,  \* the workload
    installed,   \* the snapshot of the supervisor, by its number
    routes,      \* the snapshot behind the daemon's table, 0 when it has none
    puts,        \* the PUT of each snapshot: [pc, alone]
    visits,      \* the requests: where they are, what the node found and in which snapshot, what the
                 \* daemon chose and from which, and the counter try_acquire() saw
    active,      \* the counter of the admission limiter
    agreed,      \* the last thing that happened to the tables was a PUT that had the node to itself
    daemonDowns  \* how often the daemon was started again

daemonVars == <<daemonWork, installed, routes, puts, visits, active, agreed, daemonDowns>>

NoDeployment == "none"
Snap(n) == IF n = 0 THEN <<>> ELSE daemonWork.snaps[n]
Numbers == DOMAIN daemonWork.snaps
Visitors == DOMAIN daemonWork.requests
Path(v) == daemonWork.requests[v].path

EndsInSlash(path) == path[Len(path)] = "/"

Only(s) == CHOOSE x \in s : TRUE

(* The sum of the first n weights. *)
Weight(targets, n) ==
    LET sum[i \in 0..n] == IF i = 0 THEN 0 ELSE sum[i - 1] + targets[i].weight IN sum[n]

(* The target at which a cursor that adds up the weights passes the slot. *)
PassedAt(targets, slot) ==
    LET past == {n \in DOMAIN targets : slot < Weight(targets, n)}
    IN  targets[Only({n \in past : \A k \in past : n <= k})]

-----------------------------------------------------------------------------
(* The supervisor. *)

pathPrefixMatches(path, prefix) ==
    \/ prefix = <<"/">>
    \/ path = prefix
    \/ IsPrefix(IF EndsInSlash(prefix) THEN prefix ELSE Append(prefix, "/"), path)

(* The routes are sorted, longest prefix first and otherwise as they were; *)
(* the first that fits is taken.                                           *)
routePrecedence(table, i, j) ==
    \/ Len(table[i].prefix) > Len(table[j].prefix)
    \/ Len(table[i].prefix) = Len(table[j].prefix) /\ i < j

createRouteCache(table, path) ==
    LET ms == {i \in DOMAIN table : pathPrefixMatches(path, table[i].prefix)}
        first == {i \in ms : \A j \in ms \ {i} : routePrecedence(table, i, j)}
    IN  IF ms = {} THEN <<>> ELSE <<table[Only(first)]>>

selectRouteTarget(route, r) ==
    LET total == Weight(route.targets, Len(route.targets))
    IN  IF total = 0 THEN route.deployment
        ELSE PassedAt(route.targets, r.hash % total).deployment

canProxyToHostDaemonWorker(path) ==
    ~\E p \in {<<"/", w>> : w \in {"healthz", "stats", "metrics", "routes", "invoke"}} :
        IsPrefix(p, path) /\ \A n \in Len(p) + 1..Len(path) : path[n] = "/"

-----------------------------------------------------------------------------
(* The daemon. *)

normalize_path_prefix(prefix) ==
    LET n == CHOOSE k \in 0..Len(prefix) :
               /\ \A i \in k + 1..Len(prefix) : prefix[i] = "/"
               /\ k = 0 \/ prefix[k] # "/"
    IN  IF n = 0 /\ Len(prefix) = 1 THEN prefix ELSE SubSeq(prefix, 1, n)

(* The order of the routes is kept; each has the code compiled for its     *)
(* deployment, which is named by the deployment here.                      *)
buildWasip3HostDaemonRouteTable(snapshot) == [schemaVersion |-> 1, routes |-> snapshot]

parse_prepared_route_table(payload) ==
    [i \in DOMAIN payload.routes |->
        [payload.routes[i] EXCEPT !.prefix = normalize_path_prefix(payload.routes[i].prefix)]]

\* MUTANT of path_prefix_matches: /a takes the requests of /ab.
path_prefix_matches_text(path, prefix) == prefix = <<"/">> \/ IsPrefix(prefix, path)

path_prefix_matches(path, prefix) ==
    \/ prefix = <<"/">>
    \/ path = prefix
    \/ Len(path) > Len(prefix) /\ IsPrefix(prefix, path) /\ path[Len(prefix) + 1] = "/"

(* max_by_key() takes the last of the longest. *)
match_route(table, path) ==
    LET ms == {i \in DOMAIN table : path_prefix_matches(path, table[i].prefix)}
        last == {i \in ms : \A j \in ms \ {i} :
                  \/ Len(table[i].prefix) > Len(table[j].prefix)
                  \/ Len(table[i].prefix) = Len(table[j].prefix) /\ i > j}
    IN  IF ms = {} THEN <<>> ELSE <<table[Only(last)]>>

\* The sum of saturating_add(); below it the cursor is that of the supervisor.
Saturated(sum) == IF sum <= MaxWeight THEN sum ELSE MaxWeight

select_target(route, r) ==
    LET total == Saturated(Weight(route.targets, Len(route.targets)))
    IN  IF total = 0 THEN route.deployment ELSE PassedAt(route.targets, r.hash % total).deployment

-----------------------------------------------------------------------------
DaemonTable == parse_prepared_route_table(buildWasip3HostDaemonRouteTable(Snap(routes)))

NewVisit == [pc |-> "new", found |-> NoDeployment, at |-> 0, table |-> 0, seen |-> 0, target |-> NoDeployment]

(* At its start the node publishes the snapshot it restored. *)
DaemonInit ==
    /\ daemonWork \in DaemonWorkloads
    /\ installed = 1 /\ routes = 1
    /\ puts = [n \in Numbers |-> [pc |-> IF n = 1 THEN "done" ELSE "new", alone |-> TRUE]]
    /\ visits = [v \in Visitors |-> NewVisit]
    /\ active = 0 /\ agreed = TRUE /\ daemonDowns = 0

UnderWay(n) == puts[n].pc \notin {"new", "done", "failed"}

PutGoes(n, pc) == puts' = [puts EXCEPT ![n].pc = pc]
KeepVisits == UNCHANGED <<daemonWork, visits, active, daemonDowns>>

(* warmupSnapshot() installs the snapshot and then compiles it. *)
PutSnapshot(n) ==
    /\ puts[n].pc = "new"
    /\ puts' = [m \in Numbers |->
                 CASE m = n -> [pc |-> "warming", alone |-> \A k \in Numbers : ~UnderWay(k)]
                   [] UnderWay(m) -> [puts[m] EXCEPT !.alone = FALSE]
                   [] OTHER -> puts[m]]
    /\ installed' = n
    /\ agreed' = FALSE
    /\ UNCHANGED routes /\ KeepVisits

(* A compilation fails and the PUT with it, or the table is sent. *)
publishWasip3HostDaemonRoutes(n) ==
    /\ puts[n].pc = "warming"
    /\ PutGoes(n, "sent") \/ PutGoes(n, "failed")
    /\ UNCHANGED <<installed, routes, agreed>> /\ KeepVisits

(* The answer may be lost, before or after the daemon reads the request. *)
PublishFails(n) ==
    /\ \/ puts[n].pc = "sent" /\ PutGoes(n, "lost")
       \/ puts[n].pc \in {"replaced", "lost"} /\ PutGoes(n, "failed")
    /\ UNCHANGED <<installed, routes, agreed>> /\ KeepVisits

handle_daemon_routes_request(n) ==
    /\ puts[n].pc \in {"sent", "lost"}
    /\ routes' = n
    /\ PutGoes(n, IF puts[n].pc = "sent" THEN "replaced" ELSE "failed")
    /\ UNCHANGED <<installed, agreed>> /\ KeepVisits

PutAnswered(n) ==
    /\ puts[n].pc = "replaced"
    /\ PutGoes(n, "done")
    /\ agreed' = (agreed \/ puts[n].alone)
    /\ UNCHANGED <<installed, routes>> /\ KeepVisits

-----------------------------------------------------------------------------
Visit(v, change) ==
    visits' = [visits EXCEPT ![v] = [x \in DOMAIN @ |-> IF x \in DOMAIN change THEN change[x] ELSE @[x]]]
KeepTables == UNCHANGED <<daemonWork, installed, routes, puts, agreed, daemonDowns>>

(* The node finds the deployment and prepares it. *)
prepareRoute(v) ==
    /\ visits[v].pc = "new"
    /\ LET m == createRouteCache(Snap(installed), Path(v)) IN
       IF m = <<>> THEN Visit(v, [pc |-> "unmatched"])
       ELSE Visit(v, [pc |-> "prepared", found |-> selectRouteTarget(m[1], daemonWork.requests[v]), at |-> installed])
    /\ UNCHANGED active /\ KeepTables

proxyWasip3HostDaemonWorkerRequest(v) ==
    /\ visits[v].pc = "prepared" /\ canProxyToHostDaemonWorker(Path(v))
    /\ Visit(v, [pc |-> "proxied"])
    /\ UNCHANGED active /\ KeepTables

(* A path of the daemon itself goes to /invoke, with the component to run. *)
createWasip3HostDaemonInvoker(v) ==
    /\ visits[v].pc = "prepared" /\ ~canProxyToHostDaemonWorker(Path(v))
    /\ Visit(v, [pc |-> "invoked"])
    /\ UNCHANGED active /\ KeepTables

(* The daemon's match; the route is a copy, whatever becomes of the table. *)
handle_daemon_worker_request(v) ==
    /\ visits[v].pc = "proxied"
    /\ LET m == match_route(DaemonTable, Path(v)) IN
       IF m = <<>> THEN Visit(v, [pc |-> "unmatched", table |-> routes])
       ELSE Visit(v, [pc |-> "loading", table |-> routes, target |-> select_target(m[1], daemonWork.requests[v])])
    /\ UNCHANGED active /\ KeepTables

handle_daemon_invoke_request(v) ==
    /\ visits[v].pc = "invoked"
    /\ Visit(v, [pc |-> "loading", target |-> visits[v].found])
    /\ UNCHANGED active /\ KeepTables

LoadActive(v) ==
    /\ visits[v].pc = "loading"
    /\ Visit(v, [pc |-> "acquiring", seen |-> active])
    /\ UNCHANGED active /\ KeepTables

(* The exchange fails when the counter moved, or for no reason at all. *)
try_acquire(v) ==
    /\ visits[v].pc = "acquiring"
    /\ \/ visits[v].seen >= DaemonLimit /\ Visit(v, [pc |-> "busy"]) /\ UNCHANGED active
       \/ visits[v].seen < DaemonLimit /\ Visit(v, [seen |-> active]) /\ UNCHANGED active
       \/ /\ visits[v].seen < DaemonLimit /\ visits[v].seen = active
          /\ Visit(v, [pc |-> "running"])
          /\ active' = active + 1
    /\ KeepTables

(* The guest ends, or the connection is lost and the handler dropped. *)
DropPermit(v) ==
    /\ visits[v].pc = "running"
    /\ Visit(v, [pc |-> "answered"])
    /\ active' = active - 1
    /\ KeepTables

(* A daemon that is started again has no routes; its requests are lost. *)
DaemonRestarts ==
    /\ daemonDowns = 0
    /\ daemonDowns' = 1
    /\ routes' = 0 /\ active' = 0 /\ agreed' = FALSE
    /\ visits' = [v \in Visitors |-> IF visits[v].pc \in {"loading", "acquiring", "running"}
                                     THEN [visits[v] EXCEPT !.pc = "answered"] ELSE visits[v]]
    /\ puts' = [n \in Numbers |-> IF puts[n].pc = "replaced" THEN [puts[n] EXCEPT !.pc = "failed"] ELSE puts[n]]
    /\ UNCHANGED <<daemonWork, installed>>

DaemonNext ==
    \/ \E n \in Numbers :
         \/ PutSnapshot(n) \/ publishWasip3HostDaemonRoutes(n) \/ PublishFails(n)
         \/ handle_daemon_routes_request(n) \/ PutAnswered(n)
    \/ \E v \in Visitors :
         \/ prepareRoute(v) \/ proxyWasip3HostDaemonWorkerRequest(v) \/ createWasip3HostDaemonInvoker(v)
         \/ handle_daemon_worker_request(v) \/ handle_daemon_invoke_request(v)
         \/ LoadActive(v) \/ try_acquire(v) \/ DropPermit(v)
    \/ DaemonRestarts

DaemonSpec == DaemonInit /\ [][DaemonNext]_daemonVars

-----------------------------------------------------------------------------
(* Both sides read a table the same way unless a prefix ends in a slash,   *)
(* which the daemon strips and the supervisor does not; or two projects    *)
(* have a route of the same prefix: then the supervisor takes the first    *)
(* and the daemon the last; or the weights of a route add up to more than  *)
(* 32 bits, where the daemon's sum stops.                                  *)
Unambiguous(table) ==
    /\ \A i \in DOMAIN table : table[i].prefix = <<"/">> \/ ~EndsInSlash(table[i].prefix)
    /\ \A i, j \in DOMAIN table : i # j => table[i].prefix # table[j].prefix
    /\ \A i \in DOMAIN table : Weight(table[i].targets, Len(table[i].targets)) <= MaxWeight

(* What the node checked is what the daemon runs: a request matched on     *)
(* both sides against the same snapshot runs the deployment the node       *)
(* prepared for it, canaries included, and is not lost on the way; after a *)
(* PUT that no other overlapped and that was answered, the daemon has the  *)
(* table of the supervisor, whatever failed before; and no more than       *)
(* max_concurrent_invocations run, however their admissions interleave.    *)
DaemonRunsWhatWasChecked ==
    /\ \A v \in Visitors :
         visits[v].table # 0 /\ visits[v].table = visits[v].at /\ Unambiguous(Snap(visits[v].at))
           => visits[v].target = visits[v].found
    /\ agreed => routes = installed
    /\ active = Cardinality({v \in Visitors : visits[v].pc = "running"}) /\ active <= DaemonLimit
=============================================================================
