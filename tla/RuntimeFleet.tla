---------------------------- MODULE RuntimeFleet ----------------------------
(***************************************************************************)
(* The runtime nodes as the control plane sees them: the heartbeat loop of *)
(* each node (runtime/heartbeat.ts), the operator, the warm-up of a new    *)
(* node (autoscaling.ts), and the publication of route snapshots to the    *)
(* nodes that placement selects (http/app.ts, placement.ts).  What becomes *)
(* of one delivery is the subject of SnapshotDelivery; here a target has   *)
(* applied the snapshot or has not.                                        *)
(***************************************************************************)
EXTENDS Integers, Sequences, FiniteSets

CONSTANTS NoRule,         \* policy.default or a project's rule is undefined
          NoPolicy,       \* no placement is configured
          NoMax,          \* maxTargets is undefined
          FleetNodes,     \* the nodes with their region and labels: id -> [region, labels, capacity]
          StaticUrls,     \* options.runtimeNodes; the url of a node is its id
          FleetProjects,  \* projects that may have a route
          FleetPolicies,  \* placements the control plane may be started with
          Loads,          \* activeRequests a heartbeat may report
          MaxFleetSteps   \* loop turns, changes and publications begun in a run

VARIABLES registry,    \* the registered nodes: id -> [status, active]
          lifecycle,   \* the status each node reports of itself
          hb,          \* the heartbeat loop of each node: "register" or "heartbeat"
          routed,      \* the projects that have a route
          placement,   \* options.runtimePlacement
          publishing,  \* the publication under way, or the last one
          held,        \* url -> the routes the runtime serves and who sent them
          warming,     \* the node warmAndActivateRuntimeNode() is publishing to
          fleetSteps   \* how many have begun

fleetVars == <<registry, lifecycle, hb, routed, placement, publishing, held, warming, fleetSteps>>

-----------------------------------------------------------------------------
(* Which runtime node receives which routes (placement.ts), by pure        *)
(* functions.                                                              *)
(*                                                                         *)
(* A node is [id, region, labels, active, capacity]; ids are numbers, whose*)
(* order is that of localeCompare, labels a set of <<key, value>> and      *)
(* capacity 0 stands for a node that has not reported one.  A snapshot is  *)
(* the set of the projects it has a route of.  A rule is [regions, labels, *)
(* max, failover], a tier of its failover the same without failover; a     *)
(* policy is [default, projects, isolated, drained, exclude], in which     *)
(* projects and isolated map projects to rules.                            *)

(* activeRequests / concurrentRequests, compared by cross-multiplication. *)
loadRatio(n) == IF n.capacity = 0 THEN <<0, 1>> ELSE <<n.active, n.capacity>>

LessLoaded(n, m) ==
  LET a == loadRatio(n)
      b == loadRatio(m)
  IN \/ a[1] * b[2] < b[1] * a[2]
     \/ a[1] * b[2] = b[1] * a[2] /\ n.id < m.id

(* The place of a node, from 1, in sortByLoad(nodes). *)
sortByLoad(nodes, n) == 1 + Cardinality({m \in nodes : LessLoaded(m, n)})

(* maxTargets must be a positive integer; otherwise the publication throws. *)
validateMaxTargets(max) == max = NoMax \/ max > 0

MatchesTier(n, tier) ==
  /\ tier.regions = {} \/ n.region \in tier.regions
  /\ tier.labels \subseteq n.labels

selectByTier(nodes, tier) ==
  LET filtered == {n \in nodes : MatchesTier(n, tier)}
  IN IF tier.max = NoMax THEN filtered ELSE {n \in filtered : sortByLoad(filtered, n) <= tier.max}

(* The first tier, from the rule's own to its last failover, with a node. *)
selectByRule(nodes, rule) ==
  LET tiers == <<rule>> \o rule.failover
      found == {k \in DOMAIN tiers : selectByTier(nodes, tiers[k]) # {}}
  IN IF found = {} THEN {}
     ELSE selectByTier(nodes, tiers[CHOOSE k \in found : \A j \in found : k <= j])

nodeMatchesRule(nodes, n, rule) == n \in selectByRule(nodes, rule)

selectedIsolationNodeIds(nodes, policy) ==
  UNION {selectByRule(nodes, policy.isolated[p]) : p \in DOMAIN policy.isolated}

excludeIsolationNodeFromDefault(policy, n, isolationNodes) == policy.exclude /\ n \in isolationNodes

hasTenantIsolationPolicy(policy) == DOMAIN policy.isolated # {} \/ policy.drained # {}

RuleOf(policy, p) == IF p \in DOMAIN policy.projects THEN policy.projects[p] ELSE policy.default

routeVisibleToNode(nodes, p, n, policy, isolationNodes) ==
  IF p \in DOMAIN policy.isolated THEN nodeMatchesRule(nodes, n, policy.isolated[p])
  ELSE /\ p \notin policy.drained
       /\ IF RuleOf(policy, p) = NoRule
          THEN ~excludeIsolationNodeFromDefault(policy, n, isolationNodes)
          ELSE nodeMatchesRule(nodes, n, RuleOf(policy, p))

routeSnapshotForRuntimeNode(nodes, snapshot, n, policy) ==
  LET isolationNodes == selectedIsolationNodeIds(nodes, policy)
  IN {p \in snapshot : routeVisibleToNode(nodes, p, n, policy, isolationNodes)}

(* A static target is never selected by a rule: it has the routes no rule is about. *)
routeVisibleToStaticTarget(p, policy) ==
  /\ p \notin policy.drained
  /\ p \notin DOMAIN policy.isolated
  /\ p \notin DOMAIN policy.projects
  /\ policy.default = NoRule

staticRouteSnapshotForPlacement(snapshot, policy) ==
  IF policy = NoPolicy THEN snapshot ELSE {p \in snapshot : routeVisibleToStaticTarget(p, policy)}

\* MUTANT of snapshotRequiresTenantDrainPublish: only drained projects force a publication.
snapshotRequiresPublishOfDrained(snapshot, policy) ==
  hasTenantIsolationPolicy(policy) /\ \E p \in snapshot : p \in policy.drained

(* Nodes left without a route must hear of it when a tenant is moved away. *)
snapshotRequiresTenantDrainPublish(snapshot, policy) ==
  hasTenantIsolationPolicy(policy) /\ \E p \in snapshot : p \in policy.drained \union DOMAIN policy.isolated

(* The snapshot of each node that is published to, a function of the node. *)
planRuntimeSnapshotPlacements(nodes, snapshot, policy) ==
  LET For(n) == routeSnapshotForRuntimeNode(nodes, snapshot, n, policy)
      planned == IF snapshot = {} \/ snapshotRequiresTenantDrainPublish(snapshot, policy) THEN nodes
                 ELSE {n \in nodes : For(n) # {}}
  IN [n \in planned |-> For(n)]

(* The nodes alone, as an exported function of its own selects them. *)
selectRuntimeNodesForSnapshot(nodes, snapshot, policy) ==
  IF hasTenantIsolationPolicy(policy) THEN DOMAIN planRuntimeSnapshotPlacements(nodes, snapshot, policy)
  ELSE IF snapshot = {} \/ \E p \in snapshot : RuleOf(policy, p) = NoRule THEN nodes
  ELSE UNION {selectByRule(nodes, RuleOf(policy, p)) : p \in snapshot}

(* The routes of the tenants a policy says nothing special about. *)
defaultRouteSnapshotForTenantDrain(snapshot, policy) ==
  IF hasTenantIsolationPolicy(policy) THEN snapshot \ (policy.drained \union DOMAIN policy.isolated) ELSE snapshot

(* A tier is validated when it is looked at: one no node is left to need is not. *)
RuleThrows(nodes, rule) ==
  LET tiers == <<rule>> \o rule.failover
  IN \E k \in DOMAIN tiers :
       /\ ~validateMaxTargets(tiers[k].max)
       /\ \A j \in 1..(k - 1) : selectByTier(nodes, tiers[j]) = {}

PlanThrows(nodes, snapshot, policy) ==
  LET plain == {p \in snapshot : p \notin policy.drained \union DOMAIN policy.isolated}
      used == {policy.isolated[p] : p \in DOMAIN policy.isolated} \union {RuleOf(policy, p) : p \in plain}
  IN nodes # {} /\ \E rule \in used \ {NoRule} : RuleThrows(nodes, rule)

Urls == DOMAIN FleetNodes \union StaticUrls
NoPublication == [state |-> "none", nodes |-> {}, snapshot |-> {}, policy |-> NoPolicy, left |-> <<>>, failed |-> FALSE]

FleetInit ==
  /\ registry \in {<<>>, [n \in DOMAIN FleetNodes |-> [status |-> "active", active |-> 0]]}
  /\ lifecycle = [n \in DOMAIN FleetNodes |-> "active"]
  /\ hb = [n \in DOMAIN FleetNodes |-> "register"]
  /\ routed \in SUBSET FleetProjects
  /\ placement \in {NoPolicy} \union FleetPolicies
  /\ publishing = NoPublication
  /\ held = [u \in Urls |-> [routes |-> {}, by |-> "none"]]
  /\ warming = 0
  /\ fleetSteps = 0

Begun == fleetSteps < MaxFleetSteps /\ fleetSteps' = fleetSteps + 1

Put(f, x, v) == [y \in DOMAIN f \union {x} |-> IF y = x THEN v ELSE f[y]]
Drop(f, x) == [y \in DOMAIN f \ {x} |-> f[y]]

-----------------------------------------------------------------------------
(* The loop of a node: it registers, which fails or finds it registered    *)
(* already (409), then reports; a failure waits for the next turn.         *)
RegisterNode(n) ==
  /\ Begun
  /\ hb[n] = "register"
  /\ \/ /\ registry' = IF n \in DOMAIN registry THEN registry ELSE Put(registry, n, [status |-> "active", active |-> 0])
        /\ hb' = [hb EXCEPT ![n] = "heartbeat"]
     \/ UNCHANGED <<registry, hb>>
  /\ UNCHANGED <<lifecycle, routed, placement, publishing, held, warming>>

sendRuntimeHeartbeat(n) ==
  /\ Begun
  /\ hb[n] = "heartbeat"
  /\ hb' = [hb EXCEPT ![n] = "register"]
  /\ \/ /\ n \in DOMAIN registry
        /\ \E load \in Loads : registry' = [registry EXCEPT ![n] = [status |-> lifecycle[n], active |-> load]]
     \/ UNCHANGED registry
  /\ UNCHANGED <<lifecycle, routed, placement, publishing, held, warming>>

(* The runtime of a node starts to drain, or is started again. *)
ChangeLifecycle(n) ==
  /\ lifecycle' = [lifecycle EXCEPT ![n] = IF @ = "active" THEN "draining" ELSE "active"]
  /\ UNCHANGED <<registry, hb, routed, placement, publishing, held, warming>>

(* An operator's status stands until the next heartbeat. *)
updateRuntimeNodeStatus(n, status) ==
  /\ n \in DOMAIN registry
  /\ registry' = [registry EXCEPT ![n].status = status]
  /\ UNCHANGED <<lifecycle, hb, routed, placement, publishing, held, warming>>

(* cleanupRuntimeNodes() removes what has not been seen for long. *)
RemoveNode(n) ==
  /\ n \in DOMAIN registry
  /\ registry' = Drop(registry, n)
  /\ UNCHANGED <<lifecycle, hb, routed, placement, publishing, held, warming>>

ChangeRoutes(projects) ==
  /\ routed' = projects
  /\ UNCHANGED <<registry, lifecycle, hb, placement, publishing, held, warming>>

(* The control plane is started again, with another placement. *)
RestartControlPlane(policy) ==
  /\ placement' = policy
  /\ publishing' = NoPublication
  /\ UNCHANGED <<registry, lifecycle, hb, routed, held, warming>>

Operate ==
  /\ Begun
  /\ \/ \E n \in DOMAIN FleetNodes : ChangeLifecycle(n) \/ RemoveNode(n) \/ updateRuntimeNodeStatus(n, "draining")
     \/ \E projects \in SUBSET FleetProjects \ {routed} : ChangeRoutes(projects)
     \/ \E policy \in FleetPolicies \ {placement} : RestartControlPlane(policy)

-----------------------------------------------------------------------------
isSaturatedRuntimeNode(n) == FleetNodes[n].capacity > 0 /\ registry[n].active >= FleetNodes[n].capacity

NodeRecord(n) ==
  [id |-> n, region |-> FleetNodes[n].region, labels |-> FleetNodes[n].labels,
   active |-> registry[n].active, capacity |-> FleetNodes[n].capacity]

listActiveRuntimeNodes ==
  {NodeRecord(n) : n \in {m \in DOMAIN registry : registry[m].status = "active" /\ ~isSaturatedRuntimeNode(m)}}

(* The targets of a publication, url -> snapshot: the nodes placement      *)
(* selects, then the static targets whose url no selected node has.        *)
publishTargets(nodes, snapshot, policy) ==
  LET planned == IF policy = NoPolicy THEN [n \in nodes |-> snapshot]
                 ELSE planRuntimeSnapshotPlacements(nodes, snapshot, policy)
      selected == {n.id : n \in DOMAIN planned}
      static == staticRouteSnapshotForPlacement(snapshot, policy)
  IN [u \in selected \union StaticUrls |->
        IF u \in selected THEN planned[CHOOSE n \in DOMAIN planned : n.id = u] ELSE static]

(* The routes, then the nodes are read; no target is an error. *)
publishCurrentRouteSnapshot ==
  /\ Begun
  /\ publishing.state # "sending"
  /\ LET nodes == listActiveRuntimeNodes IN
     /\ placement # NoPolicy => ~PlanThrows(nodes, routed, placement)
     /\ publishTargets(nodes, routed, placement) # <<>>
     /\ publishing' = [state |-> "sending", nodes |-> nodes, snapshot |-> routed, policy |-> placement,
                       left |-> publishTargets(nodes, routed, placement), failed |-> FALSE]
  /\ UNCHANGED <<registry, lifecycle, hb, routed, placement, held, warming>>

(* One target after the other applies its snapshot, or does not. *)
DeliverTo(u) ==
  /\ publishing.state = "sending"
  /\ u \in DOMAIN publishing.left /\ \A v \in DOMAIN publishing.left : u <= v
  /\ LET left == Drop(publishing.left, u) IN
     \E ok \in BOOLEAN :
       /\ held' = IF ok THEN [held EXCEPT ![u] = [routes |-> publishing.left[u], by |-> "publication"]] ELSE held
       /\ publishing' = [publishing EXCEPT
            !.left = left,
            !.failed = @ \/ ~ok,
            !.state = IF left # <<>> THEN @ ELSE IF ok /\ ~publishing.failed THEN "complete" ELSE "partial"]
  /\ UNCHANGED <<registry, lifecycle, hb, routed, placement, warming, fleetSteps>>

-----------------------------------------------------------------------------
(* A new node is registered as draining, and is active only once it has    *)
(* the routes.                                                             *)
warmAndActivateRuntimeNode(n) ==
  /\ Begun
  /\ warming = 0
  /\ n \notin DOMAIN registry
  /\ registry' = Put(registry, n, [status |-> "draining", active |-> 0])
  /\ warming' = n
  /\ UNCHANGED <<lifecycle, hb, routed, placement, publishing, held>>

Activate ==
  /\ warming # 0
  /\ warming' = 0
  /\ \/ /\ held' = [held EXCEPT ![warming] = [routes |-> routed, by |-> "warmup"]]
        /\ registry' = IF warming \in DOMAIN registry
                       THEN [registry EXCEPT ![warming] = [status |-> "active", active |-> 0]] ELSE registry
     \/ UNCHANGED <<held, registry>>
  /\ UNCHANGED <<lifecycle, hb, routed, placement, publishing, fleetSteps>>

FleetNext ==
  \/ \E n \in DOMAIN FleetNodes : RegisterNode(n) \/ sendRuntimeHeartbeat(n) \/ warmAndActivateRuntimeNode(n)
  \/ Operate
  \/ publishCurrentRouteSnapshot
  \/ \E u \in Urls : DeliverTo(u)
  \/ Activate

FleetSpec == FleetInit /\ [][FleetNext]_fleetVars

-----------------------------------------------------------------------------
(* Once every target of a publication has applied it: no node that was     *)
(* active then, nor a static target, still serves a drained project whose  *)
(* routes the snapshot has; an isolated project is served by the nodes of  *)
(* its pool alone, whatever they served before; a static target has no     *)
(* route of a tenant that is placed.  Nodes a warm-up sent the whole       *)
(* snapshot to are excepted: it is not placed.                             *)
PlacementIsolates ==
  LET p == publishing
      known == {u \in {n.id : n \in p.nodes} \union StaticUrls : held[u].by # "warmup"}
      Serving(x) == {u \in known : x \in held[u].routes}
  IN p.state = "complete" /\ p.policy # NoPolicy =>
       /\ \A x \in p.snapshot :
            IF x \in DOMAIN p.policy.isolated
            THEN Serving(x) \subseteq {n.id : n \in selectByRule(p.nodes, p.policy.isolated[x])}
            ELSE x \in p.policy.drained => Serving(x) = {}
       /\ \A u \in StaticUrls \ {n.id : n \in p.nodes} :
            held[u].by # "warmup" => held[u].routes \subseteq defaultRouteSnapshotForTenantDrain(p.snapshot, p.policy)
       /\ DOMAIN planRuntimeSnapshotPlacements(p.nodes, p.snapshot, p.policy)
            = selectRuntimeNodesForSnapshot(p.nodes, p.snapshot, p.policy)
=============================================================================
