----------------------------- MODULE RoutingRules -----------------------------
(***************************************************************************)
(* The pure parts of deploying and routing that both control planes share: *)
(* admission.ts, artifact-signing.ts, canary-analysis.ts and the route and *)
(* node normalizers of contracts.ts.  An HMAC is a pair of the key and the *)
(* digest it was made over, which no other pair equals; a URL is a pair of *)
(* its origin and the segments of its path (with no trailing slash).       *)
(***************************************************************************)
EXTENDS Metering, SequencesExt

CONSTANTS AdmissionPolicy,  \* ControlPlaneAdmissionPolicy; None where it does not limit
          SignatureKeys     \* the keys of the artifact signature verifier

(* An absent limit allows everything. *)
Allows(limit, value) == limit = None \/ value \in limit

verifyArtifactSignature(artifact) ==
  /\ artifact.signature # None
  /\ artifact.signature.key \in SignatureKeys
  /\ artifact.signature.over = artifact.digest

enforceArtifactAdmissionPolicy(artifact) ==
  /\ AdmissionPolicy.requireSignature => artifact.signature # None
  /\ AdmissionPolicy.keyIds = None
       \/ (artifact.signature # None /\ artifact.signature.key \in AdmissionPolicy.keyIds)
  /\ AdmissionPolicy.maxSize = None \/ artifact.size <= AdmissionPolicy.maxSize

urlPrefixAllows(prefix, url) ==
  prefix.origin = url.origin /\ IsPrefix(prefix.path, url.path)

AllowsUrl(prefixes, url) == prefixes = None \/ \E p \in prefixes : urlPrefixAllows(p, url)

enforceOutboundHttpPolicy(capabilities) ==
  \A url \in capabilities.outbound : AllowsUrl(AdmissionPolicy.outbound, url)
enforceKvPolicy(capabilities) == \A id \in capabilities.kv : Allows(AdmissionPolicy.kv, id)
enforceDurableObjectPolicy(capabilities) == \A id \in capabilities.do : Allows(AdmissionPolicy.do, id)
enforceSecretPolicy(capabilities) == \A id \in capabilities.secrets : Allows(AdmissionPolicy.secrets, id)
enforceServicePolicy(capabilities) ==
  \A s \in capabilities.services :
    Allows(AdmissionPolicy.services, s.project) /\ AllowsUrl(AdmissionPolicy.serviceUrls, s.url)

enforceDeploymentAdmissionPolicy(artifact, world, capabilities) ==
  /\ enforceArtifactAdmissionPolicy(artifact)
  /\ Allows(AdmissionPolicy.worlds, world)
  /\ enforceOutboundHttpPolicy(capabilities)
  /\ enforceKvPolicy(capabilities)
  /\ enforceDurableObjectPolicy(capabilities)
  /\ enforceSecretPolicy(capabilities)
  /\ enforceServicePolicy(capabilities)

-----------------------------------------------------------------------------
(* A route's targets: at least one, none twice, each with a weight. *)
normalizeRouteTargets(targets) ==
  /\ targets # <<>>
  /\ IsInjective([n \in DOMAIN targets |-> targets[n].deployment])
  /\ \A n \in DOMAIN targets : targets[n].weight > 0

\* MUTANT of requireTargets: any project's deployment is accepted.
requireTargetsAnywhere(d, project, targets) ==
  Require(d, \A n \in DOMAIN targets : Has(d.deployments, targets[n].deployment), "not_found")

(* The targets are looked up one after the other: the first that is missing *)
(* or belongs to another project is the error.                             *)
requireTargets(d, project, targets) ==
  LET known(n) == Has(d.deployments, targets[n].deployment)
      bad == {n \in DOMAIN targets :
                ~known(n) \/ d.deployments[targets[n].deployment].project # project} IN
  IF bad = {} THEN Ok(d) ELSE Fail(d, IF known(Min(bad)) THEN "validation" ELSE "not_found")

WholeRoute(deployment) == <<[deployment |-> deployment, weight |-> 100]>>

canaryWeight(weight) == weight \in 1..99

isErrorEvent(e) == e.status >= 500 \/ e.error # None
isRejectedEvent(e) == e.status \in {429, 503} \/ e.error \in {"overloaded", "rate_limited"}

(* values is sorted, and not empty: Math.ceil(0.95 * n) - 1, from zero. *)
percentile95(values) == values[(95 * Len(values) + 99) \div 100]

summarizeCanaryMetrics(events) ==
  LET durations == SortSeq([n \in DOMAIN events |-> events[n].duration], LAMBDA a, b : a < b) IN
  [requests |-> Len(events),
   errors |-> Len(SelectSeq(events, isErrorEvent)),
   rejects |-> Len(SelectSeq(events, isRejectedEvent)),
   p95 |-> IF events = <<>> THEN 0 ELSE percentile95(durations)]

(* thresholds.errorRate is a percentage here. *)
analyzeCanaryEvents(events, candidate, thresholds) ==
  LET m == summarizeCanaryMetrics(SelectSeq(events, LAMBDA e : e.deployment = candidate))
      exceeds(value, limit) == limit # None /\ value > limit IN
  IF /\ m.requests >= thresholds.minRequests
     /\ \/ exceeds(m.rejects, thresholds.rejects)
        \/ thresholds.errorRate # None /\ m.errors * 100 > thresholds.errorRate * m.requests
        \/ exceeds(m.p95, thresholds.p95)
  THEN "rollback" ELSE "continue"

(* A snapshot has every route with its targets resolved to artifacts. *)
snapshotRoutes(d) ==
  {[project |-> r.project, host |-> r.host,
    targets |-> [n \in DOMAIN r.targets |->
       r.targets[n] @@ [digest |-> d.artifacts[d.deployments[r.targets[n].deployment].artifact].digest]]] :
   r \in Range(d.routes)}

-----------------------------------------------------------------------------
NodeStatuses == {"active", "draining", "offline"}

(* A node that gives no status is active. *)
normalizeRuntimeNodeStatus(status) == IF status = None THEN "active" ELSE status

isSaturatedRuntimeNode(node) ==
  node.capacity # None /\ node.load # None /\ node.load >= node.capacity

isActiveRuntimeNode(node, now, ttl) ==
  /\ node.status = "active"
  /\ ttl = None \/ (node.seen # None /\ now - node.seen <= ttl)
  /\ ~isSaturatedRuntimeNode(node)

runtimeNodeObservedAt(node) == IF node.seen = None THEN node.registered ELSE node.seen

(* The statuses a cleanup removes: offline unless the request names some. *)
cleanupStatuses(statuses) == IF statuses = None THEN {"offline"} ELSE statuses

cleanedNodes(d, i) ==
  {n \in DOMAIN d.nodes : /\ d.nodes[n].status \in cleanupStatuses(i.statuses)
                          /\ runtimeNodeObservedAt(d.nodes[n]) < i.now - i.olderThan}

RetryOperationDelay == 1
=============================================================================
