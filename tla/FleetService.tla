----------------------------- MODULE FleetService -----------------------------
(***************************************************************************)
(* service.ts: runtime nodes, snapshot publications and edge worker        *)
(* releases of the synchronous control plane.                              *)
(***************************************************************************)
EXTENDS TenancyService, RoutingRules

registerRuntimeNode(d, i) ==
  R!createRuntimeNode(d, i.id,
    [url |-> i.url, status |-> normalizeRuntimeNodeStatus(i.status), registered |-> i.now,
     seen |-> None, capacity |-> None, load |-> None])

recordRuntimeNodeHeartbeat(d, i) ==
  Provided(Require(d, Has(d.nodes, i.id), "not_found"),
    R!updateRuntimeNodeHeartbeat(d, i.id,
      [d.nodes[i.id] EXCEPT !.status = normalizeRuntimeNodeStatus(i.status), !.seen = i.now,
                            !.capacity = IF i.capacity = None THEN @ ELSE i.capacity,
                            !.load = IF i.load = None THEN @ ELSE i.load]))

updateRuntimeNodeStatus(d, i) ==
  R!updateRuntimeNodeStatus(d, i.id, normalizeRuntimeNodeStatus(i.status))

cleanupRuntimeNodes(d, i) ==
  Provided(Require(d, i.olderThan > 0, "validation"),
    FoldSet(LAMBDA n, r : R!deleteRuntimeNode(r.db, n), Ok(d), cleanedNodes(d, i)))

listActiveRuntimeNodes(d, i) ==
  Fail(d, IF Has(d.nodes, i.id) /\ isActiveRuntimeNode(d.nodes[i.id], i.now, i.ttl)
          THEN "listed" ELSE "unlisted")

recordRouteSnapshotPublication(d, i) ==
  R!createRouteSnapshotPublication(d, [snapshot |-> i.snapshot, ok |-> i.ok])

-----------------------------------------------------------------------------
createEdgeWorkerRelease(d, i) ==
  LET deployed == IF i.reply = "error" THEN d ELSE [d EXCEPT !.scripts = @ \union {i.script}] IN
  Provided(requireProject(d, i.project),
  Provided(Require(d, Has(d.deployments, i.deployment), "not_found"),
  Provided(Require(d, d.deployments[i.deployment].project = i.project, "validation"),
  Provided(Require(deployed, i.reply = "done", "validation"),
    R!createEdgeWorkerRelease(deployed, i.id, [project |-> i.project, deployment |-> i.deployment,
                                               script |-> i.script, status |-> "active"])))))

deleteProviderEdgeWorkerRelease(d, release, reply) ==
  IF reply = "error" THEN d ELSE [d EXCEPT !.scripts = @ \ {d.releases[release].script}]

operationsOf(d, release) == {o \in DOMAIN d.operations : d.operations[o].release = release}

deleteEdgeWorkerRelease(d, i) ==
  LET called == deleteProviderEdgeWorkerRelease(d, i.id, i.reply) IN
  IF ~Has(d.releases, i.id) THEN Fail(d, "not_found")
  ELSE IF d.releases[i.id].status = "deleted" THEN Ok(d)
  ELSE IF ~i.deleteProvider THEN R!updateEdgeWorkerRelease(d, i.id, "deleted")
  ELSE IF i.reply = "done" THEN R!updateEdgeWorkerRelease(called, i.id, "deleted")
  ELSE Then(R!updateEdgeWorkerRelease(called, i.id, "failed"), LAMBDA e :
            R!createEdgeWorkerReleaseOperation(e, <<i.id, Cardinality(operationsOf(e, i.id))>>,
              [release |-> i.id, status |-> "pending", attempts |-> 0, next |-> i.now]))

(* One attempt of the operation o. *)
deliverOperation(d, o, i) ==
  LET op == d.operations[o]
      called == deleteProviderEdgeWorkerRelease(d, op.release, i.reply) IN
  IF i.reply = "done"
  THEN Then(R!updateEdgeWorkerRelease(called, op.release, "deleted"), LAMBDA e :
            R!updateEdgeWorkerReleaseOperation(e, o, [op EXCEPT !.status = "succeeded", !.attempts = @ + 1]))
  ELSE Then(R!updateEdgeWorkerRelease(called, op.release, "failed"), LAMBDA e :
            R!updateEdgeWorkerReleaseOperation(e, o,
              [op EXCEPT !.attempts = @ + 1, !.next = i.now + RetryOperationDelay]))

deliverPendingEdgeWorkerReleaseOperations(d, i) ==
  FoldSet(LAMBDA o, r : deliverOperation(r.db, o, i), Ok(d),
          R!listPendingEdgeWorkerReleaseOperations(d, i.now))
=============================================================================
