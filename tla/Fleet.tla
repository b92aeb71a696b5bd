--------------------------------- MODULE Fleet ---------------------------------
(***************************************************************************)
(* async-service.ts: runtime nodes, snapshot publications and edge worker  *)
(* releases.  A request carries the time of the call and, where a provider *)
(* is called, what the provider does:                                      *)
(*   done   it does it and says so                                         *)
(*   error  it does nothing and fails                                      *)
(*   lost   it does it, and the answer is an error or is not the expected  *)
(***************************************************************************)
EXTENDS ControlPlaneCalls, RoutingRules

registerRuntimeNode(c) ==
  /\ At(c, "registerRuntimeNode", "start")
  /\ Finish(c, Pg!createRuntimeNode(db, in(c).id,
       [url |-> in(c).url, status |-> normalizeRuntimeNodeStatus(in(c).status), registered |-> in(c).now,
        seen |-> None, capacity |-> None, load |-> None]))

requireRuntimeNode(id) == Require(db, Has(db.nodes, id), "not_found")

(* The row read, with what the heartbeat says. *)
heartbeatNode(node, i) ==
  [node EXCEPT !.status = normalizeRuntimeNodeStatus(i.status), !.seen = i.now,
               !.capacity = IF i.capacity = None THEN @ ELSE i.capacity,
               !.load = IF i.load = None THEN @ ELSE i.load]

recordRuntimeNodeHeartbeat(c) ==
  \/ /\ At(c, "recordRuntimeNodeHeartbeat", "start")
     /\ Check(c, requireRuntimeNode(in(c).id), "write",
              IF Has(db.nodes, in(c).id) THEN db.nodes[in(c).id] ELSE None)
  \/ /\ At(c, "recordRuntimeNodeHeartbeat", "write")
     /\ Finish(c, Pg!updateRuntimeNodeHeartbeat(db, in(c).id, heartbeatNode(loc(c), in(c))))

updateRuntimeNodeStatus(c) ==
  /\ At(c, "updateRuntimeNodeStatus", "start")
  /\ Finish(c, Pg!updateRuntimeNodeStatus(db, in(c).id, normalizeRuntimeNodeStatus(in(c).status)))

(* loc is the nodes listed and not deleted yet; the code    *)
(* deletes them in the order of their ids, the model in any order.         *)
cleanupRuntimeNodes(c) ==
  \/ /\ At(c, "cleanupRuntimeNodes", "start")
     /\ Check(c, Require(db, in(c).olderThan > 0, "validation"), "delete", cleanedNodes(db, in(c)))
  \/ /\ At(c, "cleanupRuntimeNodes", "delete")
     /\ IF loc(c) = {} THEN Reply(c, "ok")
        ELSE \E n \in loc(c) : Write(c, Pg!deleteRuntimeNode(db, n), "delete", loc(c) \ {n})

(* The answer for one node: whether the list has it. *)
listActiveRuntimeNodes(c) ==
  /\ At(c, "listActiveRuntimeNodes", "start")
  /\ Reply(c, IF /\ Has(db.nodes, in(c).id)
                 /\ isActiveRuntimeNode(db.nodes[in(c).id], in(c).now, in(c).ttl)
              THEN "listed" ELSE "unlisted")

recordRouteSnapshotPublication(c) ==
  /\ At(c, "recordRouteSnapshotPublication", "start")
  /\ Finish(c, Pg!createRouteSnapshotPublication(db, [snapshot |-> in(c).snapshot, ok |-> in(c).ok]))

-----------------------------------------------------------------------------
requireReleaseDeployment(i) ==
  Then(requireProject(i.project), LAMBDA e :
  Then(Require(e, Has(e.deployments, i.deployment), "not_found"), LAMBDA f :
       Require(f, f.deployments[i.deployment].project = i.project, "validation")))

(* The script runs at the provider before the release has a row. *)
createEdgeWorkerRelease(c) ==
  LET i == in(c) IN
  \/ /\ At(c, "createEdgeWorkerRelease", "start")
     /\ Check(c, requireReleaseDeployment(i), "deploy", None)
  \/ /\ At(c, "createEdgeWorkerRelease", "deploy")
     /\ Write(c, [out |-> IF i.reply = "done" THEN "ok" ELSE "validation",
                  db |-> IF i.reply = "error" THEN db ELSE [db EXCEPT !.scripts = @ \union {i.script}]],
              "insert", None)
  \/ /\ At(c, "createEdgeWorkerRelease", "insert")
     /\ Finish(c, Pg!createEdgeWorkerRelease(db, i.id,
          [project |-> i.project, deployment |-> i.deployment, script |-> i.script, status |-> "active"]))

requireEdgeWorkerRelease(id) == Require(db, Has(db.releases, id), "not_found")

deleteProviderEdgeWorkerRelease(d, script, reply) ==
  IF reply = "error" THEN d ELSE [d EXCEPT !.scripts = @ \ {script}]

(* A fresh id of the release's next operation. *)
operationId(d, release) ==
  <<release, Cardinality({o \in DOMAIN d.operations : d.operations[o].release = release})>>

deleteEdgeWorkerRelease(c) ==
  LET i == in(c) IN
  \/ /\ At(c, "deleteEdgeWorkerRelease", "start")
     /\ IF Has(db.releases, i.id) /\ db.releases[i.id].status = "deleted" THEN Reply(c, "ok")
        ELSE Check(c, requireEdgeWorkerRelease(i.id), IF i.deleteProvider THEN "mark" ELSE "deleted", None)
  \/ /\ At(c, "deleteEdgeWorkerRelease", "mark")
     /\ Write(c, Pg!updateEdgeWorkerRelease(db, i.id, "deleting"), "provider", None)
  \/ /\ At(c, "deleteEdgeWorkerRelease", "provider")
     /\ Write(c, Ok(deleteProviderEdgeWorkerRelease(db, db.releases[i.id].script, i.reply)),
              IF i.reply = "done" THEN "deleted" ELSE "failed", None)
  \/ /\ At(c, "deleteEdgeWorkerRelease", "failed")
     /\ Write(c, Pg!updateEdgeWorkerRelease(db, i.id, "failed"), "enqueue", None)
  \/ /\ At(c, "deleteEdgeWorkerRelease", "enqueue")
     /\ Finish(c, Pg!createEdgeWorkerReleaseOperation(db, operationId(db, i.id),
          [release |-> i.id, status |-> "pending", attempts |-> 0, next |-> i.now]))
  \/ /\ At(c, "deleteEdgeWorkerRelease", "deleted")
     /\ Finish(c, Pg!updateEdgeWorkerRelease(db, i.id, "deleted"))

\* MUTANT of retriedOperation: the first failure is the last.
retriedOperationGivesUp(op, now) == [op EXCEPT !.status = "failed", !.attempts = @ + 1]

retriedOperation(op, now) == [op EXCEPT !.attempts = @ + 1, !.next = now + RetryOperationDelay]

(* loc is the operations listed as due and not attempted yet, as rows. *)
deliverPendingEdgeWorkerReleaseOperations(c) ==
  LET i == in(c)
      op == loc(c).row
      goOn(row) == Write(c, Pg!updateEdgeWorkerReleaseOperation(db, loc(c).id, row), "next", loc(c).left)
      method == "deliverPendingEdgeWorkerReleaseOperations" IN
  \/ /\ At(c, method, "start")
     /\ Await(c, "next", [o \in Pg!listPendingEdgeWorkerReleaseOperations(db, i.now) |-> db.operations[o]])
  \/ /\ At(c, method, "next")
     /\ IF loc(c) = NoRows THEN Reply(c, "ok")
        ELSE \E o \in DOMAIN loc(c) :
               Check(c, requireEdgeWorkerRelease(loc(c)[o].release), "provider",
                     [id |-> o, row |-> loc(c)[o], left |-> Drop(loc(c), o)])
  \/ /\ At(c, method, "provider")
     /\ Write(c, Ok(deleteProviderEdgeWorkerRelease(db, db.releases[op.release].script, i.reply)),
              IF i.reply = "done" THEN "deleted" ELSE "failed", loc(c))
  \/ /\ At(c, method, "deleted")
     /\ Write(c, Pg!updateEdgeWorkerRelease(db, op.release, "deleted"), "succeeded", loc(c))
  \/ At(c, method, "succeeded") /\ goOn([op EXCEPT !.status = "succeeded", !.attempts = @ + 1])
  \/ /\ At(c, method, "failed")
     /\ Write(c, Pg!updateEdgeWorkerRelease(db, op.release, "failed"), "retry", loc(c))
  \/ At(c, method, "retry") /\ goOn(retriedOperation(op, i.now))

FleetNext(c) ==
  \/ registerRuntimeNode(c) \/ recordRuntimeNodeHeartbeat(c) \/ updateRuntimeNodeStatus(c)
  \/ cleanupRuntimeNodes(c) \/ listActiveRuntimeNodes(c) \/ recordRouteSnapshotPublication(c)
  \/ createEdgeWorkerRelease(c) \/ deleteEdgeWorkerRelease(c)
  \/ deliverPendingEdgeWorkerReleaseOperations(c)
=============================================================================
