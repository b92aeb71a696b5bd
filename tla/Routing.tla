-------------------------------- MODULE Routing --------------------------------
(***************************************************************************)
(* async-service.ts: artifacts, secrets, namespaces, deployments, routes,  *)
(* canaries, previews and custom domains, one disjunct per await on        *)
(* something another call may change.                                      *)
(***************************************************************************)
EXTENDS ControlPlaneCalls, RoutingRules

(* Creation of what a quota limits: the count is read before the insert. *)
createWithinQuota(c, op, resource, accepted, insert) ==
  \/ /\ At(c, op, "start")
     /\ Check(c, Then(requireProject(in(c).project), LAMBDA e :
                 Then(enforceProjectQuota(e, in(c).project, resource), LAMBDA f :
                      Require(f, accepted, "validation"))), "write", None)
  \/ At(c, op, "write") /\ Finish(c, insert)

(* A change of a row that was found before. *)
changeExisting(c, op, table, result) ==
  \/ /\ At(c, op, "start")
     /\ Check(c, Require(db, Has(db[table], in(c).id), "not_found"), "write", None)
  \/ At(c, op, "write") /\ Finish(c, result)

createArtifact(c) ==
  LET artifact == [project |-> in(c).project, digest |-> in(c).digest, size |-> in(c).size,
                   signature |-> in(c).signature] IN
  createWithinQuota(c, "createArtifact", "artifacts", enforceArtifactAdmissionPolicy(artifact),
                    Pg!createArtifact(db, in(c).id, artifact))

createSecret(c) ==
  createWithinQuota(c, "createSecret", "secrets", TRUE, Pg!createSecret(db, in(c)))
updateSecretValue(c) ==
  changeExisting(c, "updateSecretValue", "secrets", Pg!updateSecretValue(db, in(c).id, in(c).value))
deleteSecret(c) == changeExisting(c, "deleteSecret", "secrets", Pg!deleteSecret(db, in(c).id))

createKvNamespace(c) ==
  createWithinQuota(c, "createKvNamespace", "kvNamespaces", TRUE, Pg!createKvNamespace(db, in(c)))
deleteKvNamespace(c) ==
  changeExisting(c, "deleteKvNamespace", "kvNamespaces", Pg!deleteKvNamespace(db, in(c).id))

createDurableObjectNamespace(c) ==
  createWithinQuota(c, "createDurableObjectNamespace", "doNamespaces", TRUE,
                    Pg!createDurableObjectNamespace(db, in(c)))
deleteDurableObjectNamespace(c) ==
  changeExisting(c, "deleteDurableObjectNamespace", "doNamespaces",
                 Pg!deleteDurableObjectNamespace(db, in(c).id))

-----------------------------------------------------------------------------
requireArtifact(id) == Require(db, Has(db.artifacts, id), "not_found")
requireDeployment(id) == Require(db, Has(db.deployments, id), "not_found")

(* Every binding of a deployment names a row of the same project. *)
requireOwn(table, ids, project) ==
  Require(db, \A id \in ids : Has(db[table], id) /\ db[table][id].project = project, "validation")
requireDeploymentKvNamespaces(i) == requireOwn("kvNamespaces", i.capabilities.kv, i.project)
requireDeploymentDurableObjectNamespaces(i) == requireOwn("doNamespaces", i.capabilities.do, i.project)
requireDeploymentSecrets(i) == requireOwn("secrets", i.capabilities.secrets, i.project)
requireDeploymentServiceBindings(i) ==
  Require(db, \A s \in i.capabilities.services : Has(db.projects, s.project), "validation")

createDeployment(c) ==
  LET i == in(c)
      artifact == db.artifacts[i.artifact] IN
  \/ /\ At(c, "createDeployment", "start")
     /\ Check(c, Then(requireProject(i.project), LAMBDA e :
                 Then(enforceProjectQuota(e, i.project, "deployments"), LAMBDA f :
                 Then(requireArtifact(i.artifact), LAMBDA g :
                      Require(g, /\ artifact.project = i.project
                                 /\ SignatureKeys # None => verifyArtifactSignature(artifact)
                                 /\ enforceDeploymentAdmissionPolicy(artifact, i.world, i.capabilities),
                              "validation")))), "kv", None)
  \/ At(c, "createDeployment", "kv") /\ Check(c, requireDeploymentKvNamespaces(i), "do", None)
  \/ At(c, "createDeployment", "do") /\ Check(c, requireDeploymentDurableObjectNamespaces(i), "secrets", None)
  \/ /\ At(c, "createDeployment", "secrets")
     /\ Check(c, Then(requireDeploymentSecrets(i), LAMBDA e : requireDeploymentServiceBindings(i)), "write", None)
  \/ /\ At(c, "createDeployment", "write")
     /\ Write(c, Pg!createDeployment(db, i.id, [project |-> i.project, artifact |-> i.artifact,
                                                capabilities |-> i.capabilities]), "audit", None)
  \/ /\ At(c, "createDeployment", "audit")
     /\ Finish(c, recordCustomerAuditEvent(db, "deployment.created", i.id, db.projects[i.project].org, i.project))

-----------------------------------------------------------------------------
requireProjectDeployment(project, deployment) ==
  Then(requireProject(project), LAMBDA e :
  Then(requireDeployment(deployment), LAMBDA f :
       Require(f, f.deployments[deployment].project = project, "validation")))

(* A host some project claimed takes routes of that project once it is active. *)
enforceRouteCustomDomain(project, host) ==
  Require(db, \A x \in DOMAIN db.domains : db.domains[x].host = host =>
                db.domains[x].project = project /\ db.domains[x].status = "active", "validation")

routeKey(i) == <<i.project, i.host>>
currentTargets(i) == IF Has(db.routes, routeKey(i)) THEN db.routes[routeKey(i)].targets ELSE None

(* pointRoute and createDeployPreview read the domain, the route and, for  *)
(* a route that is new, the quota; they then write with the route read.    *)
checkRoute(c, op, write) ==
  LET i == in(c) IN
  \/ At(c, op, "domain") /\ Check(c, enforceRouteCustomDomain(i.project, i.host), "route", None)
  \/ /\ At(c, op, "route")
     /\ Await(c, IF currentTargets(i) = None THEN "quota" ELSE write, currentTargets(i))
  \/ At(c, op, "quota") /\ Check(c, enforceProjectQuota(db, i.project, "routes"), write, None)

pointRoute(c) ==
  LET i == in(c) IN
  \/ /\ At(c, "pointRoute", "start")
     /\ Check(c, Then(requireProject(i.project), LAMBDA e :
                 Then(Require(e, normalizeRouteTargets(i.targets), "validation"), LAMBDA f :
                      requireTargets(f, i.project, i.targets))), "domain", None)
  \/ checkRoute(c, "pointRoute", "write")
  \/ /\ At(c, "pointRoute", "write")
     /\ Write(c, Pg!upsertRoute(db, i.project, i.host, i.targets), "audit", None)
  \/ /\ At(c, "pointRoute", "audit")
     /\ Finish(c, recordCustomerAuditEvent(db, "route.pointed", i.host, db.projects[i.project].org, i.project))

requireRoute(i) ==
  Then(requireProject(i.project), LAMBDA e : Require(e, Has(e.routes, routeKey(i)), "not_found"))

(* The candidate is in the project; accepted is what else the route read allows. *)
requireCandidate(i, deployment, accepted) ==
  Then(requireRoute(i), LAMBDA e :
  Then(requireProjectDeployment(i.project, deployment), LAMBDA f : Require(f, accepted, "validation")))

startRouteCanary(c) ==
  LET i == in(c) IN
  \/ /\ At(c, "startRouteCanary", "start")
     /\ Check(c, requireCandidate(i, i.deployment,
                   currentTargets(i)[1].deployment # i.deployment /\ canaryWeight(i.weight)),
              "write", currentTargets(i))
  \/ /\ At(c, "startRouteCanary", "write")
     /\ Finish(c, Pg!upsertRoute(db, i.project, i.host,
          <<[deployment |-> loc(c)[1].deployment, weight |-> 100 - i.weight],
            [deployment |-> i.deployment, weight |-> i.weight]>>))

rollbackRoute(c) ==
  LET i == in(c)
      to == IF i.deployment = None THEN currentTargets(i)[1].deployment ELSE i.deployment IN
  \/ /\ At(c, "rollbackRoute", "start")
     /\ Check(c, requireCandidate(i, to, TRUE), "write", to)
  \/ /\ At(c, "rollbackRoute", "write")
     /\ Finish(c, Pg!upsertRoute(db, i.project, i.host, WholeRoute(loc(c))))

(* The decision is stored with the route as it was read, and the rollback  *)
(* writes that route back.                                                 *)
analyzeRouteCanary(c) ==
  LET i == in(c)
      action == analyzeCanaryEvents(i.events, i.deployment, i.thresholds) IN
  \/ /\ At(c, "analyzeRouteCanary", "start")
     /\ Check(c, requireCandidate(i, i.deployment,
                   \E n \in DOMAIN currentTargets(i) : currentTargets(i)[n].deployment = i.deployment),
              "decide", currentTargets(i))
  \/ /\ At(c, "analyzeRouteCanary", "decide")
     /\ LET r == Pg!createCanaryDecision(db, [project |-> i.project, host |-> i.host,
                   stable |-> loc(c)[1].deployment, candidate |-> i.deployment, action |-> action]) IN
        IF action = "rollback" THEN Write(c, r, "write", loc(c)[1].deployment) ELSE Finish(c, r)
  \/ /\ At(c, "analyzeRouteCanary", "write")
     /\ Finish(c, Pg!upsertRoute(db, i.project, i.host, WholeRoute(loc(c))))

(* The routes are read first, and the time of the snapshot is taken after  *)
(* their deployments and artifacts have been read.                         *)
createRouteSnapshot(c) ==
  \/ At(c, "createRouteSnapshot", "start") /\ Await(c, "stamp", snapshotRoutes(db))
  \/ /\ At(c, "createRouteSnapshot", "stamp")
     /\ Finish(c, Ok([db EXCEPT !.snapshots = Append(@, loc(c))]))

-----------------------------------------------------------------------------
createDeployPreview(c) ==
  LET i == in(c) IN
  \/ /\ At(c, "createDeployPreview", "start")
     /\ Check(c, requireProjectDeployment(i.project, i.deployment), "domain", None)
  \/ checkRoute(c, "createDeployPreview", "point")
  \/ /\ At(c, "createDeployPreview", "point")
     /\ Write(c, Pg!upsertRoute(db, i.project, i.host, WholeRoute(i.deployment)), "insert", loc(c))
  \/ /\ At(c, "createDeployPreview", "insert")
     /\ Finish(c, Pg!createDeployPreview(db, i.id,
          [project |-> i.project, deployment |-> i.deployment, host |-> i.host,
           previous |-> loc(c), status |-> "active"]))

(* The preview as an earlier await returned it. *)
restorePreviousRoute(preview) ==
  IF preview.previous = None THEN Pg!deleteRoute(db, preview.project, preview.host)
  ELSE Pg!upsertRoute(db, preview.project, preview.host, preview.previous)

rollbackDeployPreview(c) ==
  LET i == in(c) IN
  \/ /\ At(c, "rollbackDeployPreview", "start")
     /\ IF Has(db.previews, i.id) /\ db.previews[i.id].status = "rolled_back" THEN Reply(c, "ok")
        ELSE Check(c, Require(db, Has(db.previews, i.id), "not_found"), "route",
                   IF Has(db.previews, i.id) THEN db.previews[i.id] ELSE None)
  \/ At(c, "rollbackDeployPreview", "route") /\ Write(c, restorePreviousRoute(loc(c)), "update", None)
  \/ /\ At(c, "rollbackDeployPreview", "update")
     /\ Finish(c, Pg!updateDeployPreview(db, i.id, "rolled_back"))

-----------------------------------------------------------------------------
requireCustomDomain(id) == Require(db, Has(db.domains, id), "not_found")
readDomain(id) == IF Has(db.domains, id) THEN db.domains[id] ELSE None

auditDomain(c, action, project) ==
  Finish(c, recordCustomerAuditEvent(db, action, in(c).id, db.projects[project].org, project))

createCustomDomain(c) ==
  \/ At(c, "createCustomDomain", "start") /\ Check(c, requireProject(in(c).project), "write", None)
  \/ At(c, "createCustomDomain", "write") /\ Write(c, Pg!createCustomDomain(db, in(c)), "audit", None)
  \/ At(c, "createCustomDomain", "audit") /\ auditDomain(c, "custom_domain.created", in(c).project)

deleteCustomDomain(c) ==
  \/ /\ At(c, "deleteCustomDomain", "start")
     /\ Check(c, requireCustomDomain(in(c).id), "routes", readDomain(in(c).id))
  \/ /\ At(c, "deleteCustomDomain", "routes")
     /\ Check(c, Require(db, \A r \in DOMAIN db.routes : r[2] # loc(c).host, "validation"), "delete", loc(c))
  \/ /\ At(c, "deleteCustomDomain", "delete")
     /\ Write(c, Pg!deleteCustomDomain(db, in(c).id), "audit", loc(c).project)
  \/ At(c, "deleteCustomDomain", "audit") /\ auditDomain(c, "custom_domain.deleted", loc(c))

(* The row is written back as it was read, with its new status. *)
updateDomain(c, op, accepted, status, tls) ==
  \/ /\ At(c, op, "start")
     /\ Check(c, Then(requireCustomDomain(in(c).id), LAMBDA e : Require(e, accepted, "validation")),
              "write", readDomain(in(c).id))
  \/ /\ At(c, op, "write")
     /\ Finish(c, Pg!updateCustomDomain(db, in(c).id, [loc(c) EXCEPT !.status = status, !.tls = tls]))

verifyCustomDomainOwnership(c) ==
  updateDomain(c, "verifyCustomDomainOwnership", in(c).txt, "verified", loc(c).tls)

requestCustomDomainTlsProvisioning(c) ==
  updateDomain(c, "requestCustomDomainTlsProvisioning",
    readDomain(in(c).id).status \in {"verified", "tls_failed", "active"}, "tls_pending", "pending")

completeCustomDomainTlsProvisioning(c) ==
  updateDomain(c, "completeCustomDomainTlsProvisioning", TRUE,
    IF in(c).ok THEN "active" ELSE "tls_failed", IF in(c).ok THEN "provisioned" ELSE "failed")

RoutingNext(c) ==
  \/ createArtifact(c) \/ createSecret(c) \/ updateSecretValue(c) \/ deleteSecret(c)
  \/ createKvNamespace(c) \/ deleteKvNamespace(c)
  \/ createDurableObjectNamespace(c) \/ deleteDurableObjectNamespace(c)
  \/ createDeployment(c) \/ pointRoute(c) \/ startRouteCanary(c) \/ rollbackRoute(c)
  \/ analyzeRouteCanary(c) \/ createRouteSnapshot(c)
  \/ createDeployPreview(c) \/ rollbackDeployPreview(c)
  \/ createCustomDomain(c) \/ deleteCustomDomain(c) \/ verifyCustomDomainOwnership(c)
  \/ requestCustomDomainTlsProvisioning(c) \/ completeCustomDomainTlsProvisioning(c)
=============================================================================
