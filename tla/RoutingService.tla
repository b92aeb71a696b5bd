---------------------------- MODULE RoutingService ----------------------------
(***************************************************************************)
(* service.ts: artifacts, secrets, namespaces, deployments, routes,        *)
(* canaries, previews and custom domains of the synchronous control plane. *)
(***************************************************************************)
EXTENDS TenancyService, RoutingRules

(* The checks of a creation that a quota limits. *)
enforceQuota(d, project, resource) ==
  Provided(requireProject(d, project), enforceProjectQuota(d, project, resource))

createArtifact(d, i) ==
  LET artifact == [project |-> i.project, digest |-> i.digest, size |-> i.size, signature |-> i.signature] IN
  Provided(enforceQuota(d, i.project, "artifacts"),
  Provided(Require(d, enforceArtifactAdmissionPolicy(artifact), "validation"),
    R!createArtifact(d, i.id, artifact)))

requireSecret(d, id) == Require(d, Has(d.secrets, id), "not_found")
createSecret(d, i) == Provided(enforceQuota(d, i.project, "secrets"), R!createSecret(d, i))
updateSecretValue(d, i) == Provided(requireSecret(d, i.id), R!updateSecretValue(d, i.id, i.value))
deleteSecret(d, i) == Provided(requireSecret(d, i.id), R!deleteSecret(d, i.id))

createKvNamespace(d, i) ==
  Provided(enforceQuota(d, i.project, "kvNamespaces"), R!createKvNamespace(d, i))
deleteKvNamespace(d, i) ==
  Provided(Require(d, Has(d.kvNamespaces, i.id), "not_found"), R!deleteKvNamespace(d, i.id))

createDurableObjectNamespace(d, i) ==
  Provided(enforceQuota(d, i.project, "doNamespaces"), R!createDurableObjectNamespace(d, i))
deleteDurableObjectNamespace(d, i) ==
  Provided(Require(d, Has(d.doNamespaces, i.id), "not_found"), R!deleteDurableObjectNamespace(d, i.id))

-----------------------------------------------------------------------------
requireArtifact(d, id) == Require(d, Has(d.artifacts, id), "not_found")
requireDeployment(d, id) == Require(d, Has(d.deployments, id), "not_found")

requireOwn(d, table, ids, project) ==
  Require(d, \A id \in ids : Has(d[table], id) /\ d[table][id].project = project, "validation")
requireDeploymentKvNamespaces(d, i) == requireOwn(d, "kvNamespaces", i.capabilities.kv, i.project)
requireDeploymentDurableObjectNamespaces(d, i) == requireOwn(d, "doNamespaces", i.capabilities.do, i.project)
requireDeploymentSecrets(d, i) == requireOwn(d, "secrets", i.capabilities.secrets, i.project)
requireDeploymentServiceBindings(d, i) ==
  Require(d, \A s \in i.capabilities.services : Has(d.projects, s.project), "validation")

auditDeployment(d, i) ==
  recordCustomerAuditEvent(d, "deployment.created", i.id, d.projects[i.project].org, i.project)

createDeployment(d, i) ==
  LET artifact == d.artifacts[i.artifact] IN
  Provided(enforceQuota(d, i.project, "deployments"),
  Provided(requireArtifact(d, i.artifact),
  Provided(Require(d, /\ artifact.project = i.project
                      /\ SignatureKeys # None => verifyArtifactSignature(artifact)
                      /\ enforceDeploymentAdmissionPolicy(artifact, i.world, i.capabilities),
                   "validation"),
  Provided(requireDeploymentKvNamespaces(d, i),
  Provided(requireDeploymentDurableObjectNamespaces(d, i),
  Provided(requireDeploymentSecrets(d, i),
  Provided(requireDeploymentServiceBindings(d, i),
    Then(R!createDeployment(d, i.id, [project |-> i.project, artifact |-> i.artifact,
                                      capabilities |-> i.capabilities]), LAMBDA e :
         auditDeployment(e, i)))))))))

-----------------------------------------------------------------------------
requireProjectDeployment(d, project, deployment) ==
  Provided(requireProject(d, project),
  Provided(requireDeployment(d, deployment),
    Require(d, d.deployments[deployment].project = project, "validation")))

enforceRouteCustomDomain(d, project, host) ==
  Require(d, \A x \in DOMAIN d.domains : d.domains[x].host = host =>
               d.domains[x].project = project /\ d.domains[x].status = "active", "validation")

currentTargets(d, i) == IF Has(d.routes, <<i.project, i.host>>) THEN d.routes[<<i.project, i.host>>].targets ELSE None

(* What a route needs before it is written: a domain that allows it and, *)
(* when it is new, the quota.                                            *)
checkRoute(d, i) ==
  Provided(enforceRouteCustomDomain(d, i.project, i.host),
    IF currentTargets(d, i) = None THEN enforceProjectQuota(d, i.project, "routes") ELSE Ok(d))

auditRoute(d, i) ==
  recordCustomerAuditEvent(d, "route.pointed", i.host, d.projects[i.project].org, i.project)

pointRoute(d, i) ==
  Provided(requireProject(d, i.project),
  Provided(Require(d, normalizeRouteTargets(i.targets), "validation"),
  Provided(requireTargets(d, i.project, i.targets),
  Provided(checkRoute(d, i),
    Then(R!upsertRoute(d, i.project, i.host, i.targets), LAMBDA e : auditRoute(e, i))))))

requireRoute(d, i) ==
  Provided(requireProject(d, i.project),
    Require(d, Has(d.routes, <<i.project, i.host>>), "not_found"))
stableDeployment(d, i) == d.routes[<<i.project, i.host>>].targets[1].deployment

startRouteCanary(d, i) ==
  Provided(requireRoute(d, i),
  Provided(requireProjectDeployment(d, i.project, i.deployment),
  Provided(Require(d, stableDeployment(d, i) # i.deployment /\ canaryWeight(i.weight), "validation"),
    R!upsertRoute(d, i.project, i.host,
      <<[deployment |-> stableDeployment(d, i), weight |-> 100 - i.weight],
        [deployment |-> i.deployment, weight |-> i.weight]>>))))

rollbackRoute(d, i) ==
  LET to == IF i.deployment = None THEN stableDeployment(d, i) ELSE i.deployment IN
  Provided(requireRoute(d, i),
  Provided(requireProjectDeployment(d, i.project, to),
    R!upsertRoute(d, i.project, i.host, WholeRoute(to))))

analyzeRouteCanary(d, i) ==
  LET action == analyzeCanaryEvents(i.events, i.deployment, i.thresholds) IN
  Provided(requireRoute(d, i),
  Provided(requireProjectDeployment(d, i.project, i.deployment),
  Provided(Require(d, \E t \in Range(d.routes[<<i.project, i.host>>].targets) : t.deployment = i.deployment,
                   "validation"),
    Then(R!createCanaryDecision(d, [project |-> i.project, host |-> i.host, stable |-> stableDeployment(d, i),
                                    candidate |-> i.deployment, action |-> action]), LAMBDA e :
         IF action = "rollback"
         THEN R!upsertRoute(e, i.project, i.host, WholeRoute(stableDeployment(e, i))) ELSE Ok(e)))))

createRouteSnapshot(d, i) == Ok([d EXCEPT !.snapshots = Append(@, snapshotRoutes(d))])

-----------------------------------------------------------------------------
createDeployPreview(d, i) ==
  Provided(requireProjectDeployment(d, i.project, i.deployment),
  Provided(checkRoute(d, i),
    Then(R!upsertRoute(d, i.project, i.host, WholeRoute(i.deployment)), LAMBDA e :
         R!createDeployPreview(e, i.id,
           [project |-> i.project, deployment |-> i.deployment, host |-> i.host,
            status |-> "active", previous |-> currentTargets(d, i)]))))

rollbackDeployPreview(d, i) ==
  LET preview == d.previews[i.id] IN
  Provided(Require(d, Has(d.previews, i.id), "not_found"),
    IF preview.status = "rolled_back" THEN Ok(d)
    ELSE Then(IF preview.previous = None THEN R!deleteRoute(d, preview.project, preview.host)
              ELSE R!upsertRoute(d, preview.project, preview.host, preview.previous), LAMBDA e :
              R!updateDeployPreview(e, i.id, "rolled_back")))

-----------------------------------------------------------------------------
requireCustomDomain(d, id) == Require(d, Has(d.domains, id), "not_found")

auditDomain(d, action, id, project) ==
  recordCustomerAuditEvent(d, action, id, d.projects[project].org, project)

createCustomDomain(d, i) ==
  Provided(requireProject(d, i.project),
    Then(R!createCustomDomain(d, i), LAMBDA e : auditDomain(e, "custom_domain.created", i.id, i.project)))

deleteCustomDomain(d, i) ==
  LET domain == d.domains[i.id] IN
  Provided(requireCustomDomain(d, i.id),
  Provided(Require(d, \A r \in DOMAIN d.routes : r[2] # domain.host, "validation"),
    Then(R!deleteCustomDomain(d, i.id), LAMBDA e :
         auditDomain(e, "custom_domain.deleted", i.id, domain.project))))

verifyCustomDomainOwnership(d, i) ==
  Provided(requireCustomDomain(d, i.id),
  Provided(Require(d, i.txt, "validation"),
    R!updateCustomDomain(d, i.id, [d.domains[i.id] EXCEPT !.status = "verified"])))

requestCustomDomainTlsProvisioning(d, i) ==
  Provided(requireCustomDomain(d, i.id),
  Provided(Require(d, d.domains[i.id].status \in {"verified", "tls_failed", "active"}, "validation"),
    R!updateCustomDomain(d, i.id, [d.domains[i.id] EXCEPT !.status = "tls_pending", !.tls = "pending"])))

completeCustomDomainTlsProvisioning(d, i) ==
  Provided(requireCustomDomain(d, i.id),
    R!updateCustomDomain(d, i.id,
      [d.domains[i.id] EXCEPT !.status = IF i.ok THEN "active" ELSE "tls_failed",
                              !.tls = IF i.ok THEN "provisioned" ELSE "failed"]))
=============================================================================
