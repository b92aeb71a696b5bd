-------------------------- MODULE SqliteRepository ----------------------------
(***************************************************************************)
(* repository.ts: the SQLite repository of the synchronous control plane.  *)
(* Every statement runs to its end before the event loop turns.            *)
(***************************************************************************)
EXTENDS ControlPlaneDb

createOrganization(d, i) ==
  Insert(d, "organizations", i.id, [name |-> i.name, payment |-> i.payment, email |-> i.email])

updateOrganizationBilling(d, id, profile) ==
  Then(SetColumn(d, "organizations", id, "payment", profile.payment), LAMBDA e :
       SetColumn(e, "organizations", id, "email", profile.email))

createUser(d, i) == Insert(d, "users", i.id, [email |-> i.email, verified |-> i.verified])

updateUserEmailVerification(d, id) == SetColumn(d, "users", id, "verified", TRUE)

createProject(d, i) == Insert(d, "projects", i.id, [name |-> i.name, org |-> i.org])

createProjectMembership(d, p, u, role) ==
  Upsert(d, "memberships", <<p, u>>, [project |-> p, user |-> u, role |-> role, invite |-> "pending"])

acceptProjectMembershipInvite(d, p, u) == SetColumn(d, "memberships", <<p, u>>, "invite", "accepted")

updateProjectMembershipRole(d, p, u, role) == SetColumn(d, "memberships", <<p, u>>, "role", role)

deleteProjectMembership(d, p, u) == Delete(d, "memberships", <<p, u>>)

createApiKey(d, id, org, project) ==
  Insert(d, "apiKeys", id, [org |-> org, project |-> project, revoked |-> FALSE, used |-> FALSE])

updateApiKeyLastUsed(d, id) == SetColumn(d, "apiKeys", id, "used", TRUE)

revokeApiKey(d, id) == SetColumn(d, "apiKeys", id, "revoked", TRUE)

(* begin ... commit, with a rollback on any error *)
rotateApiKey(d, id, replacement) ==
  IF ~Has(d.apiKeys, id) THEN Fail(d, "not_found")
  ELSE IF d.apiKeys[id].revoked THEN Fail(d, "validation")
  ELSE Then(createApiKey(d, replacement, d.apiKeys[id].org, d.apiKeys[id].project),
            LAMBDA e : revokeApiKey(e, id))

createProductionQuotaIncrease(d, i) ==
  Insert(d, "increases", i.id, [org |-> i.org, project |-> i.project])

createCustomerAuditEvent(d, event) ==
  IF OptionalKey(d.organizations, event.org) /\ OptionalKey(d.projects, event.project)
  THEN Ok([d EXCEPT !.audit = @ \union {event}]) ELSE Fail(d, "validation")
-----------------------------------------------------------------------------
createUsageEvent(d, i) ==
  Insert(d, "usage", i.id, [project |-> i.project, quantity |-> i.quantity, at |-> i.at])

createBillingInvoice(d, id, invoice) == Insert(d, "invoices", id, invoice)

(* One transaction removes the invoice and every record that hangs on it. *)
deleteBillingInvoice(d, id) ==
  LET without(t, gone) == [x \in DOMAIN t \ gone |-> t[x]] IN
  IF ~Has(d.invoices, id) THEN Fail(d, "not_found")
  ELSE Ok([d EXCEPT
         !.adjustments = without(@, {a \in DOMAIN @ : @[a].invoice = id}),
         !.policies = without(@, {id}),
         !.webhooks = without(@, {w \in DOMAIN @ : w[1] = id}),
         !.invoices = without(@, {id})])

(* A delivery is identified by its idempotency key: invoice and digest. *)
createBillingWebhookDelivery(d, key) ==
  Insert(d, "webhooks", key, [status |-> "pending", attempts |-> 0, next |-> 0])

updateBillingWebhookDelivery(d, key, delivery) == Update(d, "webhooks", key, delivery)

createBillingInvoiceAdjustment(d, id, invoice) == Insert(d, "adjustments", id, [invoice |-> invoice])

upsertBillingInvoiceRetentionPolicy(d, i) ==
  Upsert(d, "policies", i.invoice, [invoice |-> i.invoice, until |-> i.until, hold |-> i.hold])
-----------------------------------------------------------------------------
(* A domain's row holds what updateCustomDomain writes back, and its owner. *)
createCustomDomain(d, i) ==
  Insert(d, "domains", i.id, [project |-> i.project, host |-> i.host,
                              status |-> "pending_verification", tls |-> "none"])

updateCustomDomain(d, id, domain) == Update(d, "domains", id, domain)

deleteCustomDomain(d, id) == Delete(d, "domains", id)

createDeployPreview(d, id, preview) == Insert(d, "previews", id, preview)

updateDeployPreview(d, id, status) == SetColumn(d, "previews", id, "status", status)

createArtifact(d, id, artifact) == Insert(d, "artifacts", id, artifact)

createSecret(d, i) ==
  Insert(d, "secrets", i.id, [project |-> i.project, name |-> i.name, value |-> i.value])
updateSecretValue(d, id, value) == SetColumn(d, "secrets", id, "value", value)
deleteSecret(d, id) == Delete(d, "secrets", id)

createKvNamespace(d, i) == Insert(d, "kvNamespaces", i.id, [project |-> i.project, name |-> i.name])
deleteKvNamespace(d, id) == Delete(d, "kvNamespaces", id)

createDurableObjectNamespace(d, i) ==
  Insert(d, "doNamespaces", i.id, [project |-> i.project, name |-> i.name])
deleteDurableObjectNamespace(d, id) == Delete(d, "doNamespaces", id)

createDeployment(d, id, deployment) == Insert(d, "deployments", id, deployment)

(* on conflict (project_id, host, path_prefix) do update *)
upsertRoute(d, project, host, targets) ==
  Upsert(d, "routes", <<project, host>>, [project |-> project, host |-> host,
                                          deployment |-> targets[1].deployment, targets |-> targets])

deleteRoute(d, project, host) == Ok([d EXCEPT !.routes = Drop(@, <<project, host>>)])

createCanaryDecision(d, decision) ==
  IF Has(d.projects, decision.project)
  THEN Ok([d EXCEPT !.decisions = @ \union {decision}]) ELSE Fail(d, "validation")
-----------------------------------------------------------------------------
createRuntimeNode(d, id, node) == Insert(d, "nodes", id, node)

(* The row is written back as the heartbeat read it, but for the url. *)
updateRuntimeNodeHeartbeat(d, id, node) ==
  IF Has(d.nodes, id)
  THEN Ok([d EXCEPT !.nodes[id] = [node EXCEPT !.url = d.nodes[id].url]]) ELSE Fail(d, "not_found")

updateRuntimeNodeStatus(d, id, status) == SetColumn(d, "nodes", id, "status", status)

deleteRuntimeNode(d, id) == Delete(d, "nodes", id)

createRouteSnapshotPublication(d, publication) ==
  Ok([d EXCEPT !.publications = @ \union {publication}])

createEdgeWorkerRelease(d, id, release) == Insert(d, "releases", id, release)

updateEdgeWorkerRelease(d, id, status) == SetColumn(d, "releases", id, "status", status)

createEdgeWorkerReleaseOperation(d, id, operation) == Insert(d, "operations", id, operation)

listPendingEdgeWorkerReleaseOperations(d, now) ==
  {o \in DOMAIN d.operations : d.operations[o].status = "pending" /\ d.operations[o].next <= now}

updateEdgeWorkerReleaseOperation(d, id, operation) == Update(d, "operations", id, operation)
=============================================================================
