-------------------------- MODULE ControlPlaneService --------------------------
(***************************************************************************)
(* The synchronous control plane (service.ts over SQLite) as a machine:    *)
(* it takes one request at a time and answers it before the next.  It is   *)
(* also the specification of the asynchronous control plane when a single  *)
(* caller uses it.                                                         *)
(***************************************************************************)
EXTENDS BillingService, RoutingService, FleetService

CONSTANT Requests   \* the requests clients make

VARIABLES db,        \* the database
          answered   \* the requests answered, with their outcome

(* The method of ControlPlaneService a request calls. *)
Serve(d, r) ==
  CASE r.op = "createOrganization" -> createOrganization(d, r)
    [] r.op = "updateOrganizationBilling" -> updateOrganizationBilling(d, r)
    [] r.op = "createUser" -> createUser(d, r)
    [] r.op = "verifyUserEmail" -> verifyUserEmail(d, r)
    [] r.op = "createProject" -> createProject(d, r)
    [] r.op = "addProjectMembership" -> addProjectMembership(d, r)
    [] r.op = "updateProjectMembershipRole" -> updateProjectMembershipRole(d, r)
    [] r.op = "removeProjectMembership" -> removeProjectMembership(d, r)
    [] r.op = "acceptProjectMembershipInvite" -> acceptProjectMembershipInvite(d, r)
    [] r.op = "requestProductionQuotaIncrease" -> requestProductionQuotaIncrease(d, r)
    [] r.op = "createApiKey" -> createApiKey(d, r)
    [] r.op = "revokeApiKey" -> revokeApiKey(d, r)
    [] r.op = "rotateApiKey" -> rotateApiKey(d, r)
    [] r.op = "authenticateApiToken" -> authenticateApiToken(d, r)
    [] r.op = "createBetaOnboarding" -> createBetaOnboarding(d, r)
    [] r.op = "recordUsageEvent" -> recordUsageEvent(d, r)
    [] r.op = "issueOrganizationBillingInvoice" -> issueOrganizationBillingInvoice(d, r)
    [] r.op = "deliverPendingBillingWebhooks" -> deliverPendingBillingWebhooks(d, r)
    [] r.op = "createBillingInvoiceAdjustment" -> createBillingInvoiceAdjustment(d, r)
    [] r.op = "setBillingInvoiceRetentionPolicy" -> setBillingInvoiceRetentionPolicy(d, r)
    [] r.op = "pruneBillingInvoices" -> pruneBillingInvoices(d, r)
    [] r.op = "createArtifact" -> createArtifact(d, r)
    [] r.op = "createSecret" -> createSecret(d, r)
    [] r.op = "updateSecretValue" -> updateSecretValue(d, r)
    [] r.op = "deleteSecret" -> deleteSecret(d, r)
    [] r.op = "createKvNamespace" -> createKvNamespace(d, r)
    [] r.op = "deleteKvNamespace" -> deleteKvNamespace(d, r)
    [] r.op = "createDurableObjectNamespace" -> createDurableObjectNamespace(d, r)
    [] r.op = "deleteDurableObjectNamespace" -> deleteDurableObjectNamespace(d, r)
    [] r.op = "createDeployment" -> createDeployment(d, r)
    [] r.op = "pointRoute" -> pointRoute(d, r)
    [] r.op = "startRouteCanary" -> startRouteCanary(d, r)
    [] r.op = "rollbackRoute" -> rollbackRoute(d, r)
    [] r.op = "analyzeRouteCanary" -> analyzeRouteCanary(d, r)
    [] r.op = "createRouteSnapshot" -> createRouteSnapshot(d, r)
    [] r.op = "createDeployPreview" -> createDeployPreview(d, r)
    [] r.op = "rollbackDeployPreview" -> rollbackDeployPreview(d, r)
    [] r.op = "createCustomDomain" -> createCustomDomain(d, r)
    [] r.op = "deleteCustomDomain" -> deleteCustomDomain(d, r)
    [] r.op = "verifyCustomDomainOwnership" -> verifyCustomDomainOwnership(d, r)
    [] r.op = "requestCustomDomainTlsProvisioning" -> requestCustomDomainTlsProvisioning(d, r)
    [] r.op = "completeCustomDomainTlsProvisioning" -> completeCustomDomainTlsProvisioning(d, r)
    [] r.op = "registerRuntimeNode" -> registerRuntimeNode(d, r)
    [] r.op = "recordRuntimeNodeHeartbeat" -> recordRuntimeNodeHeartbeat(d, r)
    [] r.op = "updateRuntimeNodeStatus" -> updateRuntimeNodeStatus(d, r)
    [] r.op = "cleanupRuntimeNodes" -> cleanupRuntimeNodes(d, r)
    [] r.op = "listActiveRuntimeNodes" -> listActiveRuntimeNodes(d, r)
    [] r.op = "recordRouteSnapshotPublication" -> recordRouteSnapshotPublication(d, r)
    [] r.op = "createEdgeWorkerRelease" -> createEdgeWorkerRelease(d, r)
    [] r.op = "deleteEdgeWorkerRelease" -> deleteEdgeWorkerRelease(d, r)
    [] r.op = "deliverPendingEdgeWorkerReleaseOperations" -> deliverPendingEdgeWorkerReleaseOperations(d, r)

(* The request is served and is, with its outcome, among those answered. *)
Answer(r) ==
  /\ \E a \in answered' : a.req = r
  /\ LET s == Serve(db, r) IN
     /\ db' = s.db
     /\ answered' = answered \union {[req |-> r, out |-> s.out]}

Init == answered = {}

Next == \E r \in Requests : Answer(r)

Spec == Init /\ [][Next]_<<db, answered>>
=============================================================================
