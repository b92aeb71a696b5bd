------------------------------ MODULE HttpRoutes ------------------------------
(***************************************************************************)
(* The routing table of http/app.ts: which handler a request reaches.      *)
(*                                                                         *)
(* A request has a method, a path (the sequence of its segments) and a     *)
(* body.  Each ...Match function of the code is one pattern, in which ":"  *)
(* stands for any one segment; the handlers are listed in the order the    *)
(* code tries them, each with the operation it calls and the status it     *)
(* answers with when the operation succeeds.                               *)
(***************************************************************************)
EXTENDS Integers, Sequences, FiniteSets

On(r, methods, pattern) ==
  /\ r.method \in methods
  /\ Len(r.path) = Len(pattern)
  /\ \A n \in DOMAIN pattern : pattern[n] \in {":", r.path[n]}

localArtifactMatch(r) == On(r, {"GET"}, <<"artifacts", "local", ":">>)
runtimeNodeHeartbeatMatch(r) == On(r, {"POST"}, <<"runtime-nodes", ":", "heartbeat">>)
runtimeNodeStatusMatch(r) == On(r, {"PATCH"}, <<"runtime-nodes", ":", "status">>)
runtimeNodeLogsMatch(r) == On(r, {"GET"}, <<"runtime-nodes", ":", "logs">>)
projectSecretsMatch(r) == On(r, {"GET"}, <<"projects", ":", "secrets">>)
projectQuotaUsageMatch(r) == On(r, {"GET"}, <<"projects", ":", "quota-usage">>)
projectUsageMatch(r) == On(r, {"GET"}, <<"projects", ":", "usage">>)
projectEnforcementReportMatch(r) == On(r, {"GET"}, <<"projects", ":", "enforcement-report">>)
projectUsageQuotaReportMatch(r) == On(r, {"GET"}, <<"projects", ":", "usage-quota">>)
projectBillingStatementMatch(r) == On(r, {"GET"}, <<"projects", ":", "billing-statement">>)
projectBillingBudgetMatch(r) == On(r, {"GET"}, <<"projects", ":", "billing-budget">>)
organizationBillingProfileMatch(r) == On(r, {"PUT"}, <<"organizations", ":", "billing">>)
productionQuotaIncreaseMatch(r) == On(r, {"POST"}, <<"organizations", ":", "production-quota-increases">>)
organizationBillingStatementMatch(r) == On(r, {"GET"}, <<"organizations", ":", "billing-statement">>)
organizationCustomerAuditEventsMatch(r) == On(r, {"GET"}, <<"organizations", ":", "audit-events">>)
organizationBillingInvoicesMatch(r) == On(r, {"POST"}, <<"organizations", ":", "billing-invoices">>)
listOrganizationBillingInvoicesMatch(r) == On(r, {"GET"}, <<"organizations", ":", "billing-invoices">>)
billingInvoiceMatch(r) == On(r, {"GET"}, <<"billing-invoices", ":">>)
billingInvoiceRetentionPolicyMatch(r) == On(r, {"GET", "PUT"}, <<"billing-invoices", ":", "retention-policy">>)
billingInvoiceExportMatch(r) == On(r, {"GET"}, <<"billing-invoices", ":", "export">>)
projectCustomDomainsMatch(r) == On(r, {"GET"}, <<"projects", ":", "custom-domains">>)
projectDeployPreviewsMatch(r) == On(r, {"GET"}, <<"projects", ":", "deploy-previews">>)
projectEdgeWorkerReleasesMatch(r) == On(r, {"GET"}, <<"projects", ":", "edge-worker-releases">>)
edgeWorkerReleaseMatch(r) == On(r, {"GET", "DELETE"}, <<"edge-workers", "releases", ":">>)
edgeWorkerReleaseOperationsMatch(r) == On(r, {"GET"}, <<"edge-workers", "releases", ":", "operations">>)
deployPreviewRollbackMatch(r) == On(r, {"POST"}, <<"deploy-previews", ":", "rollback">>)
customDomainVerifyMatch(r) == On(r, {"POST"}, <<"custom-domains", ":", "verify">>)
customDomainMatch(r) == On(r, {"DELETE"}, <<"custom-domains", ":">>)
customDomainTlsMatch(r) == On(r, {"POST"}, <<"custom-domains", ":", "tls">>)
customDomainTlsCompleteMatch(r) == On(r, {"POST"}, <<"custom-domains", ":", "tls", "complete">>)
userEmailVerificationMatch(r) == On(r, {"POST"}, <<"users", ":", "verify-email">>)
projectMembershipsMatch(r) == On(r, {"GET", "POST"}, <<"projects", ":", "memberships">>)
projectMembershipInviteAcceptanceMatch(r) == On(r, {"POST"}, <<"projects", ":", "memberships", ":", "accept">>)
projectMembershipMatch(r) == On(r, {"PATCH", "DELETE"}, <<"projects", ":", "memberships", ":">>)
projectApiKeysMatch(r) == On(r, {"GET"}, <<"projects", ":", "api-keys">>)
apiKeyRevokeMatch(r) == On(r, {"POST"}, <<"api-keys", ":", "revoke">>)
apiKeyRotateMatch(r) == On(r, {"POST"}, <<"api-keys", ":", "rotate">>)
projectSettingsMatch(r) == On(r, {"GET"}, <<"projects", ":", "settings">>)
projectCustomerAuditEventsMatch(r) == On(r, {"GET"}, <<"projects", ":", "audit-events">>)
projectSqliteDatabasesMatch(r) == On(r, {"GET", "POST"}, <<"projects", ":", "sqlite-databases">>)
sqliteDatabaseMatch(r) == On(r, {"GET"}, <<"sqlite-databases", ":">>)
sqliteDatabaseBackupsMatch(r) == On(r, {"GET", "POST"}, <<"sqlite-databases", ":", "backups">>)
sqliteDatabaseBackupsGcMatch(r) == On(r, {"POST"}, <<"sqlite-databases", ":", "backups", "gc">>)
sqliteDatabaseRestoresMatch(r) == On(r, {"POST"}, <<"sqlite-databases", ":", "restores">>)
secretMatch(r) == On(r, {"GET", "PUT", "DELETE"}, <<"secrets", ":">>)
projectKvNamespacesMatch(r) == On(r, {"GET"}, <<"projects", ":", "kv-namespaces">>)
kvNamespaceMatch(r) == On(r, {"GET", "DELETE"}, <<"kv-namespaces", ":">>)
projectDurableObjectNamespacesMatch(r) == On(r, {"GET"}, <<"projects", ":", "durable-object-namespaces">>)
alarmDemoObjectMatch(r) == On(r, {"GET"}, <<"alarm-demo", "objects", ":">>)
durableObjectNamespaceMatch(r) == On(r, {"GET", "DELETE"}, <<"durable-object-namespaces", ":">>)

-----------------------------------------------------------------------------
(* A handler: the condition of its if, its operation and its status. *)
H(when, op, status) == [when |-> when, op |-> op, status |-> status]
Is(r, method, path) == r.method = method /\ r.path = path

ConsoleHandlers(r) == <<
  H(Is(r, "GET", <<"ops", "config">>), "operationalConfig", 200),
  H(Is(r, "GET", <<"admin">>), "renderAdminPage", 200),
  H(projectSettingsMatch(r), "renderProjectSettingsPage", 200),
  H(projectCustomerAuditEventsMatch(r), "listProjectCustomerAuditEvents", 200),
  H(Is(r, "POST", <<"admin", "routes", "canary">>), "startRouteCanary", 303),
  H(Is(r, "POST", <<"admin", "routes", "rollback">>), "rollbackRoute", 303),
  H(Is(r, "POST", <<"admin", "runtime-nodes", "status">>), "updateRuntimeNodeStatus", 303),
  H(Is(r, "POST", <<"admin", "runtime-nodes", "gc">>), "cleanupRuntimeNodes", 303)>>

OrganizationHandlers(r) == <<
  H(Is(r, "POST", <<"organizations">>), "createOrganization", 201),
  H(productionQuotaIncreaseMatch(r), "requestProductionQuotaIncrease", 201),
  H(organizationBillingProfileMatch(r), "updateOrganizationBilling", 200),
  H(organizationBillingStatementMatch(r), "getOrganizationBillingStatement", 200),
  H(organizationCustomerAuditEventsMatch(r), "listOrganizationCustomerAuditEvents", 200),
  H(listOrganizationBillingInvoicesMatch(r), "listOrganizationBillingInvoices", 200),
  H(organizationBillingInvoicesMatch(r), "issueOrganizationBillingInvoice", 201)>>

AccountHandlers(r) == <<
  H(Is(r, "POST", <<"users">>), "createUser", 201),
  H(userEmailVerificationMatch(r), "verifyUserEmail", 200),
  H(Is(r, "POST", <<"api-keys">>), "createApiKey", 201),
  H(apiKeyRevokeMatch(r), "revokeApiKey", 200),
  H(apiKeyRotateMatch(r), "rotateApiKey", 200),
  H(Is(r, "POST", <<"beta", "onboardings">>), "createBetaOnboarding", 201),
  H(Is(r, "POST", <<"usage", "events">>), "recordUsageEvent", 201),
  H(Is(r, "POST", <<"custom-domains">>), "createCustomDomain", 201),
  H(Is(r, "POST", <<"deploy-previews">>), "createDeployPreview", 201),
  H(Is(r, "POST", <<"edge-workers", "releases">>), "createEdgeWorkerRelease", 201),
  H(Is(r, "POST", <<"projects">>), "createProject", 201)>>

ReleaseHandlers(r) == <<
  H(projectCustomDomainsMatch(r), "listProjectCustomDomains", 200),
  H(projectDeployPreviewsMatch(r), "listProjectDeployPreviews", 200),
  H(projectEdgeWorkerReleasesMatch(r), "listProjectEdgeWorkerReleases", 200),
  H(edgeWorkerReleaseMatch(r) /\ r.method = "GET", "getEdgeWorkerRelease", 200),
  H(edgeWorkerReleaseMatch(r) /\ r.method = "DELETE", "deleteEdgeWorkerRelease", 200),
  H(edgeWorkerReleaseOperationsMatch(r), "listEdgeWorkerReleaseOperations", 200),
  H(Is(r, "POST", <<"edge-workers", "releases", "operations", "deliver">>),
    "deliverPendingEdgeWorkerReleaseOperations", 200),
  H(deployPreviewRollbackMatch(r), "rollbackDeployPreview", 200)>>

DomainHandlers(r) == <<
  H(customDomainMatch(r), "deleteCustomDomain", 200),
  H(customDomainVerifyMatch(r), "verifyCustomDomainOwnership", 200),
  H(customDomainTlsMatch(r), "requestCustomDomainTlsProvisioning", 200),
  H(customDomainTlsCompleteMatch(r), "completeCustomDomainTlsProvisioning", 200)>>

MembershipHandlers(r) == <<
  H(projectMembershipInviteAcceptanceMatch(r), "acceptProjectMembershipInvite", 200),
  H(projectMembershipMatch(r) /\ r.method = "PATCH", "updateProjectMembershipRole", 200),
  H(projectMembershipMatch(r) /\ r.method = "DELETE", "removeProjectMembership", 200),
  H(projectMembershipsMatch(r) /\ r.method = "POST", "addProjectMembership", 201),
  H(projectMembershipsMatch(r) /\ r.method = "GET", "listProjectMemberships", 200),
  H(projectApiKeysMatch(r), "listProjectApiKeys", 200)>>

SqliteHandlers(r) == <<
  H(projectSqliteDatabasesMatch(r) /\ r.method = "POST", "ensureDatabase", 201),
  H(projectSqliteDatabasesMatch(r) /\ r.method = "GET", "listDatabases", 200),
  H(sqliteDatabaseBackupsGcMatch(r), "pruneBackups", 200),
  H(sqliteDatabaseBackupsMatch(r) /\ r.method = "POST", "exportDatabase", 201),
  H(sqliteDatabaseBackupsMatch(r) /\ r.method = "GET", "listBackups", 200),
  H(sqliteDatabaseRestoresMatch(r), "restoreDatabase", 200),
  H(sqliteDatabaseMatch(r), "getDatabase", 200),
  H(Is(r, "GET", <<"sqlite-databases">>), "listDatabases", 200)>>

UsageHandlers(r) == <<
  H(projectQuotaUsageMatch(r), "getProjectUsage", 200),
  H(projectUsageMatch(r), "getProjectUsageSummary", 200),
  H(projectEnforcementReportMatch(r), "getProjectEnforcementReport", 200),
  H(projectUsageQuotaReportMatch(r), "getProjectUsageQuotaReport", 200),
  H(projectBillingStatementMatch(r), "getProjectBillingStatement", 200),
  H(projectBillingBudgetMatch(r), "getProjectBillingBudgetReport", 200)>>

InvoiceHandlers(r) == <<
  H(Is(r, "POST", <<"artifacts">>), "createArtifact", 201),
  H(billingInvoiceRetentionPolicyMatch(r) /\ r.method = "GET", "getBillingInvoiceRetentionPolicy", 200),
  H(billingInvoiceRetentionPolicyMatch(r) /\ r.method = "PUT", "setBillingInvoiceRetentionPolicy", 200),
  H(Is(r, "POST", <<"billing-invoices", "retention", "prune">>), "pruneBillingInvoices", 200),
  H(billingInvoiceMatch(r), "getBillingInvoice", 200),
  H(billingInvoiceExportMatch(r), "exportBillingInvoice", 200),
  H(Is(r, "POST", <<"artifacts", "local">>), "uploadArtifact", 201)>>

SecretHandlers(r) == <<
  H(Is(r, "POST", <<"secrets">>), "createSecret", 201),
  H(projectSecretsMatch(r), "listProjectSecrets", 200),
  H(secretMatch(r) /\ r.method = "GET", "getSecret", 200),
  H(secretMatch(r) /\ r.method = "PUT", "updateSecretValue", 200),
  H(secretMatch(r) /\ r.method = "DELETE", "deleteSecret", 204),
  H(Is(r, "POST", <<"kv-namespaces">>), "createKvNamespace", 201),
  H(projectKvNamespacesMatch(r), "listProjectKvNamespaces", 200),
  H(kvNamespaceMatch(r) /\ r.method = "GET", "getKvNamespace", 200),
  H(kvNamespaceMatch(r) /\ r.method = "DELETE", "deleteKvNamespace", 204)>>

ObjectHandlers(r) == <<
  H(Is(r, "POST", <<"alarm-demo", "schedules">>), "scheduleAlarmDemo", 201),
  H(alarmDemoObjectMatch(r), "readAlarmDemoStatus", 200),
  H(Is(r, "POST", <<"durable-object-namespaces">>), "createDurableObjectNamespace", 201),
  H(projectDurableObjectNamespacesMatch(r), "listProjectDurableObjectNamespaces", 200),
  H(durableObjectNamespaceMatch(r) /\ r.method = "GET", "getDurableObjectNamespace", 200),
  H(durableObjectNamespaceMatch(r) /\ r.method = "DELETE", "deleteDurableObjectNamespace", 204)>>

DeploymentHandlers(r) == <<
  H(Is(r, "POST", <<"deployments">>), "createDeployment", 201),
  H(Is(r, "PUT", <<"routes">>), "pointRoute", 200),
  H(Is(r, "POST", <<"routes", "canary">>), "startRouteCanary", 200),
  H(Is(r, "POST", <<"routes", "canary", "analyze">>), "analyzeRouteCanary", 200),
  H(Is(r, "POST", <<"routes", "rollback">>), "rollbackRoute", 200),
  H(Is(r, "GET", <<"canary-decisions">>), "listCanaryDecisions", 200)>>

NodeHandlers(r) == <<
  H(Is(r, "POST", <<"runtime-nodes">>), "registerRuntimeNode", 201),
  H(runtimeNodeHeartbeatMatch(r), "recordRuntimeNodeHeartbeat", 200),
  H(runtimeNodeStatusMatch(r), "updateRuntimeNodeStatus", 200),
  H(Is(r, "POST", <<"runtime-nodes", "gc">>), "cleanupRuntimeNodes", 200),
  H(Is(r, "GET", <<"runtime-nodes">>), "listRuntimeNodes", 200),
  H(Is(r, "GET", <<"autoscaling", "signals">>), "runtimeSaturationSignals", 200),
  H(runtimeNodeLogsMatch(r), "readRuntimeNodeLogs", 200)>>

SnapshotHandlers(r) == <<
  H(Is(r, "GET", <<"snapshots", "routes">>), "createRouteSnapshot", 200),
  H(Is(r, "POST", <<"snapshots", "routes", "publish">>), "publishCurrentRouteSnapshot", 200),
  H(Is(r, "GET", <<"snapshots", "routes", "publishes">>), "listRouteSnapshotPublications", 200),
  H(Is(r, "PUT", <<"replication", "snapshots", "routes">>), "applyReplicatedRouteSnapshot", 200),
  H(Is(r, "GET", <<"replication", "snapshots", "routes">>), "readReplicatedRouteSnapshot", 200)>>

Handlers(r) ==
  ConsoleHandlers(r) \o OrganizationHandlers(r) \o AccountHandlers(r) \o ReleaseHandlers(r)
    \o DomainHandlers(r) \o MembershipHandlers(r) \o SqliteHandlers(r) \o UsageHandlers(r)
    \o InvoiceHandlers(r) \o SecretHandlers(r) \o ObjectHandlers(r) \o DeploymentHandlers(r)
    \o NodeHandlers(r) \o SnapshotHandlers(r)

(* The places of the handlers whose condition holds. *)
Fits(r) == LET handlers == Handlers(r) IN {n \in DOMAIN handlers : handlers[n].when}

(* The first handler whose condition holds; none is a 404. *)
Dispatch(r) ==
  IF Fits(r) = {} THEN H(FALSE, "none", 404)
  ELSE Handlers(r)[CHOOSE n \in Fits(r) : \A m \in Fits(r) : n <= m]
=============================================================================
