-------------------------- MODULE ControlPlaneProofs --------------------------
(***************************************************************************)
(* Theorems about the asynchronous control plane (ControlPlane), for every *)
(* number of callers, every workload and any number of processes that die. *)
(*                                                                         *)
(* The operations are many and each writes a few tables: the first part    *)
(* says which (the footprint of a step) and where its call stands after    *)
(* it; the invariants then look only at the operations that write what     *)
(* they are about.  The last part compares the methods of the synchronous  *)
(* control plane (ControlPlaneService, over SQLite) with the statements    *)
(* that an operation is made of here, and the steps of a call that nobody  *)
(* else interrupts with what is left of its method.                        *)
(***************************************************************************)
EXTENDS ControlPlane, FiniteFacts

-----------------------------------------------------------------------------
(* What a step writes.                                                     *)

\* From d to e only the tables of T change.
Touches(d, e, T) == DOMAIN e = DOMAIN d /\ \A t \in DOMAIN d \ T : e[t] = d[t]

IsResult(r) == DOMAIN r = {"out", "db"}

\* r is the result of a statement on d that writes the tables of T.
Writes(d, r, T) == IsResult(r) /\ Touches(d, r.db, T)

\* The call of c goes on, or is answered.
Moves(c) == (\E pc, l : Goto(c, pc, l)) \/ (\E out : Return(c, out))

\* c has made a step of the operation op that wrote the tables of T.
Effect(c, op, T) == call[c].pc # "idle" /\ in(c).op = op /\ Touches(db, db', T) /\ Moves(c)

\* insert, upsert, update and delete write their table.
LEMMA InsertWrites ==
  ASSUME NEW d, NEW t, NEW k, NEW row PROVE Writes(d, Pg!Insert(d, t, k, row), {t})
BY DEF Pg!Insert, Writes, IsResult, Touches, Pg!Ok, Pg!Fail

\* An upsert (Put of a row) writes its table and no other.
LEMMA UpsertWrites ==
  ASSUME NEW d, NEW t, NEW k, NEW row PROVE Writes(d, Pg!Upsert(d, t, k, row), {t})
BY DEF Pg!Upsert, Writes, IsResult, Touches, Pg!Ok, Pg!Fail

\* An UPDATE of one column writes its table and no other.
LEMMA SetColumnWrites ==
  ASSUME NEW d, NEW t, NEW k, NEW column, NEW v PROVE Writes(d, Pg!SetColumn(d, t, k, column, v), {t})
BY DEF Pg!SetColumn, Writes, IsResult, Touches, Pg!Ok, Pg!Fail

\* An UPDATE of a row writes its table and no other.
LEMMA UpdateWrites ==
  ASSUME NEW d, NEW t, NEW k, NEW row PROVE Writes(d, Pg!Update(d, t, k, row), {t})
BY DEF Pg!Update, Writes, IsResult, Touches, Pg!Ok, Pg!Fail

\* A DELETE writes its table and no other.
LEMMA DeleteWrites ==
  ASSUME NEW d, NEW t, NEW k PROVE Writes(d, Pg!Delete(d, t, k), {t})
BY DEF Pg!Delete, Writes, IsResult, Touches, Pg!Ok, Pg!Fail

\* recordCustomerAuditEvent() writes the audit log.
LEMMA AuditWrites ==
  ASSUME NEW action, NEW target, NEW org, NEW project
  PROVE  Writes(db, recordCustomerAuditEvent(db, action, target, org, project), {"audit"})
BY DEF recordCustomerAuditEvent, Then, Require, Ok, Fail, Pg!createCustomerAuditEvent, Pg!Ok, Pg!Fail,
       Writes, IsResult, Touches

\* A check that throws or not writes nothing.
LEMMA RequireResult ==
  ASSUME NEW d, NEW cond, NEW code PROVE IsResult(Require(d, cond, code))
BY DEF Require, Ok, Fail, IsResult

\* The steps a call is made of: what they do to the database, and that the call
\* goes on or is answered.
LEMMA CheckStep ==
  ASSUME NEW c, NEW r, NEW pc, NEW l, IsResult(r), Check(c, r, pc, l) PROVE db' = db /\ Moves(c)
BY DEF Check, Write, IsResult, Moves

\* A statement that the call goes on from leaves the database of its result.
LEMMA WriteStep ==
  ASSUME NEW c, NEW r, NEW pc, NEW l, Write(c, r, pc, l) PROVE db' = r.db /\ Moves(c)
BY DEF Write, Moves

\* The last statement of a call leaves the database of its result.
LEMMA FinishStep == ASSUME NEW c, NEW r, Finish(c, r) PROVE db' = r.db /\ Moves(c)
BY DEF Finish, Moves

\* An await that only reads leaves the database alone.
LEMMA AwaitStep == ASSUME NEW c, NEW pc, NEW l, Await(c, pc, l) PROVE db' = db /\ Moves(c)
BY DEF Await, Moves

\* An answer that writes nothing leaves the database alone.
LEMMA ReplyStep == ASSUME NEW c, NEW out, Reply(c, out) PROVE db' = db /\ Moves(c)
BY DEF Reply, Moves

-----------------------------------------------------------------------------
(* Tenancy *)

KeyWriters == {"createApiKey", "revokeApiKey", "rotateApiKey", "authenticateApiToken", "createBetaOnboarding"}

\* A rotation adds the successor and revokes the key, or changes nothing.
LEMMA RotateResult ==
  ASSUME NEW d, NEW id, NEW replacement, DOMAIN d = DOMAIN EmptyDb
  PROVE  LET r == Pg!rotateApiKey(d, id, replacement)
             e == Put(d.apiKeys, replacement,
                      [org |-> d.apiKeys[id].org, project |-> d.apiKeys[id].project, revoked |-> FALSE, used |-> FALSE])
         IN  /\ Writes(d, r, {"apiKeys"})
             /\ \/ /\ r.out = "ok"
                   /\ Has(d.apiKeys, id) /\ ~d.apiKeys[id].revoked /\ ~Has(d.apiKeys, replacement)
                   /\ r.db.apiKeys = [e EXCEPT ![id]["revoked"] = TRUE]
                \/ r.out # "ok" /\ r.db = d
<1> DEFINE row == [org |-> d.apiKeys[id].org, project |-> d.apiKeys[id].project, revoked |-> FALSE, used |-> FALSE]
           r == Pg!rotateApiKey(d, id, replacement)
           s == Pg!Insert(d, "apiKeys", replacement, row)
           e == Put(d.apiKeys, replacement, row)
<1>1. IsResult(s) /\ \/ s.out = "ok" /\ s.db = [d EXCEPT !["apiKeys"] = e] /\ ~Has(d.apiKeys, replacement)
                     \/ s.out # "ok" /\ s.db = d
  BY DEF Pg!Insert, Pg!Ok, Pg!Fail, Pg!Put, Put, Pg!Has, Has, IsResult
<1>2. CASE ~Has(d.apiKeys, id) \/ d.apiKeys[id].revoked
  BY <1>2 DEF Pg!rotateApiKey, Pg!Fail, Pg!Has, Has, Writes, IsResult, Touches
<1>3. CASE Has(d.apiKeys, id) /\ ~d.apiKeys[id].revoked /\ s.out # "ok"
  <2>1. r = s
    BY <1>3 DEF Pg!rotateApiKey, Pg!createApiKey, Pg!Then, Pg!Has, Has
  <2> HIDE DEF s
  <2> QED
    BY <1>1, <1>3, <2>1 DEF Writes, Touches
<1>4. CASE Has(d.apiKeys, id) /\ ~d.apiKeys[id].revoked /\ s.out = "ok"
  <2>1. r = Pg!revokeApiKey(s.db, id)
    BY <1>4 DEF Pg!rotateApiKey, Pg!createApiKey, Pg!Then, Pg!Has, Has
  <2>2. s.db = [d EXCEPT !["apiKeys"] = e] /\ ~Has(d.apiKeys, replacement)
    BY <1>1, <1>4
  <2>3. s.db.apiKeys = e /\ Has(e, id) /\ DOMAIN s.db = DOMAIN d
    <3>1. s.db.apiKeys = e /\ DOMAIN s.db = DOMAIN d
      BY <2>2 DEF EmptyDb
    <3> QED
      BY <1>4, <3>1 DEF Put, Has
  <2> HIDE DEF s, e, r
  <2>4. r.out = "ok" /\ r.db = [s.db EXCEPT !["apiKeys"][id]["revoked"] = TRUE] /\ IsResult(r)
    BY <2>1, <2>3 DEF Pg!revokeApiKey, Pg!SetColumn, Pg!Ok, Pg!Has, Has, IsResult
  <2>5. r.db.apiKeys = [e EXCEPT ![id]["revoked"] = TRUE] /\ Touches(d, r.db, {"apiKeys"})
    BY <2>2, <2>3, <2>4 DEF EmptyDb, Touches
  <2> QED
    BY <1>4, <2>2, <2>4, <2>5 DEF Writes, r, e
<1> QED
  BY <1>1, <1>2, <1>3, <1>4

\* rotateApiKey() writes the table of API keys, whether it succeeds or not.
LEMMA RotateWrites ==
  ASSUME NEW d, NEW id, NEW replacement, DOMAIN d = DOMAIN EmptyDb
  PROVE  Writes(d, Pg!rotateApiKey(d, id, replacement), {"apiKeys"})
BY RotateResult

\* What each operation on organizations, projects, members and keys writes.
LEMMA TenancyEffects ==
  ASSUME NEW c, DOMAIN db = DOMAIN EmptyDb
  PROVE  /\ createOrganization(c) => Effect(c, "createOrganization", {"organizations"})
         /\ updateOrganizationBilling(c) => Effect(c, "updateOrganizationBilling", {"organizations"})
         /\ createUser(c) => Effect(c, "createUser", {"users"})
         /\ verifyUserEmail(c) => Effect(c, "verifyUserEmail", {"users"})
         /\ createProject(c) => Effect(c, "createProject", {"projects"})
         /\ addProjectMembership(c) => Effect(c, "addProjectMembership", {"memberships", "audit"})
         /\ updateProjectMembershipRole(c) => Effect(c, "updateProjectMembershipRole", {"memberships", "audit"})
         /\ removeProjectMembership(c) => Effect(c, "removeProjectMembership", {"memberships", "audit"})
         /\ acceptProjectMembershipInvite(c) => Effect(c, "acceptProjectMembershipInvite", {"memberships", "audit"})
         /\ requestProductionQuotaIncrease(c) => Effect(c, "requestProductionQuotaIncrease", {"increases"})
         /\ createApiKey(c) => Effect(c, "createApiKey", {"apiKeys", "audit"})
         /\ revokeApiKey(c) => Effect(c, "revokeApiKey", {"apiKeys", "audit"})
         /\ rotateApiKey(c) => Effect(c, "rotateApiKey", {"apiKeys", "audit"})
         /\ authenticateApiToken(c) => Effect(c, "authenticateApiToken", {"apiKeys"})
         /\ createBetaOnboarding(c) =>
              Effect(c, "createBetaOnboarding", {"organizations", "users", "projects", "memberships", "apiKeys", "audit"})
<1> USE DEF Effect, At, in, Writes, Touches, IsResult
<1>1. createOrganization(c) => Effect(c, "createOrganization", {"organizations"})
  BY FinishStep, InsertWrites DEF createOrganization, Pg!createOrganization
<1>2. updateOrganizationBilling(c) => Effect(c, "updateOrganizationBilling", {"organizations"})
  BY CheckStep, FinishStep, SetColumnWrites
  DEF updateOrganizationBilling, Pg!updateOrganizationBilling, Pg!Then, requireOrganization, Require, Ok, Fail
<1>3. createUser(c) => Effect(c, "createUser", {"users"})
  BY FinishStep, InsertWrites DEF createUser, Pg!createUser
<1>4. verifyUserEmail(c) => Effect(c, "verifyUserEmail", {"users"})
  BY CheckStep, FinishStep
  DEF verifyUserEmail, Pg!updateUserEmailVerification, requireUser, Require, Ok, Fail, Pg!SetColumn, Pg!Ok, Pg!Fail
<1>5. createProject(c) => Effect(c, "createProject", {"projects"})
  BY CheckStep, FinishStep, InsertWrites DEF createProject, Pg!createProject, Require, Ok, Fail
<1>6. addProjectMembership(c) => Effect(c, "addProjectMembership", {"memberships", "audit"})
  BY CheckStep, WriteStep, FinishStep, UpsertWrites, AuditWrites
  DEF addProjectMembership, auditMember, Pg!createProjectMembership, requireProjectAndUser, requireProject, requireUser,
      Then, Require, Ok, Fail
<1>7. updateProjectMembershipRole(c) => Effect(c, "updateProjectMembershipRole", {"memberships", "audit"})
  BY CheckStep, WriteStep, FinishStep, SetColumnWrites, AuditWrites
  DEF updateProjectMembershipRole, auditMember, Pg!updateProjectMembershipRole, assertProjectKeepsOwner,
      requireProjectMembership, requireProjectAndUser, requireProject, requireUser, Then, Require, Ok, Fail
<1>8. removeProjectMembership(c) => Effect(c, "removeProjectMembership", {"memberships", "audit"})
  BY CheckStep, WriteStep, FinishStep, DeleteWrites, AuditWrites
  DEF removeProjectMembership, auditMember, Pg!deleteProjectMembership, assertProjectKeepsOwner,
      requireProjectMembership, requireProjectAndUser, requireProject, requireUser, Then, Require, Ok, Fail
<1>9. acceptProjectMembershipInvite(c) => Effect(c, "acceptProjectMembershipInvite", {"memberships", "audit"})
  BY CheckStep, WriteStep, FinishStep, SetColumnWrites, AuditWrites
  DEF acceptProjectMembershipInvite, auditMember, Pg!acceptProjectMembershipInvite,
      requireProjectAndUser, requireProject, requireUser, Then, Require, Ok, Fail
<1>10. requestProductionQuotaIncrease(c) => Effect(c, "requestProductionQuotaIncrease", {"increases"})
  BY CheckStep, FinishStep, InsertWrites
  DEF requestProductionQuotaIncrease, Pg!createProductionQuotaIncrease, requireOrganization, Then, Require, Ok, Fail
<1>11. createApiKey(c) => Effect(c, "createApiKey", {"apiKeys", "audit"})
  BY CheckStep, WriteStep, FinishStep, InsertWrites, AuditWrites
  DEF createApiKey, Pg!createApiKey, Then, Require, Ok, Fail
<1>12. revokeApiKey(c) => Effect(c, "revokeApiKey", {"apiKeys", "audit"})
  BY WriteStep, FinishStep, AuditWrites DEF revokeApiKey, auditKey, Pg!revokeApiKey, Pg!SetColumn, Pg!Ok, Pg!Fail
<1>13. rotateApiKey(c) => Effect(c, "rotateApiKey", {"apiKeys", "audit"})
  BY WriteStep, FinishStep, RotateWrites, AuditWrites DEF rotateApiKey, auditKey
<1>14. authenticateApiToken(c) => Effect(c, "authenticateApiToken", {"apiKeys"})
  BY CheckStep, FinishStep
  DEF authenticateApiToken, Pg!updateApiKeyLastUsed, Require, Ok, Fail, Pg!SetColumn, Pg!Ok, Pg!Fail
<1>15. createBetaOnboarding(c) =>
         Effect(c, "createBetaOnboarding", {"organizations", "users", "projects", "memberships", "apiKeys", "audit"})
  BY WriteStep, FinishStep, InsertWrites, UpsertWrites, AuditWrites
  DEF createBetaOnboarding, Pg!createOrganization, Pg!createUser, Pg!createProject, Pg!createProjectMembership,
      Pg!createApiKey
<1> QED
  BY <1>1, <1>2, <1>3, <1>4, <1>5, <1>6, <1>7, <1>8, <1>9, <1>10, <1>11, <1>12, <1>13, <1>14, <1>15

(* Billing *)

\* One transaction removes an invoice and what hangs on it.
LEMMA InvoiceDeletion ==
  ASSUME NEW d, NEW id
  PROVE  Writes(d, Pg!deleteBillingInvoice(d, id), {"invoices", "webhooks", "adjustments", "policies"})
BY DEF Pg!deleteBillingInvoice, Pg!Ok, Pg!Fail, Writes, IsResult, Touches

\* What each billing operation writes; received is what the endpoint got.
LEMMA BillingEffects ==
  ASSUME NEW c
  PROVE  /\ recordUsageEvent(c) => Effect(c, "recordUsageEvent", {"usage"})
         /\ issueOrganizationBillingInvoice(c) => Effect(c, "issueOrganizationBillingInvoice", {"invoices", "audit"})
         /\ enqueueBillingInvoiceWebhook(c) => Effect(c, "issueOrganizationBillingInvoice", {"webhooks"})
         /\ deliverPendingBillingWebhooks(c) => Effect(c, "deliverPendingBillingWebhooks", {"webhooks", "received"})
         /\ createBillingInvoiceAdjustment(c) => Effect(c, "createBillingInvoiceAdjustment", {"adjustments"})
         /\ setBillingInvoiceRetentionPolicy(c) => Effect(c, "setBillingInvoiceRetentionPolicy", {"policies"})
         /\ pruneBillingInvoices(c) =>
              Effect(c, "pruneBillingInvoices", {"invoices", "webhooks", "adjustments", "policies"})
<1> USE DEF Effect, At, in, Writes, Touches, IsResult
<1>1. recordUsageEvent(c) => Effect(c, "recordUsageEvent", {"usage"})
  BY CheckStep, FinishStep, AwaitStep, ReplyStep, InsertWrites
  DEF recordUsageEvent, Pg!createUsageEvent, enforceProjectUsageQuota, enforceProjectBillingBudget,
      requireProject, Require, Ok, Fail
<1>2. issueOrganizationBillingInvoice(c) => Effect(c, "issueOrganizationBillingInvoice", {"invoices", "audit"})
  <2> SUFFICES ASSUME issueOrganizationBillingInvoice(c) PROVE Effect(c, "issueOrganizationBillingInvoice", {"invoices", "audit"})
    OBVIOUS
  <2>1. \A v : issuedBefore(c, v) => db' = db /\ Moves(c)
    BY AwaitStep DEF issuedBefore
  <2>2. CASE At(c, "issueOrganizationBillingInvoice", "start")
    BY <2>1, <2>2, CheckStep DEF issueOrganizationBillingInvoice, requireOrganization, Require, Ok, Fail
  <2>3. CASE At(c, "issueOrganizationBillingInvoice", "summaries")
    BY <2>3, AwaitStep DEF issueOrganizationBillingInvoice
  <2>4. CASE At(c, "issueOrganizationBillingInvoice", "insert")
    BY <2>4, AwaitStep, WriteStep, InsertWrites DEF issueOrganizationBillingInvoice, Pg!createBillingInvoice, heldInvoice
  <2>5. CASE At(c, "issueOrganizationBillingInvoice", "audit")
    BY <2>5, WriteStep, AuditWrites DEF issueOrganizationBillingInvoice
  <2>6. CASE At(c, "issueOrganizationBillingInvoice", "raced")
    BY <2>1, <2>6, ReplyStep DEF issueOrganizationBillingInvoice
  <2> QED
    BY <2>2, <2>3, <2>4, <2>5, <2>6 DEF issueOrganizationBillingInvoice
<1>3. enqueueBillingInvoiceWebhook(c) => Effect(c, "issueOrganizationBillingInvoice", {"webhooks"})
  BY FinishStep, AwaitStep, ReplyStep, InsertWrites
  DEF enqueueBillingInvoiceWebhook, Pg!createBillingWebhookDelivery
<1>4. deliverPendingBillingWebhooks(c) => Effect(c, "deliverPendingBillingWebhooks", {"webhooks", "received"})
  <2> SUFFICES ASSUME deliverPendingBillingWebhooks(c)
               PROVE  Effect(c, "deliverPendingBillingWebhooks", {"webhooks", "received"})
    OBVIOUS
  <2>1. CASE At(c, "deliverPendingBillingWebhooks", "start")
    BY <2>1, AwaitStep DEF deliverPendingBillingWebhooks
  <2>2. CASE At(c, "deliverPendingBillingWebhooks", "send") /\ loc(c) = NoRows
    BY <2>2, ReplyStep DEF deliverPendingBillingWebhooks
  <2>3. CASE At(c, "deliverPendingBillingWebhooks", "send") /\ loc(c) # NoRows
    <3>1. PICK k : /\ db' = [db EXCEPT !.received = IF in(c).reply = "accepted" THEN @ \union {k} ELSE @]
                   /\ Goto(c, "record", [sent |-> k, rows |-> loc(c)])
      BY <2>3 DEF deliverPendingBillingWebhooks
    <3>2. Touches(db, db', {"received"}) /\ Moves(c)
      BY <3>1 DEF Moves
    <3> QED
      BY <2>3, <3>2
  <2>4. CASE At(c, "deliverPendingBillingWebhooks", "record")
    BY <2>4, WriteStep, UpdateWrites DEF deliverPendingBillingWebhooks, Pg!updateBillingWebhookDelivery
  <2> QED
    BY <2>1, <2>2, <2>3, <2>4 DEF deliverPendingBillingWebhooks
<1>5. createBillingInvoiceAdjustment(c) => Effect(c, "createBillingInvoiceAdjustment", {"adjustments"})
  BY CheckStep, FinishStep, InsertWrites
  DEF createBillingInvoiceAdjustment, Pg!createBillingInvoiceAdjustment, getBillingInvoice,
      normalizeBillingInvoiceAdjustmentInput, Then, Require, Ok, Fail
<1>6. setBillingInvoiceRetentionPolicy(c) => Effect(c, "setBillingInvoiceRetentionPolicy", {"policies"})
  BY CheckStep, FinishStep, UpsertWrites
  DEF setBillingInvoiceRetentionPolicy, Pg!upsertBillingInvoiceRetentionPolicy, getBillingInvoice,
      normalizeBillingInvoiceRetentionPolicyInput, Then, Require, Ok, Fail
<1>7. pruneBillingInvoices(c) => Effect(c, "pruneBillingInvoices", {"invoices", "webhooks", "adjustments", "policies"})
  <2> SUFFICES ASSUME pruneBillingInvoices(c)
               PROVE  Effect(c, "pruneBillingInvoices", {"invoices", "webhooks", "adjustments", "policies"})
    OBVIOUS
  <2>1. CASE At(c, "pruneBillingInvoices", "start")
    BY <2>1, CheckStep DEF pruneBillingInvoices, requireOrganization, Require, Ok, Fail
  <2>2. CASE At(c, "pruneBillingInvoices", "policy")
    BY <2>2, AwaitStep, ReplyStep DEF pruneBillingInvoices
  <2>3. CASE At(c, "pruneBillingInvoices", "delete")
    BY <2>3, WriteStep, InvoiceDeletion DEF pruneBillingInvoices
  <2> QED
    BY <2>1, <2>2, <2>3 DEF pruneBillingInvoices
<1> QED
  BY <1>1, <1>2, <1>3, <1>4, <1>5, <1>6, <1>7

(* Routing *)

\* A creation under a quota, a change of a row and a change of a domain.
LEMMA QuotaStep ==
  ASSUME NEW c, NEW op, NEW resource, NEW accepted, NEW insert, NEW T,
         Writes(db, insert, T), createWithinQuota(c, op, resource, accepted, insert)
  PROVE  Effect(c, op, T)
BY CheckStep, FinishStep
DEF createWithinQuota, enforceProjectQuota, requireProject, Then, Require, Ok, Fail, Effect, At, in, Writes, Touches, IsResult

\* changeExisting(): a change of a row that must exist has the effect of its statement alone.
LEMMA ChangeStep ==
  ASSUME NEW c, NEW op, NEW table, NEW result, NEW T, Writes(db, result, T), changeExisting(c, op, table, result)
  PROVE  Effect(c, op, T)
BY CheckStep, FinishStep DEF changeExisting, Require, Ok, Fail, Effect, At, in, Writes, Touches, IsResult

\* updateDomain(): the steps of a custom domain write the table of domains alone.
LEMMA DomainStep ==
  ASSUME NEW c, NEW op, NEW accepted, NEW status, NEW tls, updateDomain(c, op, accepted, status, tls)
  PROVE  Effect(c, op, {"domains"})
BY CheckStep, FinishStep, UpdateWrites
DEF updateDomain, Pg!updateCustomDomain, requireCustomDomain, Then, Require, Ok, Fail, Effect, At, in, Writes, Touches, IsResult

\* What each operation writes on what a project deploys, and on its domains.
LEMMA RoutingEffects ==
  ASSUME NEW c
  PROVE  /\ createArtifact(c) => Effect(c, "createArtifact", {"artifacts"})
         /\ createSecret(c) => Effect(c, "createSecret", {"secrets"})
         /\ updateSecretValue(c) => Effect(c, "updateSecretValue", {"secrets"})
         /\ deleteSecret(c) => Effect(c, "deleteSecret", {"secrets"})
         /\ createKvNamespace(c) => Effect(c, "createKvNamespace", {"kvNamespaces"})
         /\ deleteKvNamespace(c) => Effect(c, "deleteKvNamespace", {"kvNamespaces"})
         /\ createDurableObjectNamespace(c) => Effect(c, "createDurableObjectNamespace", {"doNamespaces"})
         /\ deleteDurableObjectNamespace(c) => Effect(c, "deleteDurableObjectNamespace", {"doNamespaces"})
         /\ createDeployment(c) => Effect(c, "createDeployment", {"deployments", "audit"})
         /\ createRouteSnapshot(c) => Effect(c, "createRouteSnapshot", {"snapshots"})
         /\ createCustomDomain(c) => Effect(c, "createCustomDomain", {"domains", "audit"})
         /\ deleteCustomDomain(c) => Effect(c, "deleteCustomDomain", {"domains", "audit"})
         /\ verifyCustomDomainOwnership(c) => Effect(c, "verifyCustomDomainOwnership", {"domains"})
         /\ requestCustomDomainTlsProvisioning(c) => Effect(c, "requestCustomDomainTlsProvisioning", {"domains"})
         /\ completeCustomDomainTlsProvisioning(c) => Effect(c, "completeCustomDomainTlsProvisioning", {"domains"})
<1>1. createArtifact(c) => Effect(c, "createArtifact", {"artifacts"})
  BY QuotaStep, InsertWrites DEF createArtifact, Pg!createArtifact
<1>2. createSecret(c) => Effect(c, "createSecret", {"secrets"})
  BY QuotaStep, InsertWrites DEF createSecret, Pg!createSecret
<1>3. updateSecretValue(c) => Effect(c, "updateSecretValue", {"secrets"})
  BY ChangeStep, SetColumnWrites DEF updateSecretValue, Pg!updateSecretValue
<1>4. deleteSecret(c) => Effect(c, "deleteSecret", {"secrets"})
  BY ChangeStep, DeleteWrites DEF deleteSecret, Pg!deleteSecret
<1>5. createKvNamespace(c) => Effect(c, "createKvNamespace", {"kvNamespaces"})
  BY QuotaStep, InsertWrites DEF createKvNamespace, Pg!createKvNamespace
<1>6. deleteKvNamespace(c) => Effect(c, "deleteKvNamespace", {"kvNamespaces"})
  BY ChangeStep, DeleteWrites DEF deleteKvNamespace, Pg!deleteKvNamespace
<1>7. createDurableObjectNamespace(c) => Effect(c, "createDurableObjectNamespace", {"doNamespaces"})
  BY QuotaStep, InsertWrites DEF createDurableObjectNamespace, Pg!createDurableObjectNamespace
<1>8. deleteDurableObjectNamespace(c) => Effect(c, "deleteDurableObjectNamespace", {"doNamespaces"})
  BY ChangeStep, DeleteWrites DEF deleteDurableObjectNamespace, Pg!deleteDurableObjectNamespace
<1>9. createDeployment(c) => Effect(c, "createDeployment", {"deployments", "audit"})
  BY CheckStep, WriteStep, FinishStep, InsertWrites, AuditWrites
  DEF createDeployment, Pg!createDeployment, requireProject, requireArtifact, enforceProjectQuota,
      requireDeploymentSecrets, requireDeploymentServiceBindings, requireDeploymentKvNamespaces,
      requireDeploymentDurableObjectNamespaces, requireOwn, Then, Require, Ok, Fail,
      Effect, At, in, Writes, Touches, IsResult
<1>10. createRouteSnapshot(c) => Effect(c, "createRouteSnapshot", {"snapshots"})
  BY AwaitStep, FinishStep DEF createRouteSnapshot, Ok, Effect, At, in, Touches
<1>11. createCustomDomain(c) => Effect(c, "createCustomDomain", {"domains", "audit"})
  BY CheckStep, WriteStep, FinishStep, InsertWrites, AuditWrites
  DEF createCustomDomain, Pg!createCustomDomain, auditDomain, requireProject, Require, Ok, Fail,
      Effect, At, in, Writes, Touches, IsResult
<1>12. deleteCustomDomain(c) => Effect(c, "deleteCustomDomain", {"domains", "audit"})
  BY CheckStep, WriteStep, FinishStep, DeleteWrites, AuditWrites
  DEF deleteCustomDomain, Pg!deleteCustomDomain, auditDomain, requireCustomDomain, Require, Ok, Fail,
      Effect, At, in, Writes, Touches, IsResult
<1>13. verifyCustomDomainOwnership(c) => Effect(c, "verifyCustomDomainOwnership", {"domains"})
  BY DomainStep DEF verifyCustomDomainOwnership
<1>14. requestCustomDomainTlsProvisioning(c) => Effect(c, "requestCustomDomainTlsProvisioning", {"domains"})
  BY DomainStep DEF requestCustomDomainTlsProvisioning
<1>15. completeCustomDomainTlsProvisioning(c) => Effect(c, "completeCustomDomainTlsProvisioning", {"domains"})
  BY DomainStep DEF completeCustomDomainTlsProvisioning
<1> QED
  BY <1>1, <1>2, <1>3, <1>4, <1>5, <1>6, <1>7, <1>8, <1>9, <1>10, <1>11, <1>12, <1>13, <1>14, <1>15

\* What each operation writes on routes and previews.
LEMMA RouteEffects ==
  ASSUME NEW c
  PROVE  /\ pointRoute(c) => Effect(c, "pointRoute", {"routes", "audit"})
         /\ startRouteCanary(c) => Effect(c, "startRouteCanary", {"routes"})
         /\ rollbackRoute(c) => Effect(c, "rollbackRoute", {"routes"})
         /\ analyzeRouteCanary(c) => Effect(c, "analyzeRouteCanary", {"routes", "decisions"})
         /\ createDeployPreview(c) => Effect(c, "createDeployPreview", {"routes", "previews"})
         /\ rollbackDeployPreview(c) => Effect(c, "rollbackDeployPreview", {"routes", "previews"})
<1> USE DEF Effect, At, in, Writes, Touches, IsResult
<1>0. ASSUME NEW op, NEW write, checkRoute(c, op, write) PROVE db' = db /\ Moves(c) /\ in(c).op = op /\ call[c].pc # "idle"
  BY <1>0, CheckStep, AwaitStep DEF checkRoute, enforceRouteCustomDomain, enforceProjectQuota, Require, Ok, Fail
<1>1. pointRoute(c) => Effect(c, "pointRoute", {"routes", "audit"})
  <2>1. ASSUME NEW i PROVE IsResult(requireTargets(db, i.project, i.targets))
    BY DEF requireTargets, Ok, Fail
  <2> QED
    BY <1>0, <2>1, CheckStep, WriteStep, FinishStep, UpsertWrites, AuditWrites
    DEF pointRoute, Pg!upsertRoute, requireProject, Then, Require, Ok, Fail
<1>2. startRouteCanary(c) => Effect(c, "startRouteCanary", {"routes"})
  BY CheckStep, FinishStep, UpsertWrites
  DEF startRouteCanary, Pg!upsertRoute, requireCandidate, requireRoute, requireProjectDeployment, requireProject,
      requireDeployment, Then, Require, Ok, Fail
<1>3. rollbackRoute(c) => Effect(c, "rollbackRoute", {"routes"})
  BY CheckStep, FinishStep, UpsertWrites
  DEF rollbackRoute, Pg!upsertRoute, requireCandidate, requireRoute, requireProjectDeployment, requireProject,
      requireDeployment, Then, Require, Ok, Fail
<1>4. analyzeRouteCanary(c) => Effect(c, "analyzeRouteCanary", {"routes", "decisions"})
  <2>1. ASSUME NEW decision PROVE Writes(db, Pg!createCanaryDecision(db, decision), {"decisions"})
    BY DEF Pg!createCanaryDecision, Pg!Ok, Pg!Fail
  <2> QED
    BY <2>1, CheckStep, WriteStep, FinishStep, UpsertWrites
    DEF analyzeRouteCanary, Pg!upsertRoute, requireCandidate, requireRoute, requireProjectDeployment, requireProject,
        requireDeployment, Then, Require, Ok, Fail
<1>5. createDeployPreview(c) => Effect(c, "createDeployPreview", {"routes", "previews"})
  BY <1>0, CheckStep, WriteStep, FinishStep, UpsertWrites, InsertWrites
  DEF createDeployPreview, Pg!upsertRoute, Pg!createDeployPreview, requireProjectDeployment, requireProject,
      requireDeployment, Then, Require, Ok, Fail
<1>6. rollbackDeployPreview(c) => Effect(c, "rollbackDeployPreview", {"routes", "previews"})
  BY CheckStep, WriteStep, FinishStep, ReplyStep, UpsertWrites, SetColumnWrites
  DEF rollbackDeployPreview, restorePreviousRoute, Pg!upsertRoute, Pg!deleteRoute, Pg!updateDeployPreview,
      Pg!Ok, Require, Ok, Fail
<1> QED
  BY <1>1, <1>2, <1>3, <1>4, <1>5, <1>6

(* Fleet *)

\* What each operation writes on nodes and edge workers; scripts is what the
\* provider runs.
LEMMA FleetEffects ==
  ASSUME NEW c
  PROVE  /\ registerRuntimeNode(c) => Effect(c, "registerRuntimeNode", {"nodes"})
         /\ recordRuntimeNodeHeartbeat(c) => Effect(c, "recordRuntimeNodeHeartbeat", {"nodes"})
         /\ updateRuntimeNodeStatus(c) => Effect(c, "updateRuntimeNodeStatus", {"nodes"})
         /\ cleanupRuntimeNodes(c) => Effect(c, "cleanupRuntimeNodes", {"nodes"})
         /\ listActiveRuntimeNodes(c) => Effect(c, "listActiveRuntimeNodes", {})
         /\ recordRouteSnapshotPublication(c) => Effect(c, "recordRouteSnapshotPublication", {"publications"})
         /\ createEdgeWorkerRelease(c) => Effect(c, "createEdgeWorkerRelease", {"releases", "scripts"})
         /\ deleteEdgeWorkerRelease(c) => Effect(c, "deleteEdgeWorkerRelease", {"releases", "operations", "scripts"})
         /\ deliverPendingEdgeWorkerReleaseOperations(c) =>
              Effect(c, "deliverPendingEdgeWorkerReleaseOperations", {"releases", "operations", "scripts"})
<1> USE DEF Effect, At, in, Writes, Touches, IsResult
<1>0. ASSUME NEW script, NEW reply
      PROVE  Writes(db, Ok(deleteProviderEdgeWorkerRelease(db, script, reply)), {"scripts"})
  BY DEF deleteProviderEdgeWorkerRelease, Ok
<1>1. registerRuntimeNode(c) => Effect(c, "registerRuntimeNode", {"nodes"})
  BY FinishStep, InsertWrites DEF registerRuntimeNode, Pg!createRuntimeNode
<1>2. recordRuntimeNodeHeartbeat(c) => Effect(c, "recordRuntimeNodeHeartbeat", {"nodes"})
  <2>1. ASSUME NEW id, NEW node PROVE Writes(db, Pg!updateRuntimeNodeHeartbeat(db, id, node), {"nodes"})
    BY DEF Pg!updateRuntimeNodeHeartbeat, Pg!Ok, Pg!Fail
  <2> QED
    BY <2>1, CheckStep, FinishStep DEF recordRuntimeNodeHeartbeat, requireRuntimeNode, Require, Ok, Fail
<1>3. updateRuntimeNodeStatus(c) => Effect(c, "updateRuntimeNodeStatus", {"nodes"})
  BY FinishStep, SetColumnWrites DEF updateRuntimeNodeStatus, Pg!updateRuntimeNodeStatus
<1>4. cleanupRuntimeNodes(c) => Effect(c, "cleanupRuntimeNodes", {"nodes"})
  <2> SUFFICES ASSUME cleanupRuntimeNodes(c) PROVE Effect(c, "cleanupRuntimeNodes", {"nodes"})
    OBVIOUS
  <2>1. CASE At(c, "cleanupRuntimeNodes", "start")
    BY <2>1, CheckStep DEF cleanupRuntimeNodes, Require, Ok, Fail
  <2>2. CASE At(c, "cleanupRuntimeNodes", "delete") /\ loc(c) = {}
    BY <2>2, ReplyStep DEF cleanupRuntimeNodes
  <2>3. CASE At(c, "cleanupRuntimeNodes", "delete") /\ loc(c) # {}
    <3>1. PICK n : Write(c, Pg!deleteRuntimeNode(db, n), "delete", loc(c) \ {n})
      BY <2>3 DEF cleanupRuntimeNodes
    <3> QED
      BY <2>3, <3>1, WriteStep, DeleteWrites DEF Pg!deleteRuntimeNode
  <2> QED
    BY <2>1, <2>2, <2>3 DEF cleanupRuntimeNodes
<1>5. listActiveRuntimeNodes(c) => Effect(c, "listActiveRuntimeNodes", {})
  BY ReplyStep DEF listActiveRuntimeNodes
<1>6. recordRouteSnapshotPublication(c) => Effect(c, "recordRouteSnapshotPublication", {"publications"})
  BY FinishStep DEF recordRouteSnapshotPublication, Pg!createRouteSnapshotPublication, Pg!Ok
<1>7. createEdgeWorkerRelease(c) => Effect(c, "createEdgeWorkerRelease", {"releases", "scripts"})
  BY CheckStep, WriteStep, FinishStep, InsertWrites
  DEF createEdgeWorkerRelease, Pg!createEdgeWorkerRelease, requireReleaseDeployment, requireProject,
      Then, Require, Ok, Fail
<1>8. deleteEdgeWorkerRelease(c) => Effect(c, "deleteEdgeWorkerRelease", {"releases", "operations", "scripts"})
  BY <1>0, CheckStep, WriteStep, FinishStep, ReplyStep, InsertWrites, SetColumnWrites
  DEF deleteEdgeWorkerRelease, Pg!updateEdgeWorkerRelease, Pg!createEdgeWorkerReleaseOperation,
      requireEdgeWorkerRelease, Require, Ok, Fail
<1>9. deliverPendingEdgeWorkerReleaseOperations(c) =>
        Effect(c, "deliverPendingEdgeWorkerReleaseOperations", {"releases", "operations", "scripts"})
  <2> DEFINE method == "deliverPendingEdgeWorkerReleaseOperations"
  <2> SUFFICES ASSUME deliverPendingEdgeWorkerReleaseOperations(c)
               PROVE  Effect(c, method, {"releases", "operations", "scripts"})
    OBVIOUS
  <2>1. CASE At(c, method, "start")
    BY <2>1, AwaitStep DEF deliverPendingEdgeWorkerReleaseOperations
  <2>2. CASE At(c, method, "next")
    <3>1. CASE loc(c) = NoRows
      BY <2>2, <3>1, ReplyStep DEF deliverPendingEdgeWorkerReleaseOperations
    <3>2. CASE loc(c) # NoRows
      <4>1. PICK o \in DOMAIN loc(c) : Check(c, requireEdgeWorkerRelease(loc(c)[o].release), "provider",
                                             [id |-> o, row |-> loc(c)[o], left |-> Drop(loc(c), o)])
        BY <2>2, <3>2 DEF deliverPendingEdgeWorkerReleaseOperations
      <4> QED
        BY <2>2, <4>1, CheckStep, RequireResult DEF requireEdgeWorkerRelease
    <3> QED
      BY <3>1, <3>2
  <2>3. CASE At(c, method, "provider")
    BY <1>0, <2>3, WriteStep DEF deliverPendingEdgeWorkerReleaseOperations
  <2>4. CASE At(c, method, "deleted") \/ At(c, method, "failed")
    BY <2>4, WriteStep, SetColumnWrites DEF deliverPendingEdgeWorkerReleaseOperations, Pg!updateEdgeWorkerRelease
  <2>5. CASE At(c, method, "succeeded") \/ At(c, method, "retry")
    BY <2>5, WriteStep, UpdateWrites
    DEF deliverPendingEdgeWorkerReleaseOperations, Pg!updateEdgeWorkerReleaseOperation
  <2> QED
    BY <2>1, <2>2, <2>3, <2>4, <2>5 DEF deliverPendingEdgeWorkerReleaseOperations
<1> QED
  BY <1>1, <1>2, <1>3, <1>4, <1>5, <1>6, <1>7, <1>8, <1>9

-----------------------------------------------------------------------------
(* Where the calls are.                                                    *)

\* Calls and the requests after them are requests of the workload.
CallsInv ==
  /\ DOMAIN db = DOMAIN EmptyDb
  /\ todo \in [Callers -> Seq(Requests)]
  /\ DOMAIN call = Callers
  /\ \A c \in Callers : /\ DOMAIN call[c] = {"req", "pc", "loc"}
                        /\ call[c].pc # "idle" => call[c].req \in Requests

\* The next call of a caller is at its start, if there is one.
LEMMA FirstCallStarts ==
  ASSUME NEW q \in Seq(Requests)
  PROVE  /\ DOMAIN FirstCall(q) = {"req", "pc", "loc"}
         /\ FirstCall(q).pc \in {"idle", "start"}
         /\ FirstCall(q).pc # "idle" => FirstCall(q).req \in Requests
         /\ RestOf(q) \in Seq(Requests)
BY DEF FirstCall, RestOf, Idle, Queued

\* A call that goes on is as it was, but for where it is and what it holds.
LEMMA GoesOn ==
  ASSUME CallsInv, NEW c \in Callers, NEW pc, NEW l, Goto(c, pc, l)
  PROVE  /\ DOMAIN call' = Callers /\ \A x \in Callers \ {c} : call'[x] = call[x]
         /\ DOMAIN call'[c] = {"req", "pc", "loc"}
         /\ call'[c].req = call[c].req /\ call'[c].pc = pc /\ call'[c].loc = l
         /\ UNCHANGED <<todo, answered, base, serial, retries>>
BY DEF CallsInv, Goto

\* A call that is answered leaves its caller to the next one.
LEMMA GoesHome ==
  ASSUME CallsInv, NEW c \in Callers, NEW out, Return(c, out)
  PROVE  /\ DOMAIN call' = Callers /\ \A x \in Callers \ {c} : call'[x] = call[x]
         /\ DOMAIN call'[c] = {"req", "pc", "loc"}
         /\ call'[c].pc \in {"idle", "start"} /\ (call'[c].pc # "idle" => call'[c].req \in Requests)
         /\ todo' \in [Callers -> Seq(Requests)]
         /\ answered' = answered \union {[req |-> in(c), out |-> out]}
         /\ UNCHANGED <<serial, retries>>
<1>1. call' = [call EXCEPT ![c] = FirstCall(todo[c])] /\ todo' = [todo EXCEPT ![c] = RestOf(todo[c])]
  BY DEF Return
<1>2. todo[c] \in Seq(Requests)
  BY DEF CallsInv
<1>3. /\ DOMAIN call' = Callers /\ \A x \in Callers \ {c} : call'[x] = call[x]
      /\ call'[c] = FirstCall(todo[c])
  BY <1>1 DEF CallsInv
<1>4. todo' \in [Callers -> Seq(Requests)]
  BY <1>1, <1>2, FirstCallStarts DEF CallsInv
<1> QED
  BY <1>2, <1>3, <1>4, FirstCallStarts DEF Return

\* Where a call may be after a step.
Moved(c) ==
  /\ \A x \in Callers \ {c} : call'[x] = call[x]
  /\ \/ call'[c].pc \in {"idle", "start"}
     \/ call'[c].req = call[c].req

\* A step of a call keeps the calls well formed, and moves no call but its own.
LEMMA MovesCalls ==
  ASSUME CallsInv, NEW c \in Callers, DOMAIN db' = DOMAIN db, call[c].pc # "idle", Moves(c) PROVE CallsInv' /\ Moved(c)
<1>1. CASE \E pc, l : Goto(c, pc, l)
  <2>1. PICK pc, l : Goto(c, pc, l)
    BY <1>1
  <2> QED
    BY <2>1, GoesOn DEF CallsInv, Moved
<1>2. CASE \E out : Return(c, out)
  BY <1>2, GoesHome DEF CallsInv, Moved
<1> QED
  BY <1>1, <1>2 DEF Moves

\* Who writes what: a step leaves every table alone that no operation of its kind
\* writes, and a call of an operation is in one of its awaits.
ReleaseWriterOps == {"createEdgeWorkerRelease", "deleteEdgeWorkerRelease", "deliverPendingEdgeWorkerReleaseOperations"}

WritersOnly(c) ==
  /\ call[c].pc # "idle" /\ DOMAIN db' = DOMAIN db /\ Moves(c)
  /\ db'.apiKeys = db.apiKeys \/ in(c).op \in KeyWriters
  /\ db'.usage = db.usage \/ in(c).op = "recordUsageEvent"
  /\ db'.invoices = db.invoices \/ in(c).op \in {"issueOrganizationBillingInvoice", "pruneBillingInvoices"}
  /\ \/ db'.webhooks = db.webhooks
     \/ in(c).op \in {"issueOrganizationBillingInvoice", "deliverPendingBillingWebhooks", "pruneBillingInvoices"}
  /\ db'.received = db.received \/ in(c).op = "deliverPendingBillingWebhooks"
  /\ db'.deployments = db.deployments \/ in(c).op = "createDeployment"
  /\ (db'.routes = db.routes /\ db'.previews = db.previews) \/ in(c).op \in RouteWriters
  /\ (db'.releases = db.releases /\ db'.scripts = db.scripts) \/ in(c).op \in ReleaseWriterOps
  /\ \/ db'.operations = db.operations
     \/ in(c).op \in {"deleteEdgeWorkerRelease", "deliverPendingEdgeWorkerReleaseOperations"}

\* Which operations write the tables the invariants are about: read off the handlers.
LEMMA EffectWriters ==
  ASSUME NEW c, NEW op, NEW T, DOMAIN db = DOMAIN EmptyDb, Effect(c, op, T),
         "apiKeys" \in T => op \in KeyWriters,
         "usage" \in T => op = "recordUsageEvent",
         "invoices" \in T => op \in {"issueOrganizationBillingInvoice", "pruneBillingInvoices"},
         "webhooks" \in T =>
           op \in {"issueOrganizationBillingInvoice", "deliverPendingBillingWebhooks", "pruneBillingInvoices"},
         "received" \in T => op = "deliverPendingBillingWebhooks",
         "deployments" \in T => op = "createDeployment",
         "routes" \in T \/ "previews" \in T => op \in RouteWriters,
         "releases" \in T \/ "scripts" \in T => op \in ReleaseWriterOps,
         "operations" \in T => op \in {"deleteEdgeWorkerRelease", "deliverPendingEdgeWorkerReleaseOperations"}
  PROVE  WritersOnly(c)
BY DEF Effect, Touches, EmptyDb, WritersOnly

\* It holds of every step.
LEMMA Writers == ASSUME NEW c, DOMAIN db = DOMAIN EmptyDb, Step(c) PROVE WritersOnly(c)
<1>1. CASE TenancyNext(c)
  BY <1>1, TenancyEffects, EffectWriters DEF TenancyNext, KeyWriters
<1>2. CASE BillingNext(c)
  BY <1>2, BillingEffects, EffectWriters DEF BillingNext
<1>3. CASE RoutingNext(c)
  BY <1>3, RoutingEffects, RouteEffects, EffectWriters DEF RoutingNext, RouteWriters
<1>4. CASE FleetNext(c)
  BY <1>4, FleetEffects, EffectWriters DEF FleetNext, ReleaseWriterOps
<1> QED
  BY <1>1, <1>2, <1>3, <1>4 DEF Step

\* A step of a call is a step of its operation.
LEMMA StepsOfOps ==
  ASSUME NEW c, DOMAIN db = DOMAIN EmptyDb, Step(c)
  PROVE  /\ in(c).op = "createApiKey" => createApiKey(c)
         /\ in(c).op = "revokeApiKey" => revokeApiKey(c)
         /\ in(c).op = "rotateApiKey" => rotateApiKey(c)
         /\ in(c).op = "authenticateApiToken" => authenticateApiToken(c)
         /\ in(c).op = "createBetaOnboarding" => createBetaOnboarding(c)
         /\ in(c).op = "recordUsageEvent" => recordUsageEvent(c)
         /\ in(c).op = "issueOrganizationBillingInvoice" =>
              issueOrganizationBillingInvoice(c) \/ enqueueBillingInvoiceWebhook(c)
         /\ in(c).op = "deliverPendingBillingWebhooks" => deliverPendingBillingWebhooks(c)
         /\ in(c).op = "pruneBillingInvoices" => pruneBillingInvoices(c)
         /\ in(c).op = "createDeployment" => createDeployment(c)
         /\ in(c).op = "pointRoute" => pointRoute(c)
         /\ in(c).op = "startRouteCanary" => startRouteCanary(c)
         /\ in(c).op = "rollbackRoute" => rollbackRoute(c)
         /\ in(c).op = "analyzeRouteCanary" => analyzeRouteCanary(c)
         /\ in(c).op = "createDeployPreview" => createDeployPreview(c)
         /\ in(c).op = "rollbackDeployPreview" => rollbackDeployPreview(c)
         /\ in(c).op = "createEdgeWorkerRelease" => createEdgeWorkerRelease(c)
         /\ in(c).op = "deleteEdgeWorkerRelease" => deleteEdgeWorkerRelease(c)
         /\ in(c).op = "deliverPendingEdgeWorkerReleaseOperations" => deliverPendingEdgeWorkerReleaseOperations(c)
<1>1. CASE TenancyNext(c)
  BY <1>1, TenancyEffects DEF TenancyNext, Effect
<1>2. CASE BillingNext(c)
  BY <1>2, BillingEffects DEF BillingNext, Effect
<1>3. CASE RoutingNext(c)
  BY <1>3, RoutingEffects, RouteEffects DEF RoutingNext, Effect
<1>4. CASE FleetNext(c)
  BY <1>4, FleetEffects DEF FleetNext, Effect
<1> QED
  BY <1>1, <1>2, <1>3, <1>4 DEF Step

\* The calls stay requests of the workload.
LEMMA StepCalls ==
  ASSUME CallsInv, NEW c \in Callers, Step(c) PROVE CallsInv' /\ Moved(c)
BY Writers, MovesCalls DEF WritersOnly, CallsInv

\* A process that dies keeps the calls well formed, writes nothing and leaves its call to be asked again.
LEMMA RetryCalls ==
  ASSUME CallsInv, NEW c \in Callers, Retry(c)
  PROVE  /\ CallsInv' /\ Moved(c)
         /\ call'[c].req = call[c].req /\ call'[c].pc = "start"
         /\ UNCHANGED <<db, todo, answered, base, serial>>
<1>1. call' = [call EXCEPT ![c] = Queued(in(c))]
  BY DEF Retry
<1>2. /\ DOMAIN call' = Callers /\ \A x \in Callers \ {c} : call'[x] = call[x]
      /\ call'[c] = Queued(in(c))
  BY <1>1 DEF CallsInv
<1> QED
  BY <1>2 DEF Retry, CallsInv, Moved, Queued, in

-----------------------------------------------------------------------------
(* The keys.                                                               *)

AtAudit(c) == call[c].pc = "audit" /\ call[c].req.op = "rotateApiKey"

\* The rotations that have replaced their key, answered or not.
Rotated == Answered("rotateApiKey", "ok") \union {in(c) : c \in {x \in Callers : AtAudit(x)}}

\* A key that was rotated is revoked, and was rotated once.
KeysInv ==
  /\ \A k \in DOMAIN db.apiKeys : "revoked" \in DOMAIN db.apiKeys[k]
  /\ \A i \in Rotated : Has(db.apiKeys, i.id) /\ db.apiKeys[i.id].revoked
  /\ \A i, j \in Rotated : i.id = j.id => i = j

\* No key goes from e back to what it was in d.
KeysKept(d, e) ==
  /\ \A k \in DOMAIN d.apiKeys : Has(e.apiKeys, k) /\ (d.apiKeys[k].revoked => e.apiKeys[k].revoked)
  /\ \A k \in DOMAIN e.apiKeys : "revoked" \in DOMAIN e.apiKeys[k]

\* The other operations on keys keep what is revoked revoked.
LEMMA KeyWritersKeep ==
  ASSUME CallsInv, KeysInv, NEW c,
         createApiKey(c) \/ revokeApiKey(c) \/ authenticateApiToken(c) \/ createBetaOnboarding(c)
  PROVE  KeysKept(db, db')
<1>0. KeysKept(db, db) /\ DOMAIN db = DOMAIN EmptyDb
  BY DEF KeysInv, KeysKept, CallsInv, Has
<1>1. ASSUME NEW id, NEW org, NEW project PROVE KeysKept(db, Pg!createApiKey(db, id, org, project).db)
  <2> DEFINE row == [org |-> org, project |-> project, revoked |-> FALSE, used |-> FALSE]
             r == Pg!createApiKey(db, id, org, project)
  <2>1. r.db = db \/ (~Has(db.apiKeys, id) /\ r.db.apiKeys = Put(db.apiKeys, id, row))
    BY <1>0 DEF Pg!createApiKey, Pg!Insert, Pg!Ok, Pg!Fail, Pg!Put, Put, Pg!Has, Has, EmptyDb
  <2>2. "revoked" \in DOMAIN row
    OBVIOUS
  <2> HIDE DEF r, row
  <2>3. CASE ~Has(db.apiKeys, id) /\ r.db.apiKeys = Put(db.apiKeys, id, row)
    <3>0. /\ DOMAIN r.db.apiKeys = DOMAIN db.apiKeys \union {id}
          /\ r.db.apiKeys[id] = row
          /\ \A x \in DOMAIN db.apiKeys \ {id} : r.db.apiKeys[x] = db.apiKeys[x]
      BY <2>3 DEF Put
    <3>1. \A k \in DOMAIN db.apiKeys : Has(r.db.apiKeys, k) /\ r.db.apiKeys[k] = db.apiKeys[k]
      BY <2>3, <3>0 DEF Has
    <3>2. \A k \in DOMAIN r.db.apiKeys : "revoked" \in DOMAIN r.db.apiKeys[k]
      BY <1>0, <2>2, <3>0 DEF KeysKept
    <3> QED
      BY <3>1, <3>2 DEF KeysKept, r
  <2> QED
    BY <1>0, <2>1, <2>3 DEF r
<1>2. ASSUME NEW id PROVE KeysKept(db, Pg!revokeApiKey(db, id).db)
  BY <1>0 DEF Pg!revokeApiKey, Pg!SetColumn, Pg!Ok, Pg!Fail, Pg!Has, KeysKept, Has, EmptyDb
<1>3. ASSUME NEW id PROVE KeysKept(db, Pg!updateApiKeyLastUsed(db, id).db)
  BY <1>0 DEF Pg!updateApiKeyLastUsed, Pg!SetColumn, Pg!Ok, Pg!Fail, Pg!Has, KeysKept, Has, EmptyDb
<1>4. CASE createApiKey(c)
  BY <1>0, <1>1, <1>4, CheckStep, WriteStep, FinishStep, AuditWrites
  DEF createApiKey, Then, Require, Ok, Fail, IsResult, Writes, Touches, EmptyDb, KeysKept
<1>5. CASE revokeApiKey(c)
  BY <1>0, <1>2, <1>5, WriteStep, FinishStep, AuditWrites
  DEF revokeApiKey, auditKey, Writes, Touches, EmptyDb, KeysKept
<1>6. CASE authenticateApiToken(c)
  BY <1>0, <1>3, <1>6, CheckStep, FinishStep DEF authenticateApiToken, Require, Ok, Fail, IsResult
<1>7. CASE createBetaOnboarding(c)
  BY <1>0, <1>1, <1>7, WriteStep, FinishStep, InsertWrites, UpsertWrites, AuditWrites
  DEF createBetaOnboarding, Pg!createOrganization, Pg!createUser, Pg!createProject, Pg!createProjectMembership,
      Writes, Touches, EmptyDb, KeysKept
<1> QED
  BY <1>4, <1>5, <1>6, <1>7

\* What holds of the rotated keys before a step holds after it.
LEMMA KeysStay ==
  ASSUME KeysInv, KeysKept(db, db'), Rotated' \subseteq Rotated PROVE KeysInv'
BY DEF KeysInv, KeysKept, Has

\* A step that does not finish a rotation rotates no key.
LEMMA RotatedStays ==
  ASSUME CallsInv, NEW c \in Callers, Moved(c),
         answered' = answered \/ \E out : answered' = answered \union {[req |-> in(c), out |-> out]},
         ~AtAudit(c)',
         in(c).op # "rotateApiKey" \/ AtAudit(c) \/ answered' = answered
           \/ \E out : out # "ok" /\ answered' = answered \union {[req |-> in(c), out |-> out]}
  PROVE  Rotated' \subseteq Rotated
<1>1. \A x \in Callers : AtAudit(x)' => AtAudit(x) /\ in(x)' = in(x)
  BY DEF Moved, AtAudit, in
<1>2. \A i : i \in Answered("rotateApiKey", "ok")' => i \in Answered("rotateApiKey", "ok") \/ (AtAudit(c) /\ i = in(c))
  BY DEF Answered
<1> QED
  BY <1>1, <1>2 DEF Rotated

\* How a call moves the answers.
LEMMA MovesAnswers ==
  ASSUME CallsInv, NEW c \in Callers, Moves(c)
  PROVE  answered' = answered \/ \E out : answered' = answered \union {[req |-> in(c), out |-> out]}
<1>1. ASSUME NEW pc, NEW l, Goto(c, pc, l) PROVE answered' = answered
  BY <1>1 DEF Goto
<1>2. ASSUME NEW out, Return(c, out) PROVE answered' = answered \union {[req |-> in(c), out |-> out]}
  BY <1>2 DEF Return
<1> QED
  BY <1>1, <1>2 DEF Moves

\* rotateApiKey() holds the row lock of the key: it finds it revoked, or revokes it for itself alone.
LEMMA RotationKeeps ==
  ASSUME CallsInv, KeysInv, NEW c \in Callers, call[c].pc # "idle", Moved(c), rotateApiKey(c) PROVE KeysInv'
<1>0. DOMAIN db = DOMAIN EmptyDb /\ KeysKept(db, db)
  BY DEF CallsInv, KeysInv, KeysKept, Has
<1>1. CASE At(c, "rotateApiKey", "start")
  <2> DEFINE i == in(c)
             r == Pg!rotateApiKey(db, i.id, i.replacement)
             row == [org |-> db.apiKeys[i.id].org, project |-> db.apiKeys[i.id].project, revoked |-> FALSE, used |-> FALSE]
             e == Put(db.apiKeys, i.replacement, row)
  <2>1. Write(c, r, "audit", None) /\ ~AtAudit(c)
    BY <1>1 DEF rotateApiKey, At, AtAudit
  <2>2. \/ /\ r.out = "ok"
           /\ Has(db.apiKeys, i.id) /\ ~db.apiKeys[i.id].revoked /\ ~Has(db.apiKeys, i.replacement)
           /\ r.db.apiKeys = [e EXCEPT ![i.id]["revoked"] = TRUE]
        \/ r.out # "ok" /\ r.db = db
    BY <1>0, RotateResult
  <2>3. "revoked" \in DOMAIN row
    OBVIOUS
  <2>4. /\ DOMAIN e = DOMAIN db.apiKeys \union {i.replacement} /\ e[i.replacement] = row
        /\ \A x \in DOMAIN db.apiKeys \ {i.replacement} : e[x] = db.apiKeys[x]
    BY DEF Put
  <2> HIDE DEF r, row, e
  <2>5. CASE r.out = "ok"
    <3>1. Has(db.apiKeys, i.id) /\ ~db.apiKeys[i.id].revoked /\ ~Has(db.apiKeys, i.replacement)
      BY <2>2, <2>5
    <3>2. /\ DOMAIN db'.apiKeys = DOMAIN e
          /\ \A x \in DOMAIN e \ {i.id} : db'.apiKeys[x] = e[x]
          /\ db'.apiKeys[i.id] = [e[i.id] EXCEPT !["revoked"] = TRUE]
      BY <2>1, <2>2, <2>4, <2>5, <3>1 DEF Write, Has
    <3>3. /\ \A x \in DOMAIN db'.apiKeys : "revoked" \in DOMAIN db'.apiKeys[x]
          /\ \A x \in DOMAIN db.apiKeys : Has(db'.apiKeys, x) /\ (db.apiKeys[x].revoked => db'.apiKeys[x].revoked)
          /\ db'.apiKeys[i.id].revoked
      <4>1. e[i.id] = db.apiKeys[i.id] /\ "revoked" \in DOMAIN e[i.id]
        BY <2>4, <3>1 DEF KeysInv, Has
      <4>2. db'.apiKeys[i.id].revoked /\ "revoked" \in DOMAIN db'.apiKeys[i.id]
        BY <3>2, <4>1
      <4>3. \A x \in DOMAIN e : "revoked" \in DOMAIN e[x]
        BY <2>3, <2>4 DEF KeysInv
      <4>4. \A x \in DOMAIN db'.apiKeys : "revoked" \in DOMAIN db'.apiKeys[x]
        BY <3>2, <4>2, <4>3
      <4>5. \A x \in DOMAIN db.apiKeys \ {i.id} : x # i.replacement /\ db'.apiKeys[x] = db.apiKeys[x] /\ Has(db'.apiKeys, x)
        BY <2>4, <3>1, <3>2 DEF Has
      <4> QED
        BY <2>4, <3>1, <3>2, <4>2, <4>4, <4>5 DEF Has
    <3>4. Goto(c, "audit", None)
      BY <2>1, <2>5 DEF Write
    <3>5. answered' = answered /\ AtAudit(c)' /\ in(c)' = i /\ \A x \in Callers \ {c} : call'[x] = call[x]
      BY <1>1, <3>4, GoesOn DEF AtAudit, At, in
    <3>6. \A j : j \in Rotated' <=> j \in Rotated \/ j = i
      BY <2>1, <3>5 DEF Rotated, AtAudit, Answered, in
    <3>7. \A j \in Rotated : j.id # i.id
      BY <3>1 DEF KeysInv
    <3>8. Has(db'.apiKeys, i.id) /\ \A j \in Rotated : Has(db'.apiKeys, j.id) /\ db'.apiKeys[j.id].revoked
      BY <3>1, <3>3 DEF KeysInv, Has
    <3>9. \A j \in Rotated' : Has(db'.apiKeys, j.id) /\ db'.apiKeys[j.id].revoked
      BY <3>3, <3>6, <3>8
    <3>10. \A j, k \in Rotated' : j.id = k.id => j = k
      BY <3>6, <3>7 DEF KeysInv
    <3> QED
      BY <3>3, <3>9, <3>10 DEF KeysInv
  <2>6. CASE r.out # "ok"
    <3>1. db' = db /\ Return(c, r.out)
      BY <2>1, <2>2, <2>6 DEF Write
    <3>2. answered' = answered \union {[req |-> in(c), out |-> r.out]} /\ ~AtAudit(c)'
      BY <3>1, GoesHome DEF AtAudit
    <3> QED
      BY <1>0, <2>6, <3>1, <3>2, RotatedStays, KeysStay
  <2> QED
    BY <2>5, <2>6
<1>2. CASE At(c, "rotateApiKey", "audit")
  <2>1. KeysKept(db, db') /\ \E out : Return(c, out)
    BY <1>0, <1>2, AuditWrites DEF rotateApiKey, At, auditKey, Finish, Writes, Touches, EmptyDb, KeysKept
  <2>2. AtAudit(c) /\ ~AtAudit(c)' /\ \E out : answered' = answered \union {[req |-> in(c), out |-> out]}
    BY <1>2, <2>1, GoesHome DEF At, AtAudit
  <2> QED
    BY <2>1, <2>2, RotatedStays, KeysStay
<1> QED
  BY <1>1, <1>2 DEF rotateApiKey

\* Every step keeps what KeysInv says.
LEMMA StepKeys ==
  ASSUME CallsInv, KeysInv, NEW c \in Callers, Step(c) PROVE KeysInv'
<1>1. WritersOnly(c) /\ Moved(c)
  BY Writers, StepCalls DEF CallsInv
<1>2. CASE in(c).op = "rotateApiKey"
  BY <1>1, <1>2, StepsOfOps, RotationKeeps DEF CallsInv, WritersOnly
<1>3. CASE in(c).op # "rotateApiKey"
  <2>1. KeysKept(db, db')
    <3>1. CASE in(c).op \in KeyWriters
      BY <1>3, <3>1, StepsOfOps, KeyWritersKeep DEF CallsInv, KeyWriters
    <3>2. CASE db'.apiKeys = db.apiKeys
      BY <3>2 DEF KeysInv, KeysKept, Has
    <3> QED
      BY <1>1, <3>1, <3>2 DEF WritersOnly
  <2>2. ~AtAudit(c)'
    BY <1>1, <1>3 DEF Moved, AtAudit, in
  <2> QED
    BY <1>1, <1>3, <2>1, <2>2, MovesAnswers, RotatedStays, KeysStay DEF WritersOnly
<1> QED
  BY <1>2, <1>3

\* A process that dies between a rotation and its audit event keeps KeysInv.
LEMMA RetryKeys == ASSUME CallsInv, KeysInv, NEW c \in Callers, Retry(c) PROVE KeysInv'
<1>1. ~AtAudit(c)' /\ answered' = answered /\ db' = db /\ Moved(c)
  BY RetryCalls DEF AtAudit
<1> QED
  BY <1>1, RotatedStays, KeysStay DEF KeysInv, KeysKept, Has

-----------------------------------------------------------------------------
(* The routes.                                                             *)

InCall(k, op, pcs) == k.req.op = op /\ k.pc \in pcs

\* What a call k found own to the project of its route, and still relies on after its awaits.
RouteCall(d, k) ==
  /\ InCall(k, "pointRoute", {"domain", "route", "quota", "write"}) => OwnTargets(d, k.req.project, k.req.targets)
  /\ InCall(k, "startRouteCanary", {"write"}) =>
       OwnTargets(d, k.req.project, k.loc) /\ OwnDeployment(d, k.req.project, k.req.deployment)
  /\ InCall(k, "rollbackRoute", {"write"}) => OwnDeployment(d, k.req.project, k.loc)
  /\ InCall(k, "analyzeRouteCanary", {"decide"}) => OwnTargets(d, k.req.project, k.loc)
  /\ InCall(k, "analyzeRouteCanary", {"write"}) => OwnDeployment(d, k.req.project, k.loc)
  /\ InCall(k, "createDeployPreview", {"domain", "route", "quota", "point"}) =>
       OwnDeployment(d, k.req.project, k.req.deployment)
  /\ InCall(k, "createDeployPreview", {"point", "insert"}) => k.loc = None \/ OwnTargets(d, k.req.project, k.loc)
  /\ InCall(k, "rollbackDeployPreview", {"route"}) =>
       k.loc.previous = None \/ OwnTargets(d, k.loc.project, k.loc.previous)

\* Routes and previews are own to their projects, and so is what the calls in flight will write.
RoutesInv ==
  /\ RoutesOwn(db)
  /\ \A c \in Callers : call[c].pc # "idle" => RouteCall(db, call[c])

\* No deployment of d goes, or changes its project, in e.
DeploymentsKept(d, e) ==
  \A x \in DOMAIN d.deployments : Has(e.deployments, x) /\ e.deployments[x].project = d.deployments[x].project

\* What was own stays own.
LEMMA OwnStays ==
  ASSUME NEW d, NEW e, DeploymentsKept(d, e)
  PROVE  /\ \A p, x : OwnDeployment(d, p, x) => OwnDeployment(e, p, x)
         /\ \A p, t : OwnTargets(d, p, t) => OwnTargets(e, p, t)
         /\ \A k : RouteCall(d, k) => RouteCall(e, k)
<1>1. \A p, x : OwnDeployment(d, p, x) => OwnDeployment(e, p, x)
  BY DEF DeploymentsKept, OwnDeployment, Has
<1>2. \A p, t : OwnTargets(d, p, t) => OwnTargets(e, p, t)
  BY <1>1 DEF OwnTargets
<1> QED
  BY <1>1, <1>2 DEF RouteCall

\* A step of c that leaves the routes own, and what its own call will write, keeps the invariant.
LEMMA RoutesStay ==
  ASSUME CallsInv, RoutesInv, NEW c \in Callers, Moved(c), DeploymentsKept(db, db'),
         RoutesOwn(db'), call'[c].pc # "idle" => RouteCall(db', call'[c])
  PROVE  RoutesInv'
<1>1. \A x \in Callers \ {c} : call'[x].pc # "idle" => RouteCall(db', call'[x])
  BY OwnStays DEF RoutesInv, Moved
<1> QED
  BY <1>1 DEF RoutesInv

\* A call at its start relies on nothing, nor does one of another kind.
LEMMA Carefree ==
  ASSUME NEW d, NEW k, k.pc = "start" \/ k.req.op \notin RouteWriters PROVE RouteCall(d, k)
BY DEF RouteCall, InCall, RouteWriters

\* The routes of d with one more, or one less, that is own to its project.
LEMMA PointedIsOwn ==
  ASSUME NEW d, DOMAIN d = DOMAIN EmptyDb, RoutesOwn(d), NEW p, NEW h, NEW t, OwnTargets(d, p, t)
  PROVE  LET e == Pg!upsertRoute(d, p, h, t).db IN RoutesOwn(e) /\ e.deployments = d.deployments
<1> DEFINE row == [project |-> p, host |-> h, deployment |-> t[1].deployment, targets |-> t]
           e == Pg!upsertRoute(d, p, h, t).db
<1>1. e = d \/ e = [d EXCEPT !["routes"] = Put(d.routes, <<p, h>>, row)]
  BY DEF Pg!upsertRoute, Pg!Upsert, Pg!Ok, Pg!Fail, Pg!Put, Put
<1>2. CASE e = d
  BY <1>2
<1>3. CASE e = [d EXCEPT !["routes"] = Put(d.routes, <<p, h>>, row)]
  <2>1. /\ e.routes = Put(d.routes, <<p, h>>, row)
        /\ e.deployments = d.deployments /\ e.previews = d.previews
    BY <1>3 DEF EmptyDb
  <2>2. row.targets = t /\ <<p, h>>[1] = p
    OBVIOUS
  <2> HIDE DEF e, row
  <2>3. \A r \in DOMAIN e.routes : OwnTargets(d, r[1], e.routes[r].targets)
    BY <2>1, <2>2 DEF Put, RoutesOwn
  <2>4. \A q, x : OwnTargets(d, q, x) => OwnTargets(e, q, x)
    BY <2>1 DEF OwnTargets, OwnDeployment
  <2>5. RoutesOwn(e)
    BY <2>1, <2>3, <2>4 DEF RoutesOwn
  <2> QED
    BY <2>1, <2>5 DEF e
<1> QED
  BY <1>1, <1>2, <1>3

\* deleteRoute(), with which a preview that had no previous route is undone, keeps the routes in their projects.
LEMMA UnpointedIsOwn ==
  ASSUME NEW d, DOMAIN d = DOMAIN EmptyDb, RoutesOwn(d), NEW p, NEW h
  PROVE  LET e == Pg!deleteRoute(d, p, h).db IN RoutesOwn(e) /\ e.deployments = d.deployments
<1> DEFINE e == Pg!deleteRoute(d, p, h).db
<1>1. /\ e.routes = [r \in DOMAIN d.routes \ {<<p, h>>} |-> d.routes[r]]
      /\ e.deployments = d.deployments /\ e.previews = d.previews
  BY DEF Pg!deleteRoute, Pg!Ok, Pg!Drop, EmptyDb
<1> HIDE DEF e
<1>2. \A r \in DOMAIN e.routes : OwnTargets(d, r[1], e.routes[r].targets)
  BY <1>1 DEF RoutesOwn
<1>3. \A q, t : OwnTargets(d, q, t) => OwnTargets(e, q, t)
  BY <1>1 DEF OwnTargets, OwnDeployment
<1>4. RoutesOwn(e)
  BY <1>1, <1>2, <1>3 DEF RoutesOwn
<1> QED
  BY <1>1, <1>4 DEF e

\* What else changes does not concern it.
LEMMA OwnElsewhere ==
  ASSUME NEW d, NEW e, RoutesOwn(d), DeploymentsKept(d, e), e.routes = d.routes, e.previews = d.previews
  PROVE  RoutesOwn(e)
BY OwnStays DEF RoutesOwn

\* One deployment with all the traffic, and a canary with part of it, are targets.
LEMMA TargetsOfOwn ==
  ASSUME NEW d, NEW p, NEW x, OwnDeployment(d, p, x)
  PROVE  /\ OwnTargets(d, p, WholeRoute(x))
         /\ \A y, n, m : OwnDeployment(d, p, y) =>
              OwnTargets(d, p, <<[deployment |-> y, weight |-> n], [deployment |-> x, weight |-> m]>>)
BY DEF OwnTargets, WholeRoute

\* The steps of a call once more, with where they leave it.
LEMMA WriteLands ==
  ASSUME CallsInv, NEW c \in Callers, NEW r, NEW pc, NEW l, Write(c, r, pc, l)
  PROVE  /\ db' = r.db
         /\ \/ call'[c].pc \in {"idle", "start"}
            \/ r.out = "ok" /\ call'[c].req = call[c].req /\ call'[c].pc = pc /\ call'[c].loc = l
BY GoesOn, GoesHome DEF Write

\* A check that passes takes the call on with what it found; one that throws answers it.
LEMMA CheckLands ==
  ASSUME CallsInv, NEW c \in Callers, NEW r, IsResult(r), NEW pc, NEW l, Check(c, r, pc, l)
  PROVE  /\ db' = db
         /\ \/ call'[c].pc \in {"idle", "start"}
            \/ r.out = "ok" /\ call'[c].req = call[c].req /\ call'[c].pc = pc /\ call'[c].loc = l
BY WriteLands DEF Check, IsResult

\* The last statement of a call answers it.
LEMMA FinishLands ==
  ASSUME CallsInv, NEW c \in Callers, NEW r, Finish(c, r)
  PROVE  db' = r.db /\ call'[c].pc \in {"idle", "start"}
BY GoesHome DEF Finish

\* An answer ends the call.
LEMMA ReplyLands ==
  ASSUME CallsInv, NEW c \in Callers, NEW out, Reply(c, out)
  PROVE  db' = db /\ call'[c].pc \in {"idle", "start"}
BY GoesHome DEF Reply

\* A read takes the call on with what it read.
LEMMA AwaitLands ==
  ASSUME CallsInv, NEW c \in Callers, NEW pc, NEW l, Await(c, pc, l)
  PROVE  db' = db /\ call'[c].req = call[c].req /\ call'[c].pc = pc /\ call'[c].loc = l
BY GoesOn DEF Await

\* What the checks of a route find.
LEMMA FoundOwn ==
  ASSUME RoutesOwn(db), NEW i
  PROVE  /\ currentTargets(i) = None \/ OwnTargets(db, i.project, currentTargets(i))
         /\ Has(db.routes, routeKey(i)) => OwnTargets(db, i.project, currentTargets(i))
         /\ \A x : IsResult(requireProjectDeployment(i.project, x))
         /\ \A x : requireProjectDeployment(i.project, x).out = "ok" => OwnDeployment(db, i.project, x)
         /\ \A x, accepted : IsResult(requireCandidate(i, x, accepted))
         /\ \A x, accepted : requireCandidate(i, x, accepted).out = "ok" =>
              OwnTargets(db, i.project, currentTargets(i)) /\ OwnDeployment(db, i.project, x)
<1>1. Has(db.routes, routeKey(i)) => OwnTargets(db, i.project, currentTargets(i))
  BY DEF RoutesOwn, currentTargets, routeKey, Has
<1>2. currentTargets(i) = None \/ OwnTargets(db, i.project, currentTargets(i))
  BY <1>1 DEF currentTargets
<1>3. ASSUME NEW x
      PROVE  /\ IsResult(requireProjectDeployment(i.project, x))
             /\ requireProjectDeployment(i.project, x).out = "ok" => OwnDeployment(db, i.project, x)
             /\ requireProjectDeployment(i.project, x).db = db
  BY DEF requireProjectDeployment, requireProject, requireDeployment, Then, Require, Ok, Fail, IsResult, OwnDeployment
<1>4. ASSUME NEW x, NEW accepted
      PROVE  /\ IsResult(requireCandidate(i, x, accepted))
             /\ requireCandidate(i, x, accepted).out = "ok" =>
                  Has(db.routes, routeKey(i)) /\ requireProjectDeployment(i.project, x).out = "ok"
  <2>1. /\ IsResult(requireRoute(i)) /\ requireRoute(i).db = db
        /\ requireRoute(i).out = "ok" => Has(db.routes, routeKey(i))
    BY DEF requireRoute, requireProject, Then, Require, Ok, Fail, IsResult
  <2> QED
    BY <1>3, <2>1 DEF requireCandidate, Then, Require, Ok, Fail, IsResult
<1> QED
  BY <1>1, <1>2, <1>3, <1>4

\* A step has left the routes own to their projects, and its call to write what is own.
Lands(c) == RoutesOwn(db') /\ (call'[c].pc # "idle" => RouteCall(db', call'[c]))

\* A call that is answered, or goes home with an error, lands if the routes do.
LEMMA HomeLands == ASSUME NEW c, RoutesOwn(db'), call'[c].pc \in {"idle", "start"} PROVE Lands(c)
BY Carefree DEF Lands

\* checkRoute(), which every route writer runs first: the targets that it hands on are deployments of the project.
LEMMA RouteChecks ==
  ASSUME CallsInv, RoutesInv, NEW c \in Callers, NEW op, NEW write, checkRoute(c, op, write)
  PROVE  /\ db' = db
         /\ InCall(call[c], op, {"domain", "route", "quota"})
         /\ \/ call'[c].pc \in {"idle", "start"}
            \/ /\ call'[c].req = call[c].req
               /\ \/ call'[c].pc \in {"route", "quota"}
                  \/ /\ call'[c].pc = write
                     /\ call'[c].loc = None \/ OwnTargets(db, call[c].req.project, call'[c].loc)
<1>1. CASE At(c, op, "domain")
  <2>1. Check(c, enforceRouteCustomDomain(in(c).project, in(c).host), "route", None)
    BY <1>1 DEF checkRoute, At
  <2>2. IsResult(enforceRouteCustomDomain(in(c).project, in(c).host))
    BY RequireResult DEF enforceRouteCustomDomain
  <2> QED
    BY <1>1, <2>1, <2>2, CheckLands DEF At, InCall
<1>2. CASE At(c, op, "route")
  BY <1>2, AwaitLands, FoundOwn DEF checkRoute, At, InCall, RoutesInv, in
<1>3. CASE At(c, op, "quota")
  <2>1. IsResult(enforceProjectQuota(db, in(c).project, "routes"))
    BY DEF enforceProjectQuota, Require, Ok, Fail, IsResult
  <2> QED
    BY <1>3, <2>1, CheckLands DEF checkRoute, At, InCall
<1> QED
  BY <1>1, <1>2, <1>3 DEF checkRoute

\* pointRoute() keeps the routes, and the targets its call holds, in their projects.
LEMMA pointRouteLands ==
  ASSUME CallsInv, RoutesInv, NEW c \in Callers, call[c].pc # "idle", pointRoute(c) PROVE Lands(c)
<1> DEFINE i == call[c].req
<1>0. RoutesOwn(db) /\ DOMAIN db = DOMAIN EmptyDb /\ i \in Requests /\ RouteCall(db, call[c])
  BY DEF CallsInv, RoutesInv
<1>00. checkRoute(c, "pointRoute", "write") => call[c].pc \in {"domain", "route", "quota"}
  BY RouteChecks DEF InCall
<1>1. CASE At(c, "pointRoute", "start")
  <2> DEFINE r == Then(requireProject(i.project), LAMBDA e :
                       Then(Require(e, normalizeRouteTargets(i.targets), "validation"), LAMBDA f :
                            requireTargets(f, i.project, i.targets)))
  <2>1. IsResult(r) /\ (r.out = "ok" => i.targets # <<>> /\ requireTargets(db, i.project, i.targets).out = "ok")
    BY ZenonT(30) DEF requireProject, normalizeRouteTargets, requireTargets, Then, Require, Ok, Fail, IsResult
  <2>2. requireTargets(db, i.project, i.targets).out = "ok" =>
          \A n \in DOMAIN i.targets : OwnDeployment(db, i.project, i.targets[n].deployment)
    BY ZenonT(30) DEF requireTargets, Ok, Fail, OwnDeployment
  <2>3. i.targets # <<>> => 1 \in DOMAIN i.targets
    <3>1. i.targets \in Seq(Range(i.targets))
      BY <1>0, <1>1, WorkloadsAssumption DEF At
    <3> QED
      BY <3>1
  <2>4. Check(c, r, "domain", None)
    BY <1>00, <1>1 DEF pointRoute, At, in, Then
  <2> HIDE DEF r
  <2>5. /\ db' = db
        /\ \/ call'[c].pc \in {"idle", "start"}
           \/ r.out = "ok" /\ call'[c].req = i /\ call'[c].pc = "domain"
    BY <2>1, <2>4, CheckLands
  <2>6. CASE call'[c].pc \notin {"idle", "start"}
    <3>1. OwnTargets(db, i.project, i.targets)
      BY <2>1, <2>2, <2>3, <2>5, <2>6 DEF OwnTargets
    <3> QED
      BY <1>0, <1>1, <2>5, <2>6, <3>1 DEF Lands, RouteCall, InCall, At
  <2> QED
    BY <1>0, <2>5, <2>6, HomeLands, SMTT(30)
<1>2. CASE checkRoute(c, "pointRoute", "write")
  <2>1. /\ db' = db
        /\ \/ call'[c].pc \in {"idle", "start"}
           \/ /\ call'[c].req = i /\ call'[c].pc \in {"route", "quota", "write"}
              /\ i.op = "pointRoute" /\ OwnTargets(db, i.project, i.targets)
    BY <1>0, <1>2, RouteChecks DEF RouteCall, InCall
  <2> QED
    BY <1>0, <2>1, HomeLands DEF Lands, RouteCall, InCall
<1>3. CASE At(c, "pointRoute", "write")
  <2>1. OwnTargets(db, i.project, i.targets) /\ i.op = "pointRoute"
    BY <1>0, <1>3 DEF RouteCall, InCall, At
  <2>2. RoutesOwn(db')
    BY <1>0, <1>00, <1>3, <2>1, WriteLands, PointedIsOwn DEF pointRoute, At, in
  <2>3. call'[c].pc \in {"idle", "start"} \/ (call'[c].req = i /\ call'[c].pc = "audit")
    BY <1>00, <1>3, WriteLands DEF pointRoute, At, in
  <2> QED
    BY <2>1, <2>2, <2>3, HomeLands DEF Lands, RouteCall, InCall
<1>4. CASE At(c, "pointRoute", "audit")
  <2>1. /\ db'.routes = db.routes /\ db'.previews = db.previews /\ db'.deployments = db.deployments
        /\ call'[c].pc \in {"idle", "start"}
    BY <1>0, <1>00, <1>4, FinishLands, AuditWrites DEF pointRoute, At, Writes, Touches, EmptyDb
  <2> QED
    BY <1>0, <2>1, OwnElsewhere, HomeLands DEF DeploymentsKept, Has
<1> QED
  BY <1>1, <1>2, <1>3, <1>4 DEF pointRoute

\* startRouteCanary() keeps the routes in their projects.
LEMMA startRouteCanaryLands ==
  ASSUME CallsInv, RoutesInv, NEW c \in Callers, call[c].pc # "idle", startRouteCanary(c) PROVE Lands(c)
<1> DEFINE i == call[c].req
<1>0. RoutesOwn(db) /\ DOMAIN db = DOMAIN EmptyDb /\ RouteCall(db, call[c])
  BY DEF CallsInv, RoutesInv
<1>1. CASE At(c, "startRouteCanary", "start")
  <2>1. /\ db' = db
        /\ \/ call'[c].pc \in {"idle", "start"}
           \/ /\ call'[c].req = i /\ call'[c].pc = "write" /\ call'[c].loc = currentTargets(i)
              /\ OwnTargets(db, i.project, currentTargets(i)) /\ OwnDeployment(db, i.project, i.deployment)
    BY <1>0, <1>1, FoundOwn, CheckLands DEF startRouteCanary, At, in
  <2> QED
    BY <1>0, <1>1, <2>1, HomeLands DEF Lands, RouteCall, InCall, At
<1>2. CASE At(c, "startRouteCanary", "write")
  <2>1. OwnTargets(db, i.project, call[c].loc) /\ OwnDeployment(db, i.project, i.deployment)
    BY <1>0, <1>2 DEF RouteCall, InCall, At
  <2>2. OwnDeployment(db, i.project, call[c].loc[1].deployment)
    BY <2>1 DEF OwnTargets
  <2>3. \A n, m : OwnTargets(db, i.project, <<[deployment |-> call[c].loc[1].deployment, weight |-> n],
                                              [deployment |-> i.deployment, weight |-> m]>>)
    BY <2>1, <2>2, TargetsOfOwn
  <2>4. RoutesOwn(db') /\ call'[c].pc \in {"idle", "start"}
    BY <1>0, <1>2, <2>3, FinishLands, PointedIsOwn DEF startRouteCanary, At, in, loc
  <2> QED
    BY <2>4, HomeLands
<1> QED
  BY <1>1, <1>2 DEF startRouteCanary

\* rollbackRoute() keeps the routes in their projects.
LEMMA rollbackRouteLands ==
  ASSUME CallsInv, RoutesInv, NEW c \in Callers, call[c].pc # "idle", rollbackRoute(c) PROVE Lands(c)
<1> DEFINE i == call[c].req
           to == IF i.deployment = None THEN currentTargets(i)[1].deployment ELSE i.deployment
<1>0. RoutesOwn(db) /\ DOMAIN db = DOMAIN EmptyDb /\ RouteCall(db, call[c])
  BY DEF CallsInv, RoutesInv
<1>1. CASE At(c, "rollbackRoute", "start")
  <2>1. /\ db' = db
        /\ \/ call'[c].pc \in {"idle", "start"}
           \/ /\ call'[c].req = i /\ call'[c].pc = "write" /\ call'[c].loc = to
              /\ OwnDeployment(db, i.project, to)
    <3>1. \E accepted \in BOOLEAN : Check(c, requireCandidate(i, to, accepted), "write", to)
      BY <1>1 DEF rollbackRoute, At, in
    <3> QED
      BY <1>0, <3>1, FoundOwn, CheckLands
  <2> QED
    BY <1>0, <1>1, <2>1, HomeLands DEF Lands, RouteCall, InCall, At
<1>2. CASE At(c, "rollbackRoute", "write")
  <2>1. OwnDeployment(db, i.project, call[c].loc)
    BY <1>0, <1>2 DEF RouteCall, InCall, At
  <2>2. RoutesOwn(db') /\ call'[c].pc \in {"idle", "start"}
    BY <1>0, <1>2, <2>1, TargetsOfOwn, FinishLands, PointedIsOwn DEF rollbackRoute, At, in, loc
  <2> QED
    BY <2>2, HomeLands
<1> QED
  BY <1>1, <1>2 DEF rollbackRoute

\* analyzeRouteCanary() keeps the routes in their projects, promoting or rolling back.
LEMMA analyzeRouteCanaryLands ==
  ASSUME CallsInv, RoutesInv, NEW c \in Callers, call[c].pc # "idle", analyzeRouteCanary(c) PROVE Lands(c)
<1> DEFINE i == call[c].req
           l == call[c].loc
           decision == [project |-> i.project, host |-> i.host, stable |-> l[1].deployment, candidate |-> i.deployment,
                        action |-> analyzeCanaryEvents(i.events, i.deployment, i.thresholds)]
           r == Pg!createCanaryDecision(db, decision)
<1>0. RoutesOwn(db) /\ DOMAIN db = DOMAIN EmptyDb /\ RouteCall(db, call[c])
  BY DEF CallsInv, RoutesInv
<1>1. CASE At(c, "analyzeRouteCanary", "start")
  <2>1. /\ db' = db
        /\ \/ call'[c].pc \in {"idle", "start"}
           \/ /\ call'[c].req = i /\ call'[c].pc = "decide" /\ call'[c].loc = currentTargets(i)
              /\ OwnTargets(db, i.project, currentTargets(i))
    <3>1. \E accepted \in BOOLEAN : Check(c, requireCandidate(i, i.deployment, accepted), "decide", currentTargets(i))
      BY <1>1 DEF analyzeRouteCanary, At, in
    <3> QED
      BY <1>0, <3>1, FoundOwn, CheckLands
  <2> QED
    BY <1>0, <1>1, <2>1, HomeLands DEF Lands, RouteCall, InCall, At
<1>2. CASE At(c, "analyzeRouteCanary", "decide")
  <2>1. OwnTargets(db, i.project, l) /\ i.op = "analyzeRouteCanary"
    BY <1>0, <1>2 DEF RouteCall, InCall, At
  <2>2. Touches(db, r.db, {"decisions"})
    BY DEF Pg!createCanaryDecision, Pg!Ok, Pg!Fail, Touches
  <2>3. Write(c, r, "write", l[1].deployment) \/ Finish(c, r)
    BY <1>2 DEF analyzeRouteCanary, At, in, loc
  <2> HIDE DEF r
  <2>4. /\ db' = r.db
        /\ \/ call'[c].pc \in {"idle", "start"}
           \/ call'[c].req = i /\ call'[c].pc = "write" /\ call'[c].loc = l[1].deployment
    BY <2>3, WriteLands, FinishLands
  <2>5. db'.routes = db.routes /\ db'.previews = db.previews /\ db'.deployments = db.deployments
    BY <1>0, <2>2, <2>4 DEF Touches, EmptyDb
  <2>6. RoutesOwn(db')
    BY <1>0, <2>5, OwnElsewhere DEF DeploymentsKept, Has
  <2>7. OwnDeployment(db', i.project, l[1].deployment)
    BY <2>1, <2>5 DEF OwnTargets, OwnDeployment
  <2> QED
    BY <2>1, <2>4, <2>6, <2>7, HomeLands DEF Lands, RouteCall, InCall
<1>3. CASE At(c, "analyzeRouteCanary", "write")
  <2>1. OwnDeployment(db, i.project, l)
    BY <1>0, <1>3 DEF RouteCall, InCall, At
  <2>2. RoutesOwn(db') /\ call'[c].pc \in {"idle", "start"}
    BY <1>0, <1>3, <2>1, TargetsOfOwn, FinishLands, PointedIsOwn DEF analyzeRouteCanary, At, in, loc
  <2> QED
    BY <2>2, HomeLands
<1> QED
  BY <1>1, <1>2, <1>3 DEF analyzeRouteCanary

\* A preview that is stored, or rolled back, restores what is own to its project.
LEMMA PreviewIsOwn ==
  ASSUME NEW d, DOMAIN d = DOMAIN EmptyDb, RoutesOwn(d), NEW id, NEW row,
         row.previous = None \/ OwnTargets(d, row.project, row.previous)
  PROVE  RoutesOwn(Pg!createDeployPreview(d, id, row).db)
<1> DEFINE e == Pg!createDeployPreview(d, id, row).db
<1>1. e = d \/ e = [d EXCEPT !["previews"] = Put(d.previews, id, row)]
  BY DEF Pg!createDeployPreview, Pg!Insert, Pg!Ok, Pg!Fail, Pg!Put, Put
<1>2. CASE e = [d EXCEPT !["previews"] = Put(d.previews, id, row)]
  <2>1. /\ e.previews = Put(d.previews, id, row)
        /\ e.deployments = d.deployments /\ e.routes = d.routes
    BY <1>2 DEF EmptyDb
  <2> HIDE DEF e
  <2>2. \A v \in DOMAIN e.previews :
          e.previews[v].previous # None => OwnTargets(d, e.previews[v].project, e.previews[v].previous)
    BY <2>1 DEF Put, RoutesOwn
  <2>3. \A q, t : OwnTargets(d, q, t) => OwnTargets(e, q, t)
    BY <2>1 DEF OwnTargets, OwnDeployment
  <2> QED
    BY <2>1, <2>2, <2>3 DEF RoutesOwn, e
<1> QED
  BY <1>1, <1>2

\* Marking a preview keeps the routes, and the route it would restore, in their projects.
LEMMA RolledBackIsOwn ==
  ASSUME NEW d, DOMAIN d = DOMAIN EmptyDb, RoutesOwn(d), NEW id, NEW status
  PROVE  RoutesOwn(Pg!updateDeployPreview(d, id, status).db)
<1> DEFINE e == Pg!updateDeployPreview(d, id, status).db
<1>1. e = d \/ e = [d EXCEPT !["previews"][id]["status"] = status]
  BY DEF Pg!updateDeployPreview, Pg!SetColumn, Pg!Ok, Pg!Fail
<1>2. CASE e = [d EXCEPT !["previews"][id]["status"] = status]
  <2>1. /\ e.previews = [d.previews EXCEPT ![id]["status"] = status]
        /\ e.deployments = d.deployments /\ e.routes = d.routes
    BY <1>2 DEF EmptyDb
  <2> HIDE DEF e
  <2>2. DOMAIN e.previews = DOMAIN d.previews
    BY <2>1
  <2>3. \A v \in DOMAIN e.previews : e.previews[v].previous = d.previews[v].previous /\ e.previews[v].project = d.previews[v].project
    BY <2>1
  <2>4. \A q, t : OwnTargets(d, q, t) => OwnTargets(e, q, t)
    BY <2>1 DEF OwnTargets, OwnDeployment
  <2> QED
    BY <2>1, <2>2, <2>3, <2>4 DEF RoutesOwn, e
<1> QED
  BY <1>1, <1>2

\* createDeployPreview() keeps the routes and what its preview would restore in their projects.
LEMMA createDeployPreviewLands ==
  ASSUME CallsInv, RoutesInv, NEW c \in Callers, call[c].pc # "idle", createDeployPreview(c) PROVE Lands(c)
<1> DEFINE i == call[c].req
           l == call[c].loc
           row == [project |-> i.project, deployment |-> i.deployment, host |-> i.host, previous |-> l, status |-> "active"]
<1>0. RoutesOwn(db) /\ DOMAIN db = DOMAIN EmptyDb /\ RouteCall(db, call[c])
  BY DEF CallsInv, RoutesInv
<1>00. checkRoute(c, "createDeployPreview", "point") => call[c].pc \in {"domain", "route", "quota"}
  BY RouteChecks DEF InCall
<1>1. CASE At(c, "createDeployPreview", "start")
  <2>1. /\ db' = db
        /\ \/ call'[c].pc \in {"idle", "start"}
           \/ /\ call'[c].req = i /\ call'[c].pc = "domain"
              /\ OwnDeployment(db, i.project, i.deployment)
    <3>1. Check(c, requireProjectDeployment(i.project, i.deployment), "domain", None)
      BY <1>00, <1>1 DEF createDeployPreview, At, in
    <3>2. /\ IsResult(requireProjectDeployment(i.project, i.deployment))
          /\ requireProjectDeployment(i.project, i.deployment).out = "ok" => OwnDeployment(db, i.project, i.deployment)
      BY <1>0, FoundOwn
    <3> QED
      BY <3>1, <3>2, CheckLands
  <2> QED
    BY <1>0, <1>1, <2>1, HomeLands DEF Lands, RouteCall, InCall, At
<1>2. CASE checkRoute(c, "createDeployPreview", "point")
  <2>1. /\ db' = db
        /\ \/ call'[c].pc \in {"idle", "start"}
           \/ /\ call'[c].req = i /\ i.op = "createDeployPreview" /\ OwnDeployment(db, i.project, i.deployment)
              /\ \/ call'[c].pc \in {"route", "quota"}
                 \/ call'[c].pc = "point" /\ (call'[c].loc = None \/ OwnTargets(db, i.project, call'[c].loc))
    BY <1>0, <1>2, RouteChecks DEF RouteCall, InCall
  <2> QED
    BY <1>0, <2>1, HomeLands DEF Lands, RouteCall, InCall
<1>3. CASE At(c, "createDeployPreview", "point")
  <2>1. /\ OwnDeployment(db, i.project, i.deployment) /\ i.op = "createDeployPreview"
        /\ l = None \/ OwnTargets(db, i.project, l)
    BY <1>0, <1>3 DEF RouteCall, InCall, At
  <2>2. /\ RoutesOwn(db') /\ db'.deployments = db.deployments
        /\ \/ call'[c].pc \in {"idle", "start"}
           \/ call'[c].req = i /\ call'[c].pc = "insert" /\ call'[c].loc = l
    BY <1>0, <1>00, <1>3, <2>1, TargetsOfOwn, WriteLands, PointedIsOwn DEF createDeployPreview, At, in, loc
  <2>3. l = None \/ OwnTargets(db', i.project, l)
    BY <2>1, <2>2 DEF OwnTargets, OwnDeployment
  <2> QED
    BY <2>1, <2>2, <2>3, HomeLands DEF Lands, RouteCall, InCall
<1>4. CASE At(c, "createDeployPreview", "insert")
  <2>1. l = None \/ OwnTargets(db, i.project, l)
    BY <1>0, <1>4 DEF RouteCall, InCall, At
  <2>2. db' = Pg!createDeployPreview(db, i.id, row).db /\ call'[c].pc \in {"idle", "start"}
    BY <1>00, <1>4, FinishLands DEF createDeployPreview, At, in, loc
  <2>3. row.previous = l /\ row.project = i.project
    OBVIOUS
  <2> HIDE DEF row
  <2> QED
    BY <1>0, <2>1, <2>2, <2>3, PreviewIsOwn, HomeLands
<1> QED
  BY <1>1, <1>2, <1>3, <1>4 DEF createDeployPreview

\* rollbackDeployPreview() restores, or removes, a route of the project of the preview.
LEMMA rollbackDeployPreviewLands ==
  ASSUME CallsInv, RoutesInv, NEW c \in Callers, call[c].pc # "idle", rollbackDeployPreview(c) PROVE Lands(c)
<1> DEFINE i == call[c].req
           l == call[c].loc
<1>0. RoutesOwn(db) /\ DOMAIN db = DOMAIN EmptyDb /\ RouteCall(db, call[c])
  BY DEF CallsInv, RoutesInv
<1>1. CASE At(c, "rollbackDeployPreview", "start")
  <2>1. /\ db' = db
        /\ \/ call'[c].pc \in {"idle", "start"}
           \/ /\ call'[c].req = i /\ call'[c].pc = "route"
              /\ Has(db.previews, i.id) /\ call'[c].loc = db.previews[i.id]
    BY <1>1, ReplyLands, CheckLands DEF rollbackDeployPreview, At, in, Require, Ok, Fail, IsResult
  <2> QED
    BY <1>0, <1>1, <2>1, HomeLands DEF Lands, RouteCall, InCall, At, RoutesOwn, Has
<1>2. CASE At(c, "rollbackDeployPreview", "route")
  <2>1. l.previous = None \/ OwnTargets(db, l.project, l.previous)
    BY <1>0, <1>2 DEF RouteCall, InCall, At
  <2>2. RoutesOwn(restorePreviousRoute(l).db)
    BY <1>0, <2>1, PointedIsOwn, UnpointedIsOwn DEF restorePreviousRoute
  <2>3. /\ db' = restorePreviousRoute(l).db
        /\ \/ call'[c].pc \in {"idle", "start"}
           \/ call'[c].req = i /\ call'[c].pc = "update"
    BY <1>2, WriteLands DEF rollbackDeployPreview, At, loc, in
  <2> QED
    BY <1>2, <2>2, <2>3, HomeLands DEF Lands, RouteCall, InCall, At
<1>3. CASE At(c, "rollbackDeployPreview", "update")
  BY <1>0, <1>3, FinishLands, RolledBackIsOwn, HomeLands DEF rollbackDeployPreview, At, in
<1> QED
  BY <1>1, <1>2, <1>3 DEF rollbackDeployPreview

\* A deployment is created, and no operation removes one or gives it to another project.
LEMMA createDeploymentKeeps == ASSUME CallsInv, NEW c, createDeployment(c) PROVE DeploymentsKept(db, db')
<1>0. DOMAIN db = DOMAIN EmptyDb
  BY DEF CallsInv
<1>1. CASE At(c, "createDeployment", "write")
  <2> DEFINE i == in(c)
             r == Pg!createDeployment(db, i.id, [project |-> i.project, artifact |-> i.artifact, capabilities |-> i.capabilities])
  <2>1. Write(c, r, "audit", None)
    BY <1>1 DEF createDeployment, At
  <2>2. r.db = db \/ (~Has(db.deployments, i.id) /\ \E row : r.db.deployments = Put(db.deployments, i.id, row))
    BY <1>0 DEF Pg!createDeployment, Pg!Insert, Pg!Ok, Pg!Fail, Pg!Put, Put, Pg!Has, Has, EmptyDb
  <2> HIDE DEF r
  <2> QED
    BY <2>1, <2>2 DEF Write, DeploymentsKept, Has, Put
<1>2. CASE ~At(c, "createDeployment", "write")
  <2>1. db'.deployments = db.deployments
    <3>1. CASE At(c, "createDeployment", "start")
      <4>1. \E r : IsResult(r) /\ Check(c, r, "kv", None)
        BY <3>1 DEF createDeployment, At, requireProject, requireArtifact, enforceProjectQuota, Then, Require, Ok, Fail, IsResult
      <4> QED
        BY <4>1, CheckStep
    <3>2. CASE At(c, "createDeployment", "audit")
      BY <1>0, <3>2, FinishStep, AuditWrites DEF createDeployment, At, Writes, Touches, EmptyDb
    <3>3. CASE At(c, "createDeployment", "kv") \/ At(c, "createDeployment", "do") \/ At(c, "createDeployment", "secrets")
      BY <3>3, CheckStep
      DEF createDeployment, At, requireDeploymentSecrets, requireDeploymentServiceBindings, requireDeploymentKvNamespaces,
          requireDeploymentDurableObjectNamespaces, requireOwn, Then, Require, Ok, Fail, IsResult
    <3> QED
      BY <1>2, <3>1, <3>2, <3>3 DEF createDeployment
  <2> QED
    BY <2>1 DEF DeploymentsKept, Has
<1> QED
  BY <1>1, <1>2

\* Every step keeps what RoutesInv says.
LEMMA StepRoutes == ASSUME CallsInv, RoutesInv, NEW c \in Callers, Step(c) PROVE RoutesInv'
<1>1. WritersOnly(c) /\ Moved(c)
  BY Writers, StepCalls DEF CallsInv
<1>2. DeploymentsKept(db, db')
  <2>1. CASE in(c).op = "createDeployment"
    BY <2>1, StepsOfOps, createDeploymentKeeps DEF CallsInv
  <2>2. CASE db'.deployments = db.deployments
    BY <2>2 DEF DeploymentsKept, Has
  <2> QED
    BY <1>1, <2>1, <2>2 DEF WritersOnly
<1>3. Lands(c)
  <2>1. CASE in(c).op \in RouteWriters
    BY <1>1, <2>1, StepsOfOps, pointRouteLands, startRouteCanaryLands, rollbackRouteLands, analyzeRouteCanaryLands,
       createDeployPreviewLands, rollbackDeployPreviewLands
    DEF RouteWriters, CallsInv, WritersOnly
  <2>2. CASE in(c).op \notin RouteWriters
    <3>1. RoutesOwn(db')
      BY <1>1, <1>2, <2>2, OwnElsewhere DEF WritersOnly, RoutesInv
    <3>2. call'[c].pc # "idle" => RouteCall(db', call'[c])
      BY <1>1, <2>2, Carefree DEF Moved, in
    <3> QED
      BY <3>1, <3>2 DEF Lands
  <2> QED
    BY <2>1, <2>2
<1> QED
  BY <1>1, <1>2, <1>3, RoutesStay DEF Lands

\* A process that dies in the middle of a route write keeps the routes in their projects.
LEMMA RetryRoutes == ASSUME CallsInv, RoutesInv, NEW c \in Callers, Retry(c) PROVE RoutesInv'
<1>1. Moved(c) /\ db' = db /\ call'[c].pc = "start"
  BY RetryCalls
<1> QED
  BY <1>1, RoutesStay, Carefree DEF RoutesInv, DeploymentsKept, Has

-----------------------------------------------------------------------------
(* What a call has answered.                                               *)

Answers(c, out) == call'[c].pc \in {"idle", "start"} /\ answered' = answered \union {[req |-> in(c), out |-> out]}

Goes(c, pc, l) == /\ call'[c].req = call[c].req /\ call'[c].pc = pc /\ call'[c].loc = l
                  /\ answered' = answered

\* A statement that fails answers the call with its error code; one that succeeds takes it on.
LEMMA WriteAnswers ==
  ASSUME CallsInv, NEW c \in Callers, NEW r, NEW pc, NEW l, Write(c, r, pc, l)
  PROVE  /\ db' = r.db
         /\ r.out = "ok" => Goes(c, pc, l)
         /\ r.out # "ok" => Answers(c, r.out)
BY GoesOn, GoesHome DEF Write, Goes, Answers

\* A check that throws answers the call with its error code.
LEMMA CheckAnswers ==
  ASSUME CallsInv, NEW c \in Callers, NEW r, IsResult(r), NEW pc, NEW l, Check(c, r, pc, l)
  PROVE  /\ db' = db
         /\ r.out = "ok" => Goes(c, pc, l)
         /\ r.out # "ok" => Answers(c, r.out)
BY WriteAnswers DEF Check, IsResult

\* The last statement of a call answers it with its outcome.
LEMMA FinishAnswers == ASSUME CallsInv, NEW c \in Callers, NEW r, Finish(c, r) PROVE db' = r.db /\ Answers(c, r.out)
BY GoesHome DEF Finish, Answers

\* What an answer adds to the answers given.
LEMMA ReplyAnswers == ASSUME CallsInv, NEW c \in Callers, NEW out, Reply(c, out) PROVE db' = db /\ Answers(c, out)
BY GoesHome DEF Reply, Answers

\* A read answers nothing.
LEMMA AwaitAnswers ==
  ASSUME CallsInv, NEW c \in Callers, NEW pc, NEW l, Await(c, pc, l) PROVE db' = db /\ Goes(c, pc, l)
BY GoesOn DEF Await, Goes

\* The tables whose only key is the primary one.
LEMMA NoUniqueKey ==
  ASSUME NEW d, NEW t \in {"usage", "webhooks", "operations"}, NEW row PROVE Pg!SatisfiesUnique(d, t, row)
<1>1. \A key \in Pg!UniqueKeys : key[1] \notin {"usage", "webhooks", "operations"}
  BY DEF Pg!UniqueKeys, Pg!Schemas, Pg!TenancySchema, Pg!BillingSchema, Pg!RoutingSchema, Pg!FleetSchema
<1> QED
  BY <1>1 DEF Pg!SatisfiesUnique

-----------------------------------------------------------------------------
(* The usage events.                                                       *)

StoredUsage(d, i) == Has(d.usage, i.id) /\ sameUsageEvent(i, d.usage[i.id])

\* What was acknowledged is stored, and a call that lost its insert finds the row that won.
UsageInv ==
  /\ \A y \in answered : y.req.op = "recordUsageEvent" /\ y.out = "ok" => StoredUsage(db, y.req)
  /\ \A c \in Callers : InCall(call[c], "recordUsageEvent", {"raced"}) => Has(db.usage, call[c].req.id)

UsageKept(d, e) == \A x \in DOMAIN d.usage : Has(e.usage, x) /\ e.usage[x] = d.usage[x]

\* A step that loses no usage event, and answers only for one that is stored, keeps UsageInv.
LEMMA UsageStays ==
  ASSUME CallsInv, UsageInv, NEW c \in Callers, Moved(c), UsageKept(db, db'),
         \A y \in answered' \ answered : y.req.op = "recordUsageEvent" /\ y.out = "ok" => StoredUsage(db', y.req),
         InCall(call'[c], "recordUsageEvent", {"raced"}) => Has(db'.usage, call'[c].req.id)
  PROVE  UsageInv'
<1>1. \A i : StoredUsage(db, i) => StoredUsage(db', i)
  BY DEF UsageKept, StoredUsage, Has
<1>2. \A x \in Callers \ {c} : InCall(call'[x], "recordUsageEvent", {"raced"}) => Has(db'.usage, call'[x].req.id)
  BY DEF UsageInv, Moved, UsageKept, Has
<1> QED
  BY <1>1, <1>2 DEF UsageInv

\* recordUsageEvent(), first, as a replay or after a lost race, keeps UsageInv.
LEMMA recordUsageEventKeeps ==
  ASSUME CallsInv, UsageInv, NEW c \in Callers, Moved(c), recordUsageEvent(c) PROVE UsageInv'
<1> DEFINE i == call[c].req
           now == call[c].pc
<1>0. DOMAIN db = DOMAIN EmptyDb /\ UsageKept(db, db) /\ i.op = "recordUsageEvent"
  BY DEF CallsInv, UsageKept, Has, recordUsageEvent, At
<1>1. ASSUME NEW r, IsResult(r), NEW pc, pc # "raced", Check(c, r, pc, None) PROVE UsageInv'
  BY <1>0, <1>1, CheckAnswers, UsageStays DEF Goes, Answers, InCall, in
<1>2. ASSUME Reply(c, resolveUsageEventReplay(i, db.usage[i.id])), Has(db.usage, i.id) PROVE UsageInv'
  <2>1. resolveUsageEventReplay(i, db.usage[i.id]) = "ok" => StoredUsage(db, i)
    BY <1>2 DEF resolveUsageEventReplay, StoredUsage
  <2>2. db' = db /\ Answers(c, resolveUsageEventReplay(i, db.usage[i.id]))
    BY <1>2, ReplyAnswers
  <2> QED
    BY <1>0, <2>1, <2>2, UsageStays DEF Answers, InCall, in
<1>3. CASE At(c, "recordUsageEvent", "start")
  <2>1. CASE Has(db.projects, i.project) /\ Has(db.usage, i.id)
    BY <1>2, <1>3, <2>1 DEF recordUsageEvent, At, in
  <2>2. CASE ~(Has(db.projects, i.project) /\ Has(db.usage, i.id))
    BY <1>1, <1>3, <2>2, RequireResult DEF recordUsageEvent, At, in, requireProject
  <2> QED
    BY <2>1, <2>2
<1>4. CASE At(c, "recordUsageEvent", "quota") \/ At(c, "recordUsageEvent", "budget")
  BY <1>1, <1>4, RequireResult DEF recordUsageEvent, At, in, enforceProjectUsageQuota, enforceProjectBillingBudget
<1>5. CASE At(c, "recordUsageEvent", "insert")
  <2> DEFINE row == [project |-> i.project, quantity |-> i.quantity, at |-> i.at]
             r == Pg!createUsageEvent(db, i)
  <2>1. /\ r.out = "conflict" => Has(db.usage, i.id) /\ r.db = db
        /\ r.out = "ok" => ~Has(db.usage, i.id) /\ r.db.usage = Put(db.usage, i.id, row)
        /\ r.out # "ok" => r.db = db
    BY <1>0, NoUniqueKey DEF Pg!createUsageEvent, Pg!Insert, Pg!Ok, Pg!Fail, Pg!Put, Put, Pg!Has, Has, EmptyDb
  <2>2. sameUsageEvent(i, row)
    BY DEF sameUsageEvent
  <2>3. \/ r.out = "conflict" /\ Await(c, "raced", None)
        \/ r.out # "conflict" /\ Finish(c, r)
    BY <1>5 DEF recordUsageEvent, At, in
  <2> HIDE DEF r, row
  <2>4. CASE r.out = "conflict" /\ Await(c, "raced", None)
    BY <1>0, <2>1, <2>4, AwaitAnswers, UsageStays DEF Goes
  <2>5. CASE r.out # "conflict" /\ Finish(c, r)
    <3>1. db' = r.db /\ Answers(c, r.out)
      BY <2>5, FinishAnswers
    <3>2. UsageKept(db, db')
      BY <1>0, <2>1, <3>1 DEF UsageKept, Has, Put
    <3>3. r.out = "ok" => StoredUsage(db', i)
      BY <2>1, <2>2, <3>1 DEF StoredUsage, Has, Put
    <3> QED
      BY <3>1, <3>2, <3>3, UsageStays DEF Answers, InCall, in
  <2> QED
    BY <2>3, <2>4, <2>5
<1>6. CASE At(c, "recordUsageEvent", "raced")
  <2>1. Has(db.usage, i.id)
    BY <1>6 DEF UsageInv, InCall, At
  <2> QED
    BY <1>2, <1>6, <2>1 DEF recordUsageEvent, At, in
<1> QED
  BY <1>3, <1>4, <1>5, <1>6 DEF recordUsageEvent

\* Every step keeps what UsageInv says.
LEMMA StepUsage == ASSUME CallsInv, UsageInv, NEW c \in Callers, Step(c) PROVE UsageInv'
<1>1. WritersOnly(c) /\ Moved(c)
  BY Writers, StepCalls DEF CallsInv
<1>2. CASE in(c).op = "recordUsageEvent"
  BY <1>1, <1>2, StepsOfOps, recordUsageEventKeeps DEF CallsInv
<1>3. CASE in(c).op # "recordUsageEvent"
  <2>1. UsageKept(db, db')
    BY <1>1, <1>3 DEF WritersOnly, UsageKept, Has
  <2>2. \A y \in answered' \ answered : y.req.op # "recordUsageEvent"
    BY <1>1, <1>3, MovesAnswers DEF WritersOnly
  <2>3. ~InCall(call'[c], "recordUsageEvent", {"raced"})
    BY <1>1, <1>3 DEF Moved, InCall, in
  <2> QED
    BY <1>1, <2>1, <2>2, <2>3, UsageStays
<1> QED
  BY <1>2, <1>3

\* A process that dies in the middle of an ingestion keeps UsageInv.
LEMMA RetryUsage == ASSUME CallsInv, UsageInv, NEW c \in Callers, Retry(c) PROVE UsageInv'
<1>1. Moved(c) /\ db' = db /\ answered' = answered /\ call'[c].pc = "start"
  BY RetryCalls
<1> QED
  BY <1>1, UsageStays DEF UsageKept, Has, InCall

-----------------------------------------------------------------------------
(* The invoices and their webhooks.                                        *)

IssueOp == "issueOrganizationBillingInvoice"

\* The webhook of the invoice that i asks for is enqueued.
Enqueued(d, i) ==
  \E v \in DOMAIN d.invoices :
    /\ d.invoices[v].org = i.org /\ d.invoices[v].period = i.at
    /\ Has(d.webhooks, billingInvoiceIssuedIdempotencyKey(v, d.invoices[v]))

\* No prune has begun.
NoPrune == "pruneBillingInvoices" \notin AskedOps \union InFlight

\* The invoice a call holds is stored, and is the one its request asks for; the
\* webhook that another enqueued first is there.
IssueCall(d, k) ==
  InCall(k, IssueOp, {"audit", "enqueue", "enqueueInsert", "enqueueRaced"}) =>
    /\ Has(d.invoices, k.loc.id) /\ d.invoices[k.loc.id] = k.loc.invoice
    /\ k.loc.invoice.org = k.req.org /\ k.loc.invoice.period = k.req.at
    /\ k.pc = "enqueueRaced" => Has(d.webhooks, billingInvoiceIssuedIdempotencyKey(k.loc.id, k.loc.invoice))

InvoiceInv ==
  NoPrune =>
    /\ \A y \in answered : y.req.op = IssueOp /\ y.out = "ok" => Enqueued(db, y.req)
    /\ \A c \in Callers : IssueCall(db, call[c])

InvoicesKept(d, e) ==
  /\ \A v \in DOMAIN d.invoices : Has(e.invoices, v) /\ e.invoices[v] = d.invoices[v]
  /\ \A w \in DOMAIN d.webhooks : Has(e.webhooks, w)

\* A step that loses no invoice and no webhook, and answers only for one enqueued, keeps InvoiceInv.
LEMMA InvoicesStay ==
  ASSUME CallsInv, InvoiceInv, NoPrune, NEW c \in Callers, Moved(c), InvoicesKept(db, db'),
         \A y \in answered' \ answered : y.req.op = IssueOp /\ y.out = "ok" => Enqueued(db', y.req),
         IssueCall(db', call'[c])
  PROVE  InvoiceInv'
<1>1. \A i : Enqueued(db, i) => Enqueued(db', i)
  BY DEF InvoicesKept, Enqueued, Has
<1>2. \A k : IssueCall(db, k) => IssueCall(db', k)
  BY DEF InvoicesKept, IssueCall, Has
<1>3. \A x \in Callers \ {c} : IssueCall(db', call'[x])
  BY <1>2 DEF InvoiceInv, Moved
<1> QED
  BY <1>1, <1>3 DEF InvoiceInv

\* A prune that has begun stays among the requests.
LEMMA PruneStays ==
  ASSUME CallsInv, NEW c \in Callers, Step(c), NoPrune' PROVE NoPrune /\ in(c).op # "pruneBillingInvoices"
<1>0. WritersOnly(c) /\ Moved(c) /\ DOMAIN db = DOMAIN EmptyDb
  BY Writers, StepCalls DEF CallsInv
<1>1. answered \subseteq answered'
  BY <1>0, MovesAnswers DEF WritersOnly
<1>2. in(c).op # "pruneBillingInvoices"
  <2> SUFFICES ASSUME in(c).op = "pruneBillingInvoices" PROVE FALSE
    OBVIOUS
  <2>1. pruneBillingInvoices(c)
    BY <1>0, StepsOfOps
  <2>2. \/ \E pc, l : pc # "idle" /\ Goes(c, pc, l)
        \/ \E out : Answers(c, out)
    BY <2>1, WriteAnswers, CheckAnswers, RequireResult, AwaitAnswers, ReplyAnswers DEF pruneBillingInvoices, requireOrganization
  <2>3. CASE \E pc, l : pc # "idle" /\ Goes(c, pc, l)
    BY <2>3 DEF Goes, NoPrune, InFlight, in
  <2>4. CASE \E out : Answers(c, out)
    <3>1. in(c) \in Asked'
      BY <2>4 DEF Answers, Asked
    <3> QED
      BY <3>1 DEF NoPrune, AskedOps
  <2> QED
    BY <2>2, <2>3, <2>4
<1>3. "pruneBillingInvoices" \notin AskedOps
  BY <1>1 DEF NoPrune, AskedOps, Asked
<1>4. "pruneBillingInvoices" \notin InFlight
  BY <1>0, <1>2 DEF NoPrune, InFlight, Moved, in
<1> QED
  BY <1>2, <1>3, <1>4 DEF NoPrune

\* Nobody deletes an invoice or a delivery meanwhile.
LEMMA InvoicesAreKept ==
  ASSUME CallsInv, NEW c \in Callers, Step(c), in(c).op # "pruneBillingInvoices" PROVE InvoicesKept(db, db')
<1>0. WritersOnly(c) /\ DOMAIN db = DOMAIN EmptyDb
  BY Writers DEF CallsInv
<1>1. CASE in(c).op = "deliverPendingBillingWebhooks"
  <2>1. deliverPendingBillingWebhooks(c)
    BY <1>0, <1>1, StepsOfOps
  <2>2. DOMAIN db'.webhooks = DOMAIN db.webhooks
    <3>1. CASE At(c, "deliverPendingBillingWebhooks", "record")
      <4>1. \E row : db' = Pg!updateBillingWebhookDelivery(db, loc(c).sent, row).db
        BY <2>1, <3>1, WriteStep DEF deliverPendingBillingWebhooks, At
      <4> QED
        BY <1>0, <4>1 DEF Pg!updateBillingWebhookDelivery, Pg!Update, Pg!Ok, Pg!Fail, EmptyDb
    <3>2. CASE ~At(c, "deliverPendingBillingWebhooks", "record")
      BY <1>0, <2>1, <3>2, AwaitStep, ReplyStep DEF deliverPendingBillingWebhooks, EmptyDb
    <3> QED
      BY <3>1, <3>2
  <2> QED
    BY <1>0, <1>1, <2>2 DEF WritersOnly, InvoicesKept, Has
<1>2. CASE in(c).op = IssueOp
  <2> DEFINE i == in(c)
             now == loc(c)
  <2>1. CASE enqueueBillingInvoiceWebhook(c)
    <3>1. db' = db \/ \E key : db' = Pg!createBillingWebhookDelivery(db, key).db
      BY <2>1, AwaitStep, ReplyStep, FinishStep DEF enqueueBillingInvoiceWebhook
    <3>2. ASSUME NEW key PROVE InvoicesKept(db, Pg!createBillingWebhookDelivery(db, key).db)
      BY <1>0 DEF Pg!createBillingWebhookDelivery, Pg!Insert, Pg!Ok, Pg!Fail, Pg!Put, InvoicesKept, Has, EmptyDb
    <3> QED
      BY <3>1, <3>2 DEF InvoicesKept, Has
  <2>2. CASE issueOrganizationBillingInvoice(c)
    <3>1. CASE At(c, IssueOp, "audit")
      BY <1>0, <2>2, <3>1, WriteStep, AuditWrites DEF issueOrganizationBillingInvoice, IssueOp, At, Writes, Touches, EmptyDb, InvoicesKept, Has
    <3>2. CASE At(c, IssueOp, "insert")
      <4>1. db' = db \/ \E v, row : db' = Pg!createBillingInvoice(db, v, row).db
        BY <2>2, <3>2, WriteStep, AwaitStep DEF issueOrganizationBillingInvoice, IssueOp, At, heldInvoice
      <4>2. ASSUME NEW v, NEW row PROVE InvoicesKept(db, Pg!createBillingInvoice(db, v, row).db)
        BY <1>0 DEF Pg!createBillingInvoice, Pg!Insert, Pg!Ok, Pg!Fail, Pg!Put, Pg!Has, InvoicesKept, Has, EmptyDb
      <4> QED
        BY <4>1, <4>2 DEF InvoicesKept, Has
    <3>3. CASE ~At(c, IssueOp, "audit") /\ ~At(c, IssueOp, "insert")
      <4>1. \A v : issuedBefore(c, v) => db' = db
        BY AwaitStep DEF issuedBefore
      <4>2. db' = db
        BY <2>2, <3>3, <4>1, CheckStep, RequireResult, AwaitStep, ReplyStep
        DEF issueOrganizationBillingInvoice, IssueOp, requireOrganization
      <4> QED
        BY <4>2 DEF InvoicesKept, Has
    <3> QED
      BY <3>1, <3>2, <3>3
  <2> QED
    BY <1>0, <1>2, <2>1, <2>2, StepsOfOps DEF IssueOp
<1>3. CASE in(c).op \notin {"deliverPendingBillingWebhooks", IssueOp}
  BY <1>0, <1>3 DEF WritersOnly, InvoicesKept, IssueOp, Has
<1> QED
  BY <1>1, <1>2, <1>3

\* The steps of the call that issues an invoice.
LEMMA issueKeeps ==
  ASSUME CallsInv, InvoiceInv, NoPrune, NEW c \in Callers, Moved(c), InvoicesKept(db, db'),
         issueOrganizationBillingInvoice(c)
  PROVE  InvoiceInv'
<1> DEFINE i == call[c].req
           ofPeriod == getOrganizationBillingInvoiceByPeriod(i.org, i.at)
<1>0. DOMAIN db = DOMAIN EmptyDb /\ IssueCall(db, call[c])
  BY DEF CallsInv, InvoiceInv
<1>1. ASSUME NEW pc, NEW l, pc \notin {"audit", "enqueue", "enqueueInsert", "enqueueRaced"}, Goes(c, pc, l) PROVE InvoiceInv'
  BY <1>1, InvoicesStay DEF Goes, IssueCall, InCall
<1>2. ASSUME NEW out, out # "ok", Answers(c, out) PROVE InvoiceInv'
  BY <1>2, InvoicesStay DEF Answers, IssueCall, InCall
<1>3. ASSUME NEW v \in ofPeriod, issuedBefore(c, v) PROVE InvoiceInv'
  <2>1. db' = db /\ Goes(c, "enqueue", [id |-> v, invoice |-> db.invoices[v], own |-> FALSE])
    BY <1>3, AwaitAnswers DEF issuedBefore, heldInvoice
  <2>2. v \in DOMAIN db.invoices /\ db.invoices[v].org = i.org /\ db.invoices[v].period = i.at
    BY DEF getOrganizationBillingInvoiceByPeriod
  <2> HIDE DEF i
  <2>3. IssueCall(db', call'[c])
    <3>1. call'[c].loc.id = v /\ call'[c].loc.invoice = db.invoices[v] /\ call'[c].req = i /\ call'[c].pc = "enqueue"
      BY <2>1 DEF Goes, i
    <3> QED
      BY <2>1, <2>2, <3>1 DEF IssueCall, Has
  <2> QED
    BY <2>1, <2>3, InvoicesStay DEF Goes
<1>4. CASE At(c, IssueOp, "start")
  <2>1. \/ \E v \in ofPeriod : issuedBefore(c, v)
        \/ Check(c, requireOrganization(i.org), "summaries", None)
    BY <1>4 DEF issueOrganizationBillingInvoice, IssueOp, At, in
  <2> QED
    BY <1>1, <1>2, <1>3, <2>1, CheckAnswers, RequireResult DEF requireOrganization
<1>5. CASE At(c, IssueOp, "summaries")
  <2>1. \E l : Await(c, "insert", l)
    BY <1>5 DEF issueOrganizationBillingInvoice, IssueOp, At, in
  <2> QED
    BY <1>1, <2>1, AwaitAnswers
<1>6. CASE At(c, IssueOp, "insert")
  <2> DEFINE invoice == createOrganizationBillingInvoice(i, call[c].loc)
             r == Pg!createBillingInvoice(db, i.id, invoice)
             held == [id |-> i.id, invoice |-> invoice, own |-> TRUE]
  <2>1. Await(c, "raced", None) \/ Write(c, r, "audit", held)
    BY <1>6 DEF issueOrganizationBillingInvoice, IssueOp, At, in, loc, heldInvoice
  <2>2. r.out = "ok" => r.db.invoices = Put(db.invoices, i.id, invoice)
    BY <1>0 DEF Pg!createBillingInvoice, Pg!Insert, Pg!Ok, Pg!Fail, Pg!Put, Put, EmptyDb
  <2>3. invoice.org = i.org /\ invoice.period = i.at /\ held.id = i.id /\ held.invoice = invoice
    BY DEF createOrganizationBillingInvoice
  <2> HIDE DEF r, held, invoice
  <2>4. CASE Await(c, "raced", None)
    BY <1>1, <2>4, AwaitAnswers
  <2>5. CASE Write(c, r, "audit", held) /\ r.out = "ok"
    <3>1. db' = r.db /\ Goes(c, "audit", held)
      BY <2>5, WriteAnswers
    <3>2. IssueCall(db', call'[c])
      BY <2>2, <2>3, <2>5, <3>1 DEF IssueCall, Goes, Has, Put
    <3> QED
      BY <3>1, <3>2, InvoicesStay DEF Goes
  <2>6. CASE Write(c, r, "audit", held) /\ r.out # "ok"
    BY <1>2, <2>6, WriteAnswers
  <2> QED
    BY <2>1, <2>4, <2>5, <2>6
<1>7. CASE At(c, IssueOp, "audit")
  <2>1. \E r : Write(c, r, "enqueue", call[c].loc)
    BY <1>7 DEF issueOrganizationBillingInvoice, IssueOp, At, in, loc
  <2>2. PICK r : Write(c, r, "enqueue", call[c].loc)
    BY <2>1
  <2>3. CASE r.out = "ok"
    <3>1. Goes(c, "enqueue", call[c].loc)
      BY <2>2, <2>3, WriteAnswers
    <3>2. IssueCall(db', call'[c])
      BY <1>0, <1>7, <3>1 DEF IssueCall, InCall, At, Goes, InvoicesKept, Has
    <3> QED
      BY <3>1, <3>2, InvoicesStay DEF Goes
  <2> QED
    BY <1>2, <2>2, <2>3, WriteAnswers
<1>8. CASE At(c, IssueOp, "raced")
  <2>1. Reply(c, "conflict") \/ \E v \in ofPeriod : issuedBefore(c, v)
    BY <1>8 DEF issueOrganizationBillingInvoice, IssueOp, At, in
  <2> QED
    BY <1>2, <1>3, <2>1, ReplyAnswers
<1> QED
  BY <1>4, <1>5, <1>6, <1>7, <1>8 DEF issueOrganizationBillingInvoice, IssueOp

\* enqueueBillingInvoiceWebhook(), by the caller that issued or by the one that lost, keeps InvoiceInv.
LEMMA enqueueKeeps ==
  ASSUME CallsInv, InvoiceInv, NoPrune, NEW c \in Callers, Moved(c), InvoicesKept(db, db'),
         enqueueBillingInvoiceWebhook(c)
  PROVE  InvoiceInv'
<1> DEFINE i == call[c].req
           l == call[c].loc
           key == billingInvoiceIssuedIdempotencyKey(l.id, l.invoice)
           r == Pg!createBillingWebhookDelivery(db, key)
<1>0. DOMAIN db = DOMAIN EmptyDb /\ i.op = IssueOp
  BY DEF CallsInv, enqueueBillingInvoiceWebhook, At, IssueOp
<1>1. /\ call[c].pc \in {"enqueue", "enqueueInsert", "enqueueRaced"}
      /\ Has(db.invoices, l.id) /\ db.invoices[l.id] = l.invoice /\ l.invoice.org = i.org /\ l.invoice.period = i.at
      /\ call[c].pc = "enqueueRaced" => Has(db.webhooks, key)
  BY DEF InvoiceInv, IssueCall, InCall, enqueueBillingInvoiceWebhook, At, IssueOp
<1>2. \/ Has(db.webhooks, key) /\ Reply(c, "ok")
      \/ Await(c, "enqueueInsert", l)
      \/ r.out = "conflict" /\ Await(c, "enqueueRaced", l)
      \/ Finish(c, r)
  BY <1>1 DEF enqueueBillingInvoiceWebhook, At, in, loc
<1>3. /\ r.out = "conflict" => Has(db.webhooks, key)
      /\ r.out = "ok" => Has(r.db.webhooks, key)
  BY <1>0, NoUniqueKey DEF Pg!createBillingWebhookDelivery, Pg!Insert, Pg!Ok, Pg!Fail, Pg!Put, Pg!Has, Has, EmptyDb
<1>4. Has(db'.invoices, l.id) /\ db'.invoices[l.id] = l.invoice
  BY <1>1 DEF InvoicesKept, Has
<1>5. Has(db'.webhooks, key) => Enqueued(db', i)
  BY <1>1, <1>4 DEF Enqueued, Has
<1>6. \A pc : IssueCall(db', call'[c]) \/ ~Goes(c, pc, l) \/ (pc = "enqueueRaced" /\ ~Has(db'.webhooks, key))
  BY <1>0, <1>1, <1>4 DEF Goes, IssueCall
<1> HIDE DEF i, l, key, r
<1>7. CASE Has(db.webhooks, key) /\ Reply(c, "ok")
  <2>1. db' = db /\ Answers(c, "ok")
    BY <1>7, ReplyAnswers
  <2>2. Enqueued(db', i) /\ IssueCall(db', call'[c])
    BY <1>5, <1>7, <2>1 DEF Answers, IssueCall, InCall
  <2> QED
    BY <2>1, <2>2, InvoicesStay DEF Answers, in, i
<1>8. CASE Await(c, "enqueueInsert", l) \/ (r.out = "conflict" /\ Await(c, "enqueueRaced", l))
  <2>1. db' = db /\ \E pc : Goes(c, pc, l) /\ (pc = "enqueueRaced" => Has(db.webhooks, key))
    BY <1>3, <1>8, AwaitAnswers
  <2> QED
    BY <1>6, <2>1, InvoicesStay DEF Goes
<1>9. CASE Finish(c, r)
  <2>1. db' = r.db /\ Answers(c, r.out)
    BY <1>9, FinishAnswers
  <2>2. (r.out = "ok" => Enqueued(db', i)) /\ IssueCall(db', call'[c])
    BY <1>3, <1>5, <2>1 DEF Answers, IssueCall, InCall
  <2> QED
    BY <2>1, <2>2, InvoicesStay DEF Answers, in, i
<1> QED
  BY <1>2, <1>7, <1>8, <1>9

\* Every step keeps what InvoiceInv says.
LEMMA StepInvoices == ASSUME CallsInv, InvoiceInv, NEW c \in Callers, Step(c) PROVE InvoiceInv'
<1> SUFFICES ASSUME NoPrune' PROVE InvoiceInv'
  BY DEF InvoiceInv
<1>1. WritersOnly(c) /\ Moved(c) /\ NoPrune /\ InvoicesKept(db, db')
  BY Writers, StepCalls, PruneStays, InvoicesAreKept DEF CallsInv
<1>2. CASE in(c).op = IssueOp
  BY <1>1, <1>2, StepsOfOps, issueKeeps, enqueueKeeps DEF CallsInv, IssueOp
<1>3. CASE in(c).op # IssueOp
  <2>1. \A y \in answered' \ answered : y.req.op # IssueOp
    BY <1>1, <1>3, MovesAnswers DEF WritersOnly
  <2>2. IssueCall(db', call'[c])
    BY <1>1, <1>3 DEF Moved, IssueCall, InCall, in
  <2> QED
    BY <1>1, <2>1, <2>2, InvoicesStay
<1> QED
  BY <1>2, <1>3

\* A process that dies between an invoice and its webhook keeps InvoiceInv.
LEMMA RetryInvoices == ASSUME CallsInv, InvoiceInv, NEW c \in Callers, Retry(c) PROVE InvoiceInv'
<1>1. Moved(c) /\ db' = db /\ answered' = answered /\ call'[c].pc = "start" /\ call'[c].req = call[c].req
  BY RetryCalls
<1>2. NoPrune' => NoPrune
  BY <1>1 DEF NoPrune, AskedOps, Asked, InFlight, Moved, in
<1>3. NoPrune => InvoiceInv'
  BY <1>1, InvoicesStay DEF InvoicesKept, Has, IssueCall, InCall
<1> QED
  BY <1>2, <1>3 DEF InvoiceInv

-----------------------------------------------------------------------------
(* The deliveries.                                                         *)

DeliverOp == "deliverPendingBillingWebhooks"

\* What the endpoint accepted is recorded as accepted, and as nothing else.
DeliveryInv ==
  /\ HonestDeliveries(db)
  /\ \A c \in Callers :
       InCall(call[c], DeliverOp, {"record"}) /\ call[c].req.reply = "accepted" => call[c].loc.sent \in db.received

\* A step that leaves honest deliveries and forgets no accepted webhook keeps DeliveryInv.
LEMMA DeliveriesStay ==
  ASSUME CallsInv, DeliveryInv, NEW c \in Callers, Moved(c), HonestDeliveries(db'), db.received \subseteq db'.received,
         InCall(call'[c], DeliverOp, {"record"}) /\ call'[c].req.reply = "accepted" => call'[c].loc.sent \in db'.received
  PROVE  DeliveryInv'
BY DEF DeliveryInv, Moved

\* deliverPendingBillingWebhooks() records what the endpoint answered, and gives up at the limit.
LEMMA deliverKeeps ==
  ASSUME CallsInv, DeliveryInv, NEW c \in Callers, Moved(c), deliverPendingBillingWebhooks(c) PROVE DeliveryInv'
<1> DEFINE i == call[c].req
           l == call[c].loc
<1>0. DOMAIN db = DOMAIN EmptyDb /\ HonestDeliveries(db)
  BY DEF CallsInv, DeliveryInv
<1>1. CASE At(c, DeliverOp, "start")
  <2>1. \E rows : Await(c, "send", rows)
    BY <1>1 DEF deliverPendingBillingWebhooks, DeliverOp, At
  <2>2. db' = db /\ call'[c].pc = "send"
    BY <2>1, AwaitAnswers DEF Goes
  <2> QED
    BY <1>0, <2>2, DeliveriesStay DEF InCall
<1>2. CASE At(c, DeliverOp, "send") /\ l = NoRows
  <2>1. Reply(c, "ok")
    BY <1>2 DEF deliverPendingBillingWebhooks, DeliverOp, At, loc
  <2>2. db' = db /\ call'[c].pc # "record"
    BY <2>1, ReplyAnswers DEF Answers
  <2> QED
    BY <1>0, <2>2, DeliveriesStay DEF InCall
<1>3. CASE At(c, DeliverOp, "send") /\ l # NoRows
  <2>1. PICK k : /\ db' = [db EXCEPT !.received = IF i.reply = "accepted" THEN @ \union {k} ELSE @]
                 /\ Goto(c, "record", [sent |-> k, rows |-> l])
    BY <1>3 DEF deliverPendingBillingWebhooks, DeliverOp, At, loc, in
  <2>2. /\ db'.webhooks = db.webhooks /\ db.received \subseteq db'.received
        /\ i.reply = "accepted" => k \in db'.received
    BY <1>0, <2>1 DEF EmptyDb
  <2>3. call'[c].req = i /\ call'[c].loc.sent = k
    BY <2>1, GoesOn
  <2>4. HonestDeliveries(db')
    BY <1>0, <2>2 DEF HonestDeliveries
  <2> QED
    BY <2>2, <2>3, <2>4, DeliveriesStay
<1>4. CASE At(c, DeliverOp, "record")
  <2> DEFINE row == attemptBillingWebhookDelivery(l.rows[l.sent], i.reply, i.now)
             r == Pg!updateBillingWebhookDelivery(db, l.sent, row)
  <2>1. \E left : Write(c, r, "send", left)
    BY <1>4 DEF deliverPendingBillingWebhooks, DeliverOp, At, loc, in
  <2>2. /\ row.status = "delivered" => i.reply = "accepted"
        /\ row.status = "pending" => row.attempts < MaxAttempts
    BY DEF attemptBillingWebhookDelivery, failedOrPendingDelivery
  <2>3. i.reply = "accepted" => l.sent \in db.received
    BY <1>4 DEF DeliveryInv, InCall, At, DeliverOp
  <2>4. r.db = db \/ r.db = [db EXCEPT !["webhooks"][l.sent] = row]
    BY DEF Pg!updateBillingWebhookDelivery, Pg!Update, Pg!Ok, Pg!Fail
  <2> HIDE DEF row, r
  <2>5. db' = r.db /\ call'[c].pc # "record"
    BY <2>1, WriteAnswers DEF Goes, Answers
  <2>6. CASE r.db = [db EXCEPT !["webhooks"][l.sent] = row]
    <3>1. /\ db'.received = db.received /\ DOMAIN db'.webhooks = DOMAIN db.webhooks
          /\ \A k \in DOMAIN db.webhooks : db'.webhooks[k] = db.webhooks[k] \/ (k = l.sent /\ db'.webhooks[k] = row)
      BY <1>0, <2>5, <2>6 DEF EmptyDb
    <3>2. HonestDeliveries(db')
      BY <1>0, <2>2, <2>3, <3>1 DEF HonestDeliveries
    <3> QED
      BY <2>5, <3>1, <3>2, DeliveriesStay DEF InCall
  <2> QED
    BY <1>0, <2>4, <2>5, <2>6, DeliveriesStay DEF InCall
<1> QED
  BY <1>1, <1>2, <1>3, <1>4 DEF deliverPendingBillingWebhooks, DeliverOp

\* Every step keeps what DeliveryInv says.
LEMMA StepDeliveries == ASSUME CallsInv, DeliveryInv, NEW c \in Callers, Step(c) PROVE DeliveryInv'
<1>0. WritersOnly(c) /\ Moved(c) /\ DOMAIN db = DOMAIN EmptyDb /\ HonestDeliveries(db)
  BY Writers, StepCalls DEF CallsInv, DeliveryInv
<1>1. CASE in(c).op = DeliverOp
  BY <1>0, <1>1, StepsOfOps, deliverKeeps DEF DeliverOp
<1>2. CASE in(c).op # DeliverOp
  <2>1. ~InCall(call'[c], DeliverOp, {"record"}) /\ db'.received = db.received
    BY <1>0, <1>2 DEF Moved, InCall, in, WritersOnly, DeliverOp
  <2>2. HonestDeliveries(db')
    <3>1. CASE db'.webhooks = db.webhooks
      BY <1>0, <2>1, <3>1 DEF HonestDeliveries
    <3>2. CASE pruneBillingInvoices(c)
      <4>1. db' = db \/ \E v : db' = Pg!deleteBillingInvoice(db, v).db
        <5>1. CASE At(c, "pruneBillingInvoices", "start")
          BY <5>1, <3>2, CheckStep DEF pruneBillingInvoices, At, requireOrganization, Require, Ok, Fail, IsResult
        <5>2. CASE At(c, "pruneBillingInvoices", "policy")
          BY <5>2, <3>2, AwaitStep, ReplyStep DEF pruneBillingInvoices, At
        <5>3. CASE At(c, "pruneBillingInvoices", "delete")
          BY <5>3, <3>2, WriteStep DEF pruneBillingInvoices, At
        <5> QED
          BY <3>2, <5>1, <5>2, <5>3 DEF pruneBillingInvoices
      <4>2. /\ DOMAIN db'.webhooks \subseteq DOMAIN db.webhooks
            /\ \A k \in DOMAIN db'.webhooks : db'.webhooks[k] = db.webhooks[k]
        <5>1. CASE db' = db
          BY <5>1
        <5>2. ASSUME NEW v, db' = Pg!deleteBillingInvoice(db, v).db
              PROVE  db'.webhooks = db.webhooks \/ \E S : db'.webhooks = [x \in DOMAIN db.webhooks \ S |-> db.webhooks[x]]
          <6>1. CASE ~Has(db.invoices, v)
            BY <5>2, <6>1 DEF Pg!deleteBillingInvoice, Pg!Fail, Pg!Has, Has
          <6>2. CASE Has(db.invoices, v)
            <7> DEFINE S == {w \in DOMAIN db.webhooks : w[1] = v}
            <7>1. db'.webhooks = [x \in DOMAIN db.webhooks \ S |-> db.webhooks[x]]
              BY <1>0, <5>2, <6>2 DEF Pg!deleteBillingInvoice, Pg!Ok, Pg!Has, Has, EmptyDb
            <7> QED
              BY <7>1
          <6> QED
            BY <6>1, <6>2
        <5> QED
          BY <4>1, <5>1, <5>2
      <4> QED
        BY <1>0, <2>1, <4>2 DEF HonestDeliveries
    <3>3. CASE issueOrganizationBillingInvoice(c)
      BY <1>0, <3>1, <3>3, BillingEffects DEF Effect, Touches, EmptyDb
    <3>4. CASE enqueueBillingInvoiceWebhook(c)
      <4>1. db' = db \/ \E key : db' = Pg!createBillingWebhookDelivery(db, key).db
        BY <3>4, AwaitStep, ReplyStep, FinishStep DEF enqueueBillingInvoiceWebhook
      <4>2. ASSUME NEW key, db' = Pg!createBillingWebhookDelivery(db, key).db
            PROVE  \/ db'.webhooks = db.webhooks
                   \/ db'.webhooks = Put(db.webhooks, key, [status |-> "pending", attempts |-> 0, next |-> 0])
        BY <1>0, <4>2 DEF Pg!createBillingWebhookDelivery, Pg!Insert, Pg!Ok, Pg!Fail, Pg!Put, Put, EmptyDb
      <4>3. 0 < MaxAttempts
        BY LimitsAssumption
      <4>4. ASSUME NEW key, db'.webhooks = Put(db.webhooks, key, [status |-> "pending", attempts |-> 0, next |-> 0])
            PROVE  HonestDeliveries(db')
        BY <1>0, <2>1, <4>3, <4>4 DEF HonestDeliveries, Put
      <4> QED
        BY <3>1, <4>1, <4>2, <4>4
    <3> QED
      BY <1>0, <1>2, <3>1, <3>2, <3>3, <3>4, StepsOfOps DEF WritersOnly, DeliverOp
  <2> QED
    BY <1>0, <2>1, <2>2, DeliveriesStay
<1> QED
  BY <1>1, <1>2

\* A process that dies between a delivery and its record keeps DeliveryInv.
LEMMA RetryDeliveries == ASSUME CallsInv, DeliveryInv, NEW c \in Callers, Retry(c) PROVE DeliveryInv'
<1>1. Moved(c) /\ db' = db /\ call'[c].pc = "start"
  BY RetryCalls
<1> QED
  BY <1>1, DeliveriesStay DEF DeliveryInv, InCall

-----------------------------------------------------------------------------
(* The edge workers.                                                       *)

CreateOp == "createEdgeWorkerRelease"
DeleteOp == "deleteEdgeWorkerRelease"
RetryOp == "deliverPendingEdgeWorkerReleaseOperations"

\* The script of the release x was deployed again, or may be.
SharedScript(x) ==
  \/ Redeployed(x)
  \/ \E c \in Callers : call[c].pc # "idle" /\ call[c].req.op = CreateOp /\ call[c].req.script = db.releases[x].script

\* The provider was seen to run the script of x no more.
Gone(x) == db.releases[x].script \notin db.scripts \/ SharedScript(x)

\* The row of an operation as a deliverer listed it: it is still to be done, or was done.
Listed(o, row) ==
  /\ Has(db.operations, o) /\ row.release = db.operations[o].release
  /\ DOMAIN row = {"release", "status", "attempts", "next"} /\ row.status = "pending"
  /\ db.operations[o].status = "pending" \/ Gone(row.release)

ListedAll(rows) == \A o \in DOMAIN rows : Listed(o, rows[o])

\* What a deliverer relies on after its awaits.
DelivererCall(k) ==
  /\ InCall(k, RetryOp, {"next"}) => ListedAll(k.loc)
  /\ InCall(k, RetryOp, {"provider", "deleted", "succeeded", "failed", "retry"}) =>
       Listed(k.loc.id, k.loc.row) /\ ListedAll(k.loc.left)
  /\ InCall(k, RetryOp, {"deleted", "succeeded"}) => Gone(k.loc.row.release)

\* The call k deletes x at the provider, and will enqueue a retry when that fails.
DeletingBy(k, x) ==
  InCall(k, DeleteOp, {"start", "mark", "provider", "failed", "enqueue"}) /\ k.req.id = x /\ k.req.deleteProvider

Deleting(x) == \E c \in Callers : DeletingBy(call[c], x)

\* What a call that deletes at the provider found, and still relies on.
DeleterCall(k) ==
  InCall(k, DeleteOp, {"mark", "provider", "failed", "enqueue"}) => k.req.deleteProvider /\ Has(db.releases, k.req.id)

\* No failed deletion is forgotten, but for those whose script was deployed again.
EdgeInv ==
  /\ OperationsInOrder(db)
  /\ \A x \in DOMAIN db.releases : Forgotten(db, x) => SharedScript(x) \/ Deleting(x)
  /\ \A c \in Callers :
       /\ DelivererCall(call[c])
       /\ DeleterCall(call[c])

\* From d to e no release goes, or changes its script.
ReleasesKept(d, e) == \A x \in DOMAIN d.releases : Has(e.releases, x) /\ e.releases[x].script = d.releases[x].script

\* From d to e no operation goes, or changes its release.
OperationsKept(d, e) ==
  \A o \in DOMAIN d.operations : Has(e.operations, o) /\ e.operations[o].release = d.operations[o].release

\* A step other than the deployment of a script leaves what is shared shared, and what is gone gone.
LEMMA SharedStays ==
  ASSUME CallsInv, NEW c \in Callers, Moved(c), ReleasesKept(db, db'), answered \subseteq answered',
         \/ call[c].req.op # CreateOp
         \/ call'[c].req = call[c].req /\ call'[c].pc # "idle"
         \/ \E y \in answered' : /\ y.req = call[c].req
                                 /\ \A x \in DOMAIN db.releases : ~(y.req.id = x /\ y.out = "ok"),
         NEW x \in DOMAIN db.releases, SharedScript(x)
  PROVE  SharedScript(x)'
<1>1. db'.releases[x].script = db.releases[x].script
  BY DEF ReleasesKept
<1>2. CASE Redeployed(x)
  BY <1>1, <1>2 DEF Redeployed, SharedScript
<1>3. ASSUME NEW y \in Callers, call[y].pc # "idle", call[y].req.op = CreateOp,
             call[y].req.script = db.releases[x].script
      PROVE  SharedScript(x)'
  <2>1. CASE y # c \/ (call'[c].req = call[c].req /\ call'[c].pc # "idle")
    BY <1>1, <1>3, <2>1 DEF SharedScript, Moved
  <2>2. CASE y = c /\ \E z \in answered' : /\ z.req = call[c].req
                                           /\ \A w \in DOMAIN db.releases : ~(z.req.id = w /\ z.out = "ok")
    BY <1>1, <1>3, <2>2 DEF SharedScript, Redeployed, CreateOp
  <2> QED
    BY <1>3, <2>1, <2>2
<1> QED
  BY <1>2, <1>3 DEF SharedScript

\* What the calls rely on is kept by a step that keeps the rows, and does no
\* operation that is not done.
LEMMA EdgeStays ==
  ASSUME CallsInv, EdgeInv, NEW c \in Callers, Moved(c),
         ReleasesKept(db, db'), OperationsKept(db, db'), OperationsInOrder(db'),
         \A x \in DOMAIN db.releases : SharedScript(x) => SharedScript(x)',
         \A x \in DOMAIN db.releases : Gone(x) => Gone(x)',
         \A o \in DOMAIN db.operations :
           db.operations[o].status = "pending" =>
             db'.operations[o].status = "pending" \/ Gone(db.operations[o].release)',
         \A x \in DOMAIN db'.releases : Forgotten(db', x) => SharedScript(x)' \/ Deleting(x)',
         DelivererCall(call[c])',
         DeleterCall(call[c])'
  PROVE  EdgeInv'
<1>1. ASSUME NEW o, NEW row, Listed(o, row) PROVE Listed(o, row)'
  <2>1. Has(db.releases, row.release)
    BY <1>1 DEF Listed, EdgeInv, OperationsInOrder, Has
  <2>2. Gone(row.release) => Gone(row.release)'
    BY <2>1 DEF Has
  <2> QED
    BY <1>1, <2>2 DEF Listed, OperationsKept, Has
<1>2. ASSUME NEW d \in Callers \ {c} PROVE DelivererCall(call[d])'
  <2>1. DelivererCall(call[d]) /\ call'[d] = call[d]
    BY DEF EdgeInv, Moved
  <2>2. ASSUME InCall(call[d], RetryOp, {"next"}) PROVE ListedAll(call[d].loc)'
    BY <1>1, <2>1, <2>2 DEF DelivererCall, ListedAll
  <2>3. ASSUME InCall(call[d], RetryOp, {"provider", "deleted", "succeeded", "failed", "retry"})
        PROVE  Listed(call[d].loc.id, call[d].loc.row)' /\ ListedAll(call[d].loc.left)'
    BY <1>1, <2>1, <2>3 DEF DelivererCall, ListedAll
  <2>4. ASSUME InCall(call[d], RetryOp, {"deleted", "succeeded"}) PROVE Gone(call[d].loc.row.release)'
    <3>1. Gone(call[d].loc.row.release) /\ Listed(call[d].loc.id, call[d].loc.row)
      BY <2>1, <2>4 DEF DelivererCall, InCall
    <3>2. Has(db.releases, call[d].loc.row.release)
      BY <3>1 DEF Listed, EdgeInv, OperationsInOrder, Has
    <3> QED
      BY <2>1, <3>1, <3>2 DEF Has
  <2> QED
    BY <2>1, <2>2, <2>3, <2>4 DEF DelivererCall
<1>3. ASSUME NEW d \in Callers \ {c} PROVE DeleterCall(call[d])'
  BY DEF EdgeInv, DeleterCall, Moved, ReleasesKept, Has
<1> QED
  BY <1>2, <1>3 DEF EdgeInv

OperationColumns == {"release", "status", "attempts", "next"}
ReleaseColumns == {"project", "deployment", "script", "status"}

\* Operations stay in order when none comes and rows keep their columns.
LEMMA SameOperations ==
  ASSUME NEW d, NEW e, OperationsInOrder(d), ReleasesKept(d, e),
         DOMAIN e.operations = DOMAIN d.operations, OperationsKept(d, e),
         \A o \in DOMAIN e.operations : DOMAIN e.operations[o] = OperationColumns,
         \A x \in DOMAIN e.releases : DOMAIN e.releases[x] = ReleaseColumns
  PROVE  OperationsInOrder(e) /\ \A x : OperationsOf(e, x) = OperationsOf(d, x)
<1>1. \A x : OperationsOf(e, x) = OperationsOf(d, x)
  BY DEF OperationsOf, OperationsKept
<1> QED
  BY <1>1 DEF OperationsInOrder, OperationsKept, ReleasesKept, Has, OperationColumns, ReleaseColumns

\* What leaves releases and operations alone keeps them in order.
LEMMA OtherTables ==
  ASSUME NEW d, NEW e, OperationsInOrder(d), e.releases = d.releases, e.operations = d.operations
  PROVE  ReleasesKept(d, e) /\ OperationsKept(d, e) /\ OperationsInOrder(e)
<1>1. ReleasesKept(d, e) /\ OperationsKept(d, e)
  BY DEF ReleasesKept, OperationsKept, Has
<1>2. \A o \in DOMAIN e.operations : DOMAIN e.operations[o] = OperationColumns
  BY DEF OperationsInOrder, OperationColumns
<1>3. \A x \in DOMAIN e.releases : DOMAIN e.releases[x] = ReleaseColumns
  BY DEF OperationsInOrder, ReleaseColumns
<1> QED
  BY <1>1, <1>2, <1>3, SameOperations

\* updateEdgeWorkerRelease() changes the status of one release.
LEMMA StatusUpdate ==
  ASSUME OperationsInOrder(db), DOMAIN db = DOMAIN EmptyDb, NEW x, NEW s,
         db' = Pg!updateEdgeWorkerRelease(db, x, s).db
  PROVE  /\ ReleasesKept(db, db') /\ OperationsKept(db, db') /\ OperationsInOrder(db')
         /\ db'.scripts = db.scripts /\ db'.operations = db.operations /\ DOMAIN db'.releases = DOMAIN db.releases
         /\ \A y \in DOMAIN db.releases \ {x} : db'.releases[y] = db.releases[y]
         /\ x \in DOMAIN db.releases => db'.releases[x].status = s
         /\ Pg!updateEdgeWorkerRelease(db, x, s).out = "ok" <=> x \in DOMAIN db.releases
<1> DEFINE r == Pg!updateEdgeWorkerRelease(db, x, s)
<1>1. CASE x \notin DOMAIN db.releases
  <2>1. r.db = db /\ r.out # "ok"
    BY <1>1 DEF Pg!updateEdgeWorkerRelease, Pg!SetColumn, Pg!Fail, Pg!Has
  <2> QED
    BY <1>1, <2>1 DEF ReleasesKept, OperationsKept, Has
<1>2. CASE x \in DOMAIN db.releases
  <2>1. r.db = [db EXCEPT !["releases"][x]["status"] = s] /\ r.out = "ok"
    BY <1>2 DEF Pg!updateEdgeWorkerRelease, Pg!SetColumn, Pg!Ok, Pg!Has
  <2> HIDE DEF r
  <2>2. DOMAIN db.releases[x] = ReleaseColumns
    BY <1>2 DEF OperationsInOrder, ReleaseColumns
  <2>3. db'.releases = [db.releases EXCEPT ![x]["status"] = s] /\ db'.scripts = db.scripts /\ db'.operations = db.operations
    BY <2>1 DEF EmptyDb, r
  <2>4. /\ DOMAIN db'.releases = DOMAIN db.releases
        /\ \A y \in DOMAIN db.releases \ {x} : db'.releases[y] = db.releases[y]
        /\ db'.releases[x] = [db.releases[x] EXCEPT !["status"] = s]
    BY <1>2, <2>3
  <2>5. /\ db'.releases[x].status = s /\ db'.releases[x].script = db.releases[x].script
        /\ DOMAIN db'.releases[x] = ReleaseColumns
    BY <2>2, <2>4 DEF ReleaseColumns
  <2>6. ReleasesKept(db, db') /\ OperationsKept(db, db')
    BY <2>3, <2>4, <2>5 DEF ReleasesKept, OperationsKept, Has
  <2>7. OperationsInOrder(db')
    <3>1. \A y \in DOMAIN db'.releases : DOMAIN db'.releases[y] = ReleaseColumns
      BY <2>4, <2>5 DEF OperationsInOrder, ReleaseColumns
    <3>2. \A o \in DOMAIN db'.operations : DOMAIN db'.operations[o] = OperationColumns
      BY <2>3 DEF OperationsInOrder, OperationColumns
    <3> QED
      BY <2>3, <2>6, <3>1, <3>2, SameOperations
  <2> QED
    BY <1>2, <2>1, <2>3, <2>4, <2>5, <2>6, <2>7 DEF r
<1> QED
  BY <1>1, <1>2

\* createEdgeWorkerReleaseOperation() enqueues a pending operation of an id no operation has.
LEMMA OperationInsert ==
  ASSUME OperationsInOrder(db), DOMAIN db = DOMAIN EmptyDb, NEW x \in DOMAIN db.releases, NEW row,
         DOMAIN row = OperationColumns, row.release = x,
         db' = Pg!createEdgeWorkerReleaseOperation(db, operationId(db, x), row).db
  PROVE  /\ ReleasesKept(db, db') /\ OperationsKept(db, db') /\ OperationsInOrder(db')
         /\ db'.scripts = db.scripts /\ db'.releases = db.releases
         /\ \A o \in DOMAIN db.operations : db'.operations[o] = db.operations[o]
         /\ \A y : y # x => OperationsOf(db', y) = OperationsOf(db, y)
         /\ \E o \in OperationsOf(db', x) : db'.operations[o] = row
<1> DEFINE n == Cardinality(OperationsOf(db, x))
           id == <<x, n>>
           r == Pg!createEdgeWorkerReleaseOperation(db, id, row)
<1>1. operationId(db, x) = id
  BY DEF operationId, OperationsOf
<1>2. \A y : OperationsOf(db, y) \subseteq DOMAIN db.operations /\ Cardinality(OperationsOf(db, y)) \in Nat /\ IsFiniteSet(OperationsOf(db, y))
  <2> TAKE y
  <2>1. IsFiniteSet(DOMAIN db.operations) /\ OperationsOf(db, y) \subseteq DOMAIN db.operations
    BY DEF OperationsInOrder, OperationsOf
  <2> QED
    BY <2>1, FS_Subset, FS_CardinalityType
<1>3. ~Has(db.operations, id)
  <2> SUFFICES ASSUME id \in DOMAIN db.operations PROVE FALSE
    BY DEF Has
  <2>1. PICK m \in 0..Cardinality(OperationsOf(db, db.operations[id].release)) - 1 : id = <<db.operations[id].release, m>>
    BY DEF OperationsInOrder
  <2>2. db.operations[id].release = x /\ m = n
    BY <2>1
  <2> QED
    BY <1>2, <2>1, <2>2
<1>4. r.db = [db EXCEPT !["operations"] = Put(db.operations, id, row)]
  <2>1. Pg!SatisfiesReferences(db, "operations", row)
    BY DEF Pg!SatisfiesReferences, Pg!OptionalKey, Pg!Has, Pg!ForeignKeys, Pg!Schemas, Pg!TenancySchema,
           Pg!BillingSchema, Pg!RoutingSchema, Pg!FleetSchema
  <2>2. Pg!SatisfiesUnique(db, "operations", row)
    BY NoUniqueKey
  <2> QED
    BY <1>3, <2>1, <2>2 DEF Pg!createEdgeWorkerReleaseOperation, Pg!Insert, Pg!Ok, Pg!Put, Put, Pg!Has, Has
<1>5. db'.operations = Put(db.operations, id, row) /\ db'.releases = db.releases /\ db'.scripts = db.scripts
  <2>1. db' = r.db
    BY <1>1
  <2> HIDE DEF id, r
  <2> QED
    BY <1>4, <2>1 DEF EmptyDb
<1> HIDE DEF id, r
<1>6. /\ DOMAIN db'.operations = DOMAIN db.operations \union {id} /\ db'.operations[id] = row
      /\ \A o \in DOMAIN db.operations : db'.operations[o] = db.operations[o]
  BY <1>3, <1>5 DEF Put, Has
<1>7. /\ \A y : y # x => OperationsOf(db', y) = OperationsOf(db, y)
      /\ OperationsOf(db', x) = OperationsOf(db, x) \union {id}
  BY <1>6 DEF OperationsOf
<1>8. Cardinality(OperationsOf(db', x)) = n + 1
  <2>1. id \notin OperationsOf(db, x) /\ IsFiniteSet(OperationsOf(db, x))
    BY <1>2, <1>3 DEF Has
  <2>2. Cardinality(OperationsOf(db, x) \union {id}) = Cardinality(OperationsOf(db, x)) + 1
    BY <2>1, FS_AddElement
  <2> QED
    BY <1>7, <2>2
<1>9. OperationsInOrder(db')
  <2>1. IsFiniteSet(DOMAIN db'.operations)
    BY <1>6, FS_AddElement DEF OperationsInOrder
  <2>2. ASSUME NEW o \in DOMAIN db'.operations
        PROVE  /\ DOMAIN db'.operations[o] = OperationColumns /\ Has(db'.releases, db'.operations[o].release)
               /\ \E m \in 0..Cardinality(OperationsOf(db', db'.operations[o].release)) - 1 :
                    o = <<db'.operations[o].release, m>>
    <3>1. CASE o = id
      <4>1. n \in 0..Cardinality(OperationsOf(db', x)) - 1
        BY <1>2, <1>8
      <4> QED
        BY <1>5, <1>6, <3>1, <4>1 DEF Has, id
    <3>2. CASE o \in DOMAIN db.operations
      <4>1. PICK m \in 0..Cardinality(OperationsOf(db, db.operations[o].release)) - 1 : o = <<db.operations[o].release, m>>
        BY <3>2 DEF OperationsInOrder
      <4>2. db.operations[o].release \in DOMAIN db.releases /\ DOMAIN db.operations[o] = OperationColumns
        BY <3>2 DEF OperationsInOrder, OperationColumns, Has
      <4>3. m \in 0..Cardinality(OperationsOf(db', db.operations[o].release)) - 1
        <5>1. CASE db.operations[o].release # x
          BY <1>7, <4>1, <5>1
        <5>2. CASE db.operations[o].release = x
          <6>1. n \in Nat /\ m \in 0..n - 1
            BY <1>2, <4>1, <5>2
          <6> HIDE DEF n
          <6>2. m \in 0..(n + 1) - 1
            BY <6>1
          <6> QED
            BY <1>8, <5>2, <6>2
        <5> QED
          BY <5>1, <5>2
      <4> QED
        BY <1>5, <1>6, <3>2, <4>1, <4>2, <4>3 DEF Has
    <3> QED
      BY <1>6, <3>1, <3>2
  <2> QED
    BY <1>5, <2>1, <2>2 DEF OperationsInOrder, OperationColumns
<1> QED
  BY <1>5, <1>6, <1>7, <1>9 DEF ReleasesKept, OperationsKept, Has

\* updateEdgeWorkerReleaseOperation() replaces the row of one operation.
LEMMA OperationUpdate ==
  ASSUME OperationsInOrder(db), DOMAIN db = DOMAIN EmptyDb, NEW o \in DOMAIN db.operations, NEW row,
         DOMAIN row = OperationColumns, row.release = db.operations[o].release,
         db' = Pg!updateEdgeWorkerReleaseOperation(db, o, row).db
  PROVE  /\ ReleasesKept(db, db') /\ OperationsKept(db, db') /\ OperationsInOrder(db')
         /\ db'.scripts = db.scripts /\ db'.releases = db.releases
         /\ DOMAIN db'.operations = DOMAIN db.operations /\ db'.operations[o] = row
         /\ \A p \in DOMAIN db.operations \ {o} : db'.operations[p] = db.operations[p]
         /\ \A y : OperationsOf(db', y) = OperationsOf(db, y)
<1>1. db' = [db EXCEPT !["operations"][o] = row]
  BY DEF Pg!updateEdgeWorkerReleaseOperation, Pg!Update, Pg!Ok, Pg!Has
<1>2. /\ db'.scripts = db.scripts /\ db'.releases = db.releases
      /\ DOMAIN db'.operations = DOMAIN db.operations /\ db'.operations[o] = row
      /\ \A p \in DOMAIN db.operations \ {o} : db'.operations[p] = db.operations[p]
  BY <1>1 DEF EmptyDb
<1>3. ReleasesKept(db, db') /\ OperationsKept(db, db')
  BY <1>2 DEF ReleasesKept, OperationsKept, Has
<1>4. /\ \A p \in DOMAIN db'.operations : DOMAIN db'.operations[p] = OperationColumns
      /\ \A x \in DOMAIN db'.releases : DOMAIN db'.releases[x] = ReleaseColumns
  BY <1>2 DEF OperationsInOrder, OperationColumns, ReleaseColumns
<1> QED
  BY <1>2, <1>3, <1>4, SameOperations

\* A release whose script is gone or shared stays so while releases and scripts are only lost.
LEMMA GoneStays ==
  ASSUME ReleasesKept(db, db'), db'.scripts \subseteq db.scripts,
         \A x \in DOMAIN db.releases : SharedScript(x) => SharedScript(x)'
  PROVE  \A x \in DOMAIN db.releases : Gone(x) => Gone(x)'
BY DEF Gone, ReleasesKept

\* A step of another operation.
LEMMA OthersKeepEdge ==
  ASSUME CallsInv, EdgeInv, NEW c \in Callers, WritersOnly(c), Moved(c), call[c].req.op \notin {CreateOp, DeleteOp, RetryOp}
  PROVE  EdgeInv'
<1>1. db'.releases = db.releases /\ db'.scripts = db.scripts /\ db'.operations = db.operations
  BY DEF WritersOnly, ReleaseWriterOps, in, CreateOp, DeleteOp, RetryOp
<1>2. OperationsInOrder(db) /\ ReleasesKept(db, db') /\ OperationsKept(db, db')
  BY <1>1 DEF EdgeInv, ReleasesKept, OperationsKept, Has
<1>3. OperationsInOrder(db')
  BY <1>1, <1>2 DEF OperationsInOrder, OperationsOf
<1>4. answered \subseteq answered'
  BY MovesAnswers DEF WritersOnly
<1>5. \A x \in DOMAIN db.releases : SharedScript(x) => SharedScript(x)'
  BY <1>2, <1>4, SharedStays
<1>6. ASSUME NEW x \in DOMAIN db'.releases, Forgotten(db', x) PROVE SharedScript(x)' \/ Deleting(x)'
  <2>1. Forgotten(db, x)
    BY <1>1, <1>6 DEF Forgotten, OperationsOf
  <2>2. Deleting(x) => Deleting(x)'
    BY DEF Deleting, DeletingBy, Moved, InCall
  <2> QED
    BY <1>1, <1>5, <2>1, <2>2 DEF EdgeInv
<1>7. DelivererCall(call[c])' /\ DeleterCall(call[c])'
  BY DEF DelivererCall, DeleterCall, InCall, Moved, RetryOp, DeleteOp
<1> QED
  BY <1>1, <1>2, <1>3, <1>5, <1>6, <1>7, GoneStays, EdgeStays

\* The steps of a call that deploys a script and then inserts its release.
LEMMA createKeepsEdge ==
  ASSUME CallsInv, EdgeInv, NEW c \in Callers, Moved(c), createEdgeWorkerRelease(c)
  PROVE  EdgeInv'
<1> DEFINE i == call[c].req
           Noted == /\ answered \subseteq answered'
                    /\ \/ call'[c].req = i /\ call'[c].pc # "idle"
                       \/ \E y \in answered' : y.req = i /\ \A x \in DOMAIN db.releases : ~(y.req.id = x /\ y.out = "ok")
<1>0. /\ DOMAIN db = DOMAIN EmptyDb /\ i.op = CreateOp /\ OperationsInOrder(db) /\ call[c].pc # "idle"
      /\ ReleasesKept(db, db) /\ OperationsKept(db, db)
  BY DEF CallsInv, EdgeInv, createEdgeWorkerRelease, At, CreateOp, ReleasesKept, OperationsKept, Has
<1>1. DelivererCall(call[c])' /\ DeleterCall(call[c])'
  BY <1>0 DEF DelivererCall, DeleterCall, InCall, Moved, CreateOp, RetryOp, DeleteOp
<1>2. ASSUME ReleasesKept(db, db'), db'.operations = db.operations, db'.scripts \subseteq db.scripts \union {i.script},
             Noted,
             \A x \in DOMAIN db'.releases :
               /\ DOMAIN db'.releases[x] = ReleaseColumns
               /\ (x \in DOMAIN db.releases /\ db'.releases[x] = db.releases[x]) \/ db'.releases[x].status = "active"
      PROVE  EdgeInv'
  <2>1. \A x \in DOMAIN db.releases : SharedScript(x) => SharedScript(x)'
    BY <1>0, <1>2, SharedStays DEF Noted
  <2>2. ASSUME NEW x \in DOMAIN db.releases, db.releases[x].script = i.script PROVE SharedScript(x)'
    <3>1. db'.releases[x].script = i.script
      BY <1>2, <2>2 DEF ReleasesKept
    <3>2. CASE call'[c].req = i /\ call'[c].pc # "idle"
      BY <1>0, <3>1, <3>2 DEF SharedScript
    <3>3. CASE \E y \in answered' : y.req = i /\ ~(y.req.id = x /\ y.out = "ok")
      BY <1>0, <3>1, <3>3 DEF SharedScript, Redeployed, CreateOp
    <3> QED
      BY <1>2, <2>2, <3>2, <3>3 DEF Noted
  <2>3. ASSUME NEW x \in DOMAIN db.releases, Gone(x) PROVE Gone(x)'
    <3>1. db'.releases[x].script = db.releases[x].script
      BY <1>2 DEF ReleasesKept
    <3> QED
      BY <1>2, <2>1, <2>2, <2>3, <3>1 DEF Gone
  <2>4. ASSUME NEW x \in DOMAIN db'.releases, Forgotten(db', x) PROVE SharedScript(x)' \/ Deleting(x)'
    <3>1. x \in DOMAIN db.releases /\ db'.releases[x] = db.releases[x]
      BY <1>2, <2>4 DEF Forgotten
    <3>2. CASE db.releases[x].script \in db.scripts
      <4>1. Forgotten(db, x)
        BY <1>2, <2>4, <3>1, <3>2 DEF Forgotten, OperationsOf
      <4>2. Deleting(x) => Deleting(x)'
        BY <1>0 DEF Deleting, DeletingBy, Moved, InCall, CreateOp, DeleteOp
      <4> QED
        BY <2>1, <3>1, <4>1, <4>2 DEF EdgeInv
    <3>3. CASE db.releases[x].script \notin db.scripts
      BY <1>2, <2>2, <2>4, <3>1, <3>3 DEF Forgotten
    <3> QED
      BY <3>2, <3>3
  <2>5. OperationsKept(db, db') /\ OperationsInOrder(db')
    <3>1. OperationsKept(db, db') /\ \A o \in DOMAIN db'.operations : DOMAIN db'.operations[o] = OperationColumns
      BY <1>0, <1>2 DEF OperationsKept, OperationsInOrder, OperationColumns, Has
    <3> QED
      BY <1>0, <1>2, <3>1, SameOperations
  <2> QED
    BY <1>1, <1>2, <2>1, <2>3, <2>4, <2>5, EdgeStays
<1>3. ASSUME NEW pc, NEW l, pc # "idle", Goes(c, pc, l) PROVE Noted
  BY <1>3 DEF Goes
<1>4. ASSUME NEW out, Answers(c, out), out # "ok" \/ ~Has(db.releases, i.id) PROVE Noted
  <2> DEFINE y == [req |-> i, out |-> out]
  <2>1. y \in answered' /\ answered \subseteq answered'
    BY <1>4 DEF Answers, in
  <2>2. y.req = i /\ y.out = out
    OBVIOUS
  <2> HIDE DEF y
  <2>3. \A x \in DOMAIN db.releases : ~(y.req.id = x /\ y.out = "ok")
    BY <1>4, <2>2 DEF Has
  <2> QED
    BY <2>1, <2>2, <2>3
<1> HIDE DEF Noted
<1>5. CASE At(c, CreateOp, "start")
  <2>1. PICK r : IsResult(r) /\ Check(c, r, "deploy", None)
    <3>1. IsResult(requireReleaseDeployment(i))
      BY DEF requireReleaseDeployment, requireProject, Then, Require, Ok, Fail, IsResult
    <3> QED
      BY <1>5, <3>1 DEF createEdgeWorkerRelease, CreateOp, At, in
  <2>2. db' = db /\ (Goes(c, "deploy", None) \/ \E out : out # "ok" /\ Answers(c, out))
    BY <2>1, CheckAnswers
  <2>3. \A x \in DOMAIN db'.releases : DOMAIN db'.releases[x] = ReleaseColumns
    BY <1>0, <2>2 DEF OperationsInOrder, ReleaseColumns
  <2> QED
    BY <1>0, <1>2, <1>3, <1>4, <2>2, <2>3
<1>6. CASE At(c, CreateOp, "deploy")
  <2> DEFINE r == [out |-> IF i.reply = "done" THEN "ok" ELSE "validation",
                   db |-> IF i.reply = "error" THEN db ELSE [db EXCEPT !.scripts = @ \union {i.script}]]
  <2>1. Write(c, r, "insert", None)
    BY <1>6 DEF createEdgeWorkerRelease, CreateOp, At, in
  <2>2. /\ r.db.releases = db.releases /\ r.db.operations = db.operations
        /\ r.db.scripts \subseteq db.scripts \union {i.script}
    BY <1>0 DEF EmptyDb
  <2> HIDE DEF r
  <2>3. db' = r.db /\ (Goes(c, "insert", None) \/ \E out : out # "ok" /\ Answers(c, out))
    BY <2>1, WriteAnswers
  <2>4. \A x \in DOMAIN db'.releases : DOMAIN db'.releases[x] = ReleaseColumns
    BY <1>0, <2>2, <2>3 DEF OperationsInOrder, ReleaseColumns
  <2>5. ReleasesKept(db, db')
    BY <2>2, <2>3 DEF ReleasesKept, Has
  <2> QED
    BY <1>2, <1>3, <1>4, <2>2, <2>3, <2>4, <2>5
<1>7. CASE At(c, CreateOp, "insert")
  <2> DEFINE row == [project |-> i.project, deployment |-> i.deployment, script |-> i.script, status |-> "active"]
             r == Pg!createEdgeWorkerRelease(db, i.id, row)
  <2>1. Finish(c, r)
    BY <1>7 DEF createEdgeWorkerRelease, CreateOp, At, in
  <2>2. \/ r.out # "ok" /\ r.db = db
        \/ r.out = "ok" /\ ~Has(db.releases, i.id) /\ r.db = [db EXCEPT !["releases"] = Put(db.releases, i.id, row)]
    BY DEF Pg!createEdgeWorkerRelease, Pg!Insert, Pg!Ok, Pg!Fail, Pg!Put, Put, Pg!Has, Has
  <2>3. DOMAIN row = ReleaseColumns /\ row.status = "active"
    BY DEF ReleaseColumns
  <2> HIDE DEF r, row
  <2>4. db' = r.db /\ Answers(c, r.out)
    BY <2>1, FinishAnswers
  <2>5. \A x \in DOMAIN db.releases : DOMAIN db.releases[x] = ReleaseColumns
    BY <1>0 DEF OperationsInOrder, ReleaseColumns
  <2>6. CASE r.out # "ok" /\ r.db = db
    BY <1>0, <1>2, <1>4, <2>4, <2>5, <2>6
  <2>7. CASE r.out = "ok" /\ ~Has(db.releases, i.id) /\ r.db = [db EXCEPT !["releases"] = Put(db.releases, i.id, row)]
    <3>1. db'.releases = Put(db.releases, i.id, row) /\ db'.operations = db.operations /\ db'.scripts = db.scripts
      BY <1>0, <2>4, <2>7 DEF EmptyDb
    <3>2. ReleasesKept(db, db')
      BY <2>7, <3>1 DEF ReleasesKept, Put, Has
    <3>3. \A x \in DOMAIN db'.releases :
               /\ DOMAIN db'.releases[x] = ReleaseColumns
               /\ (x \in DOMAIN db.releases /\ db'.releases[x] = db.releases[x]) \/ db'.releases[x].status = "active"
      BY <2>3, <2>5, <2>7, <3>1 DEF Put, Has
    <3> QED
      BY <1>2, <1>4, <2>4, <2>7, <3>1, <3>2, <3>3
  <2> QED
    BY <2>2, <2>6, <2>7
<1> QED
  BY <1>5, <1>6, <1>7 DEF createEdgeWorkerRelease, CreateOp

\* The steps of a call that deletes a release: it forgets one neither at the provider
\* nor when that fails.
LEMMA deleteKeepsEdge ==
  ASSUME CallsInv, EdgeInv, NEW c \in Callers, Moved(c), answered \subseteq answered', deleteEdgeWorkerRelease(c)
  PROVE  EdgeInv'
<1> DEFINE i == call[c].req
           x0 == i.id
<1>0. /\ DOMAIN db = DOMAIN EmptyDb /\ i.op = DeleteOp /\ OperationsInOrder(db)
      /\ ReleasesKept(db, db) /\ OperationsKept(db, db)
      /\ \A x \in DOMAIN db.releases : Forgotten(db, x) => SharedScript(x) \/ Deleting(x)
      /\ call[c].pc \in {"mark", "provider", "failed", "enqueue"} => i.deleteProvider /\ Has(db.releases, x0)
  BY DEF CallsInv, EdgeInv, DeleterCall, deleteEdgeWorkerRelease, At, DeleteOp, ReleasesKept, OperationsKept, Has, InCall
<1>1. DelivererCall(call[c])'
  BY <1>0 DEF DelivererCall, InCall, Moved, RetryOp, DeleteOp
<1>2. ASSUME ReleasesKept(db, db') PROVE \A x \in DOMAIN db.releases : SharedScript(x) => SharedScript(x)'
  BY <1>0, <1>2, SharedStays DEF CreateOp, DeleteOp
\* It is enough that it keeps the rows, and leaves no release forgotten that was not, nor its own when it is done.
<1>3. ASSUME ReleasesKept(db, db'), DOMAIN db'.releases = DOMAIN db.releases,
             OperationsKept(db, db'), OperationsInOrder(db'), db'.scripts \subseteq db.scripts,
             \A o \in DOMAIN db.operations : db'.operations[o].status = db.operations[o].status,
             \A x \in DOMAIN db.releases \ {x0} : Forgotten(db', x) => Forgotten(db, x),
             DeletingBy(call'[c], x0) \/ (Has(db.releases, x0) => ~Forgotten(db', x0))
               \/ (~DeletingBy(call[c], x0) /\ (Forgotten(db', x0) => Forgotten(db, x0))),
             DeleterCall(call'[c])
      PROVE  EdgeInv'
  <2>1. \A x \in DOMAIN db.releases : Gone(x) => Gone(x)'
    BY <1>2, <1>3, GoneStays
  <2>2. ASSUME NEW x \in DOMAIN db'.releases, Forgotten(db', x) PROVE SharedScript(x)' \/ Deleting(x)'
    <3>1. CASE x # x0
      <4>1. Deleting(x) => Deleting(x)'
        BY <3>1 DEF Deleting, DeletingBy, Moved
      <4> QED
        BY <1>0, <1>2, <1>3, <2>2, <3>1, <4>1
    <3>2. CASE x = x0 /\ DeletingBy(call'[c], x0)
      BY <3>2 DEF Deleting
    <3>3. CASE x = x0 /\ ~DeletingBy(call[c], x0) /\ Forgotten(db, x0)
      <4>1. Deleting(x) => Deleting(x)'
        BY <3>3 DEF Deleting, Moved
      <4> QED
        BY <1>0, <1>2, <1>3, <2>2, <3>3, <4>1
    <3> QED
      BY <1>3, <2>2, <3>1, <3>2, <3>3 DEF Has
  <2> QED
    BY <1>0, <1>1, <1>2, <1>3, <2>1, <2>2, EdgeStays DEF DeleterCall, ReleasesKept, Has
\* In particular when it writes nothing.
<1>4. ASSUME db' = db, call'[c].pc \notin {"mark", "provider", "failed", "enqueue"} \/ (Goes(c, "mark", None) /\ i.deleteProvider /\ Has(db.releases, x0)),
             \/ DeletingBy(call'[c], x0) \/ ~DeletingBy(call[c], x0)
             \/ (Has(db.releases, x0) => db.releases[x0].status # "failed")
      PROVE  EdgeInv'
  BY <1>0, <1>3, <1>4 DEF Forgotten, Has, InCall, Goes, DeleterCall
<1>5. CASE At(c, DeleteOp, "start")
  <2>1. CASE Has(db.releases, x0) /\ db.releases[x0].status = "deleted"
    <3>1. Reply(c, "ok")
      BY <1>5, <2>1 DEF deleteEdgeWorkerRelease, DeleteOp, At, in
    <3> QED
      BY <1>4, <2>1, <3>1, ReplyAnswers DEF Answers
  <2>2. CASE ~(Has(db.releases, x0) /\ db.releases[x0].status = "deleted")
    <3>1. Check(c, requireEdgeWorkerRelease(x0), IF i.deleteProvider THEN "mark" ELSE "deleted", None)
      BY <1>5, <2>2 DEF deleteEdgeWorkerRelease, DeleteOp, At, in
    <3>2. CASE ~Has(db.releases, x0)
      <4>1. IsResult(requireEdgeWorkerRelease(x0)) /\ requireEdgeWorkerRelease(x0).out # "ok"
        BY <3>2 DEF requireEdgeWorkerRelease, Require, Fail, IsResult
      <4> QED
        BY <1>4, <3>1, <3>2, <4>1, CheckAnswers DEF Answers
    <3>3. CASE Has(db.releases, x0)
      <4>1. IsResult(requireEdgeWorkerRelease(x0)) /\ requireEdgeWorkerRelease(x0).out = "ok"
        BY <3>3 DEF requireEdgeWorkerRelease, Require, Ok, IsResult
      <4>2. db' = db /\ Goes(c, IF i.deleteProvider THEN "mark" ELSE "deleted", None)
        BY <3>1, <4>1, CheckAnswers
      <4>3. CASE i.deleteProvider
        BY <1>0, <1>4, <3>3, <4>2, <4>3 DEF Goes, DeletingBy, InCall
      <4>4. CASE ~i.deleteProvider
        BY <1>4, <4>2, <4>4 DEF Goes, DeletingBy
      <4> QED
        BY <4>3, <4>4
    <3> QED
      BY <3>2, <3>3
  <2> QED
    BY <2>1, <2>2
\* Or when it writes the status of its release.
<1>6. ASSUME NEW s, NEW r, r = Pg!updateEdgeWorkerRelease(db, x0, s), db' = r.db,
             s # "failed" \/ DeletingBy(call'[c], x0) \/ r.out # "ok",
             call'[c].pc \notin {"mark", "provider", "failed", "enqueue"} \/ (call'[c].req = i /\ i.deleteProvider /\ Has(db.releases, x0))
      PROVE  EdgeInv'
  <2>1. /\ ReleasesKept(db, db') /\ OperationsKept(db, db') /\ OperationsInOrder(db')
        /\ db'.scripts = db.scripts /\ db'.operations = db.operations /\ DOMAIN db'.releases = DOMAIN db.releases
        /\ \A y \in DOMAIN db.releases \ {x0} : db'.releases[y] = db.releases[y]
        /\ x0 \in DOMAIN db.releases => db'.releases[x0].status = s
        /\ r.out = "ok" <=> x0 \in DOMAIN db.releases
    BY <1>0, <1>6, StatusUpdate
  <2>2. \A x \in DOMAIN db.releases \ {x0} : Forgotten(db', x) => Forgotten(db, x)
    BY <2>1 DEF Forgotten, OperationsOf
  <2>3. DeletingBy(call'[c], x0) \/ (Has(db.releases, x0) => ~Forgotten(db', x0))
    BY <1>6, <2>1 DEF Forgotten, Has
  <2> QED
    BY <1>3, <1>6, <2>1, <2>2, <2>3 DEF InCall, DeleterCall
<1>7. CASE At(c, DeleteOp, "mark") \/ At(c, DeleteOp, "failed") \/ At(c, DeleteOp, "deleted")
  <2>1. PICK s, pc : /\ \/ Write(c, Pg!updateEdgeWorkerRelease(db, x0, s), pc, None) /\ pc \in {"provider", "enqueue"}
                           /\ i.deleteProvider /\ Has(db.releases, x0)
                        \/ Finish(c, Pg!updateEdgeWorkerRelease(db, x0, s)) /\ s = "deleted"
    BY <1>0, <1>7 DEF deleteEdgeWorkerRelease, DeleteOp, At, in
  <2> DEFINE r == Pg!updateEdgeWorkerRelease(db, x0, s)
  <2> HIDE DEF r
  <2>2. CASE Finish(c, r) /\ s = "deleted"
    BY <1>6, <2>2, FinishAnswers DEF Answers, r
  <2>3. CASE Write(c, r, pc, None) /\ pc \in {"provider", "enqueue"} /\ i.deleteProvider /\ Has(db.releases, x0) /\ r.out = "ok"
    <3>1. db' = r.db /\ Goes(c, pc, None)
      BY <2>3, WriteAnswers
    <3>2. DeletingBy(call'[c], x0) /\ call'[c].req = i
      BY <1>0, <2>3, <3>1 DEF Goes, DeletingBy, InCall
    <3> QED
      BY <1>6, <2>3, <3>1, <3>2 DEF r
  <2>4. CASE Write(c, r, pc, None) /\ r.out # "ok"
    BY <1>6, <2>4, WriteAnswers DEF Answers, r
  <2> QED
    BY <2>1, <2>2, <2>3, <2>4 DEF r
<1>8. CASE At(c, DeleteOp, "provider")
  <2> DEFINE d == deleteProviderEdgeWorkerRelease(db, db.releases[x0].script, i.reply)
             pc == IF i.reply = "done" THEN "deleted" ELSE "failed"
  <2>1. Write(c, Ok(d), pc, None)
    BY <1>8 DEF deleteEdgeWorkerRelease, DeleteOp, At, in
  <2>2. /\ d.releases = db.releases /\ d.operations = db.operations /\ d.scripts \subseteq db.scripts
        /\ i.reply = "done" => db.releases[x0].script \notin d.scripts
    BY <1>0 DEF deleteProviderEdgeWorkerRelease, EmptyDb
  <2> HIDE DEF d, pc
  <2>3. db' = d /\ Goes(c, pc, None)
    BY <2>1, WriteAnswers DEF Ok
  <2>4. ReleasesKept(db, db') /\ OperationsKept(db, db') /\ OperationsInOrder(db')
    BY <1>0, <2>2, <2>3, OtherTables
  <2>5. \A x \in DOMAIN db.releases : Forgotten(db', x) => Forgotten(db, x)
    BY <2>2, <2>3 DEF Forgotten, OperationsOf
  <2>6. DeletingBy(call'[c], x0) \/ ~Forgotten(db', x0)
    BY <1>0, <1>8, <2>2, <2>3 DEF Forgotten, Goes, DeletingBy, InCall, At, pc
  <2>7. DeleterCall(call'[c])
    BY <1>0, <1>8, <2>3 DEF Goes, At, DeleterCall, InCall
  <2> QED
    BY <1>3, <2>2, <2>3, <2>4, <2>5, <2>6, <2>7
<1>9. CASE At(c, DeleteOp, "enqueue")
  <2> DEFINE row == [release |-> x0, status |-> "pending", attempts |-> 0, next |-> i.now]
             r == Pg!createEdgeWorkerReleaseOperation(db, operationId(db, x0), row)
  <2>1. Finish(c, r)
    BY <1>9 DEF deleteEdgeWorkerRelease, DeleteOp, At, in
  <2>2. DOMAIN row = OperationColumns /\ row.release = x0 /\ row.status = "pending"
    BY DEF OperationColumns
  <2> HIDE DEF row
  <2>3. db' = r.db /\ call'[c].pc \in {"idle", "start"}
    BY <2>1, FinishAnswers DEF Answers
  <2>4. x0 \in DOMAIN db.releases
    BY <1>0, <1>9 DEF At, Has
  <2>5. /\ ReleasesKept(db, db') /\ OperationsKept(db, db') /\ OperationsInOrder(db')
        /\ db'.scripts = db.scripts /\ db'.releases = db.releases
        /\ \A o \in DOMAIN db.operations : db'.operations[o] = db.operations[o]
        /\ \A y : y # x0 => OperationsOf(db', y) = OperationsOf(db, y)
        /\ \E o \in OperationsOf(db', x0) : db'.operations[o] = row
    BY <1>0, <2>2, <2>3, <2>4, OperationInsert
  <2>6. \A x \in DOMAIN db.releases \ {x0} : Forgotten(db', x) => Forgotten(db, x)
    BY <2>5 DEF Forgotten, OperationsOf
  <2>7. ~Forgotten(db', x0)
    BY <2>2, <2>5 DEF Forgotten
  <2> QED
    BY <1>3, <2>3, <2>5, <2>6, <2>7 DEF InCall, DeleterCall
<1> QED
  BY <1>5, <1>7, <1>8, <1>9 DEF deleteEdgeWorkerRelease, DeleteOp

\* The steps of a call that retries the operations it has listed: one that is done
\* is done because the script is gone, and any other stays pending.
LEMMA deliverKeepsEdge ==
  ASSUME CallsInv, EdgeInv, NEW c \in Callers, Moved(c), answered \subseteq answered',
         deliverPendingEdgeWorkerReleaseOperations(c)
  PROVE  EdgeInv'
<1> DEFINE i == call[c].req
           l == call[c].loc
           op == l.row
           x0 == op.release
<1>0. /\ DOMAIN db = DOMAIN EmptyDb /\ i.op = RetryOp /\ OperationsInOrder(db)
      /\ \A x \in DOMAIN db.releases : Forgotten(db, x) => SharedScript(x) \/ Deleting(x)
      /\ DelivererCall(call[c])
  BY DEF CallsInv, EdgeInv, deliverPendingEdgeWorkerReleaseOperations, At, RetryOp
<1>1. DeleterCall(call[c])'
  BY <1>0 DEF DeleterCall, InCall, Moved, RetryOp, DeleteOp
<1>2. \A x : Deleting(x) => Deleting(x)'
  BY <1>0 DEF Deleting, DeletingBy, Moved, InCall, RetryOp, DeleteOp
\* What was listed stays so through a step that keeps the rows, and does no operation that is not done.
<1>3. ASSUME ReleasesKept(db, db'), db'.scripts \subseteq db.scripts
      PROVE  \A x \in DOMAIN db.releases : (SharedScript(x) => SharedScript(x)') /\ (Gone(x) => Gone(x)')
  <2>1. \A x \in DOMAIN db.releases : SharedScript(x) => SharedScript(x)'
    BY <1>0, <1>3, SharedStays DEF CreateOp, RetryOp
  <2> QED
    BY <1>3, <2>1, GoneStays
<1>4. ASSUME ReleasesKept(db, db'), DOMAIN db'.releases = DOMAIN db.releases,
             OperationsKept(db, db'), OperationsInOrder(db'), db'.scripts \subseteq db.scripts,
             \A o \in DOMAIN db.operations :
               db.operations[o].status = "pending" =>
                 db'.operations[o].status = "pending" \/ Gone(db.operations[o].release)',
             \A x \in DOMAIN db.releases : Forgotten(db', x) => Forgotten(db, x) \/ Gone(x)',
             DelivererCall(call[c])'
      PROVE  EdgeInv'
  <2>1. ASSUME NEW x \in DOMAIN db'.releases, Forgotten(db', x) PROVE SharedScript(x)' \/ Deleting(x)'
    BY <1>0, <1>2, <1>3, <1>4, <2>1 DEF Forgotten, Gone
  <2> QED
    BY <1>1, <1>3, <1>4, <2>1, EdgeStays
\* So do the rows the call holds.
<1>5. ASSUME ReleasesKept(db, db'), OperationsKept(db, db'), db'.scripts \subseteq db.scripts,
             \A o \in DOMAIN db.operations :
               db.operations[o].status = "pending" =>
                 db'.operations[o].status = "pending" \/ Gone(db.operations[o].release)',
             NEW o, NEW row, Listed(o, row)
      PROVE  Listed(o, row)' /\ row.release \in DOMAIN db.releases
  <2>1. row.release \in DOMAIN db.releases
    BY <1>0, <1>5 DEF Listed, OperationsInOrder, Has
  <2>2. Gone(row.release) => Gone(row.release)'
    BY <1>3, <1>5, <2>1
  <2> QED
    BY <1>5, <2>1, <2>2 DEF Listed, OperationsKept, Has
<1>6. ASSUME db' = db
      PROVE  /\ ReleasesKept(db, db') /\ OperationsKept(db, db') /\ OperationsInOrder(db')
             /\ (DelivererCall(call[c])' => EdgeInv')
             /\ \A o, row : Listed(o, row) => Listed(o, row)'
  <2>1. ReleasesKept(db, db') /\ OperationsKept(db, db') /\ OperationsInOrder(db')
    BY <1>0, <1>6, OtherTables
  <2> QED
    BY <1>4, <1>5, <1>6, <2>1
<1>7. CASE At(c, RetryOp, "start")
  <2>1. PICK rows : Await(c, "next", rows) /\ ListedAll(rows)
    <3> DEFINE rows == [o \in Pg!listPendingEdgeWorkerReleaseOperations(db, i.now) |-> db.operations[o]]
    <3>1. Await(c, "next", rows)
      BY <1>7 DEF deliverPendingEdgeWorkerReleaseOperations, RetryOp, At, in
    <3>2. \A o \in DOMAIN rows : o \in DOMAIN db.operations /\ db.operations[o].status = "pending" /\ rows[o] = db.operations[o]
      BY DEF Pg!listPendingEdgeWorkerReleaseOperations
    <3> HIDE DEF rows
    <3>3. ListedAll(rows)
      BY <1>0, <3>2 DEF ListedAll, Listed, Has, OperationsInOrder
    <3> QED
      BY <3>1, <3>3
  <2>2. db' = db /\ Goes(c, "next", rows)
    BY <2>1, AwaitAnswers
  <2>3. ListedAll(rows)'
    BY <1>6, <2>1, <2>2 DEF ListedAll
  <2>4. DelivererCall(call[c])'
    BY <2>2, <2>3 DEF DelivererCall, Goes, InCall
  <2> QED
    BY <1>6, <2>2, <2>4
<1>8. CASE At(c, RetryOp, "next")
  <2>1. CASE l = NoRows
    <3>1. Reply(c, "ok")
      BY <1>8, <2>1 DEF deliverPendingEdgeWorkerReleaseOperations, RetryOp, At, loc
    <3>2. db' = db /\ call'[c].pc \in {"idle", "start"}
      BY <3>1, ReplyAnswers DEF Answers
    <3> QED
      BY <1>6, <3>2 DEF DelivererCall, InCall
  <2>2. CASE l # NoRows
    <3>1. PICK o \in DOMAIN l : Check(c, requireEdgeWorkerRelease(l[o].release), "provider",
                                      [id |-> o, row |-> l[o], left |-> Drop(l, o)])
      BY <1>8, <2>2 DEF deliverPendingEdgeWorkerReleaseOperations, RetryOp, At, loc
    <3>2. ListedAll(l)
      BY <1>0, <1>8 DEF DelivererCall, InCall, At
    <3>3. IsResult(requireEdgeWorkerRelease(l[o].release))
      BY DEF requireEdgeWorkerRelease, Require, Ok, Fail, IsResult
    <3>4. PICK held : /\ db' = db /\ (Goes(c, "provider", held) \/ \E out : Answers(c, out))
                      /\ Listed(held.id, held.row) /\ ListedAll(held.left)
      <4> DEFINE held == [id |-> o, row |-> l[o], left |-> Drop(l, o)]
      <4>1. db' = db /\ (Goes(c, "provider", held) \/ \E out : Answers(c, out))
        BY <3>1, <3>3, CheckAnswers
      <4>2. /\ held.id = o /\ held.row = l[o] /\ DOMAIN held.left = DOMAIN l \ {o}
            /\ \A p \in DOMAIN held.left : held.left[p] = l[p]
        BY DEF Drop
      <4> HIDE DEF held
      <4>3. Listed(held.id, held.row) /\ ListedAll(held.left)
        BY <3>2, <4>2 DEF ListedAll
      <4> QED
        BY <4>1, <4>3
    <3>6. Listed(held.id, held.row)' /\ ListedAll(held.left)'
      BY <1>6, <3>4 DEF ListedAll
    <3>7. DelivererCall(call[c])'
      BY <3>4, <3>6 DEF DelivererCall, Goes, Answers, InCall
    <3> QED
      BY <1>6, <3>4, <3>7
  <2> QED
    BY <2>1, <2>2
\* The operation the call is at: it was listed, and so was what is left.
<1>9. ASSUME call[c].pc \in {"provider", "deleted", "succeeded", "failed", "retry"}
      PROVE  /\ Listed(l.id, op) /\ ListedAll(l.left) /\ x0 \in DOMAIN db.releases
             /\ l.id \in DOMAIN db.operations /\ db.operations[l.id].release = x0 /\ DOMAIN op = OperationColumns
  <2>1. Listed(l.id, op) /\ ListedAll(l.left)
    BY <1>0, <1>9 DEF DelivererCall, InCall
  <2> QED
    BY <1>0, <2>1 DEF Listed, OperationsInOrder, Has, OperationColumns
\* It goes on to pc with what it holds.
<1>10. ASSUME ReleasesKept(db, db'), OperationsKept(db, db'), db'.scripts \subseteq db.scripts,
              \A o \in DOMAIN db.operations :
                db.operations[o].status = "pending" =>
                  db'.operations[o].status = "pending" \/ Gone(db.operations[o].release)',
              call[c].pc \in {"provider", "deleted", "succeeded", "failed", "retry"},
              NEW pc \in {"provider", "deleted", "succeeded", "failed", "retry"}, Goes(c, pc, l),
              NEW x, x = x0, pc \in {"deleted", "succeeded"} => Gone(x)'
       PROVE  DelivererCall(call[c])'
  <2>1. Listed(l.id, op) /\ ListedAll(l.left)
    BY <1>9, <1>10
  <2>2. PICK h : h = l
    OBVIOUS
  <2>3. Listed(h.id, h.row)' /\ ListedAll(h.left)'
    BY <1>5, <1>10, <2>1, <2>2 DEF ListedAll
  <2>4. pc \in {"deleted", "succeeded"} => Gone(h.row.release)'
    <3>1. h.row.release = x
      BY <1>10, <2>2
    <3> QED
      BY <1>10, <3>1 DEF Gone, SharedScript, Redeployed
  <2>5. call'[c].loc = h /\ call'[c].pc = pc
    BY <1>10, <2>2 DEF Goes
  <2> QED
    BY <2>3, <2>4, <2>5 DEF DelivererCall, InCall
<1>11. CASE At(c, RetryOp, "provider")
  <2>1. PICK x : x = x0
    OBVIOUS
  <2>2. PICK d : d = deleteProviderEdgeWorkerRelease(db, db.releases[x].script, i.reply)
    OBVIOUS
  <2>3. PICK pc : pc = IF i.reply = "done" THEN "deleted" ELSE "failed"
    OBVIOUS
  <2>4. Write(c, Ok(d), pc, l)
    BY <1>11, <2>1, <2>2, <2>3 DEF deliverPendingEdgeWorkerReleaseOperations, RetryOp, At, in, loc
  <2>5. /\ d.releases = db.releases /\ d.operations = db.operations /\ d.scripts \subseteq db.scripts
        /\ pc = "deleted" => db.releases[x].script \notin d.scripts
    BY <1>0, <2>2, <2>3 DEF deleteProviderEdgeWorkerRelease, EmptyDb
  <2>6. db' = d /\ Goes(c, pc, l)
    BY <2>4, WriteAnswers DEF Ok
  <2>7. ReleasesKept(db, db') /\ OperationsKept(db, db') /\ OperationsInOrder(db')
    BY <1>0, <2>5, <2>6, OtherTables
  <2>8. pc \in {"deleted", "succeeded"} => Gone(x)'
    BY <2>3, <2>5, <2>6 DEF Gone
  <2>9. DelivererCall(call[c])'
    BY <1>10, <1>11, <2>1, <2>3, <2>5, <2>6, <2>7, <2>8 DEF At
  <2>10. \A y \in DOMAIN db.releases : Forgotten(db', y) => Forgotten(db, y)
    BY <2>5, <2>6 DEF Forgotten, OperationsOf
  <2> QED
    BY <1>4, <2>5, <2>6, <2>7, <2>9, <2>10
<1>12. CASE At(c, RetryOp, "deleted") \/ At(c, RetryOp, "failed")
  <2>1. PICK x : x = x0
    OBVIOUS
  <2>2. PICK s, pc : /\ Write(c, Pg!updateEdgeWorkerRelease(db, x, s), pc, l)
                     /\ \/ call[c].pc = "deleted" /\ s = "deleted" /\ pc = "succeeded"
                        \/ s = "failed" /\ pc = "retry"
    BY <1>12, <2>1 DEF deliverPendingEdgeWorkerReleaseOperations, RetryOp, At, in, loc
  <2>3. PICK r : r = Pg!updateEdgeWorkerRelease(db, x, s)
    OBVIOUS
  <2>4. Listed(l.id, op) /\ x \in DOMAIN db.releases /\ l.id \in DOMAIN db.operations /\ db.operations[l.id].release = x
    BY <1>9, <1>12, <2>1 DEF At
  <2>5. db' = r.db
    BY <2>2, <2>3, WriteAnswers
  <2>6. /\ ReleasesKept(db, db') /\ OperationsKept(db, db') /\ OperationsInOrder(db')
        /\ db'.scripts = db.scripts /\ db'.operations = db.operations /\ DOMAIN db'.releases = DOMAIN db.releases
        /\ \A y \in DOMAIN db.releases \ {x} : db'.releases[y] = db.releases[y]
        /\ db'.releases[x].status = s /\ r.out = "ok"
    BY <1>0, <2>3, <2>4, <2>5, StatusUpdate
  <2>7. Goes(c, pc, l)
    BY <2>2, <2>3, <2>6, WriteAnswers
  <2>8. Gone(x) => Gone(x)'
    BY <1>3, <2>4, <2>6
  <2>9. call[c].pc = "deleted" => Gone(x)
    BY <1>0, <2>1 DEF DelivererCall, InCall
  <2>10. DelivererCall(call[c])'
    BY <1>10, <1>12, <2>1, <2>2, <2>6, <2>7, <2>8, <2>9 DEF At
  <2>11. ASSUME NEW y \in DOMAIN db.releases, Forgotten(db', y) PROVE Forgotten(db, y) \/ Gone(y)'
    <3>1. CASE y # x
      BY <2>6, <2>11, <3>1 DEF Forgotten, OperationsOf
    <3>2. CASE y = x
      <4>1. db.operations[l.id].status # "pending"
        BY <2>4, <2>6, <2>11, <3>2 DEF Forgotten, OperationsOf
      <4> QED
        BY <2>1, <2>4, <2>8, <3>2, <4>1 DEF Listed
    <3> QED
      BY <3>1, <3>2
  <2> QED
    BY <1>4, <2>6, <2>10, <2>11
\* The call goes to the next operation.
<1>13. ASSUME ReleasesKept(db, db'), OperationsKept(db, db'), db'.scripts \subseteq db.scripts,
              \A o \in DOMAIN db.operations :
                db.operations[o].status = "pending" =>
                  db'.operations[o].status = "pending" \/ Gone(db.operations[o].release)',
              ListedAll(l.left), Goes(c, "next", l.left) \/ \E out : Answers(c, out)
       PROVE  DelivererCall(call[c])'
  <2>1. PICK h : h = l.left
    OBVIOUS
  <2>2. ListedAll(h)'
    BY <1>5, <1>13, <2>1 DEF ListedAll
  <2>3. CASE Goes(c, "next", l.left)
    <3>1. call'[c].loc = h /\ call'[c].pc = "next"
      BY <2>1, <2>3 DEF Goes
    <3> QED
      BY <2>2, <3>1 DEF DelivererCall, InCall
  <2>4. CASE \E out : Answers(c, out)
    BY <2>4 DEF DelivererCall, InCall, Answers
  <2> QED
    BY <1>13, <2>3, <2>4
<1>14. CASE At(c, RetryOp, "succeeded") \/ At(c, RetryOp, "retry")
  <2>1. PICK x, o : x = x0 /\ o = l.id
    OBVIOUS
  <2>2. /\ Listed(o, op) /\ x \in DOMAIN db.releases /\ o \in DOMAIN db.operations /\ db.operations[o].release = x
        /\ ListedAll(l.left) /\ DOMAIN op = OperationColumns /\ op.status = "pending"
    BY <1>9, <1>14, <2>1 DEF At, Listed
  <2>3. PICK row : /\ Write(c, Pg!updateEdgeWorkerReleaseOperation(db, o, row), "next", l.left)
                   /\ \/ row = [op EXCEPT !.status = "succeeded", !.attempts = @ + 1] /\ call[c].pc = "succeeded"
                      \/ row = retriedOperation(op, i.now)
    BY <1>14, <2>1 DEF deliverPendingEdgeWorkerReleaseOperations, RetryOp, At, in, loc
  <2>4. /\ DOMAIN row = OperationColumns /\ row.release = x
        /\ row.status = "pending" \/ call[c].pc = "succeeded"
    BY <2>1, <2>2, <2>3 DEF retriedOperation, OperationColumns
  <2>5. PICK r : r = Pg!updateEdgeWorkerReleaseOperation(db, o, row)
    OBVIOUS
  <2>6. db' = r.db /\ (Goes(c, "next", l.left) \/ \E out : Answers(c, out))
    BY <2>3, <2>5, WriteAnswers
  <2>7. /\ ReleasesKept(db, db') /\ OperationsKept(db, db') /\ OperationsInOrder(db')
        /\ db'.scripts = db.scripts /\ db'.releases = db.releases
        /\ DOMAIN db'.operations = DOMAIN db.operations /\ db'.operations[o] = row
        /\ \A p \in DOMAIN db.operations \ {o} : db'.operations[p] = db.operations[p]
        /\ \A y : OperationsOf(db', y) = OperationsOf(db, y)
    BY <1>0, <2>2, <2>4, <2>5, <2>6, OperationUpdate
  <2>8. call[c].pc = "succeeded" => Gone(x)'
    <3>1. call[c].pc = "succeeded" => Gone(x)
      BY <1>0, <2>1 DEF DelivererCall, InCall
    <3> QED
      BY <1>3, <2>2, <2>7, <3>1
  <2>9. \A p \in DOMAIN db.operations :
          db.operations[p].status = "pending" =>
            db'.operations[p].status = "pending" \/ Gone(db.operations[p].release)'
    <3> TAKE p \in DOMAIN db.operations
    <3>1. PICK y : y = db.operations[p].release
      OBVIOUS
    <3>2. db'.operations[p].release = y
      BY <2>7, <3>1 DEF OperationsKept
    <3>3. CASE p # o
      BY <2>7, <3>3
    <3>4. CASE p = o
      <4>1. y = x /\ (row.status = "pending" \/ Gone(x)')
        BY <2>2, <2>4, <2>8, <3>1, <3>4
      <4> QED
        BY <2>7, <3>2, <3>4, <4>1 DEF Gone, SharedScript, Redeployed
    <3> QED
      BY <3>3, <3>4
  <2>10. DelivererCall(call[c])'
    BY <1>13, <2>2, <2>6, <2>7, <2>9
  <2>11. ASSUME NEW y \in DOMAIN db.releases, Forgotten(db', y) PROVE Forgotten(db, y) \/ Gone(y)'
    <3>1. CASE y # x
      <4>1. \A p \in OperationsOf(db, y) : db'.operations[p] = db.operations[p]
        BY <2>2, <2>7, <3>1 DEF OperationsOf
      <4> QED
        BY <2>7, <2>11, <4>1 DEF Forgotten
    <3>2. CASE y = x
      <4>1. row.status # "pending"
        BY <2>2, <2>7, <2>11, <3>2 DEF Forgotten, OperationsOf
      <4> QED
        BY <2>4, <2>8, <3>2, <4>1
    <3> QED
      BY <3>1, <3>2
  <2> QED
    BY <1>4, <2>7, <2>9, <2>10, <2>11
<1> QED
  BY <1>7, <1>8, <1>11, <1>12, <1>14 DEF deliverPendingEdgeWorkerReleaseOperations, RetryOp

\* Every step keeps what EdgeInv says.
LEMMA StepEdge == ASSUME CallsInv, EdgeInv, NEW c \in Callers, Step(c) PROVE EdgeInv'
<1>1. WritersOnly(c) /\ Moved(c) /\ DOMAIN db = DOMAIN EmptyDb
  BY Writers, StepCalls DEF CallsInv
<1>2. answered \subseteq answered'
  BY <1>1, MovesAnswers DEF WritersOnly
<1>3. CASE in(c).op = CreateOp
  BY <1>1, <1>2, <1>3, StepsOfOps, createKeepsEdge DEF CreateOp
<1>4. CASE in(c).op = DeleteOp
  BY <1>1, <1>2, <1>4, StepsOfOps, deleteKeepsEdge DEF DeleteOp
<1>5. CASE in(c).op = RetryOp
  BY <1>1, <1>2, <1>5, StepsOfOps, deliverKeepsEdge DEF RetryOp
<1>6. CASE in(c).op \notin {CreateOp, DeleteOp, RetryOp}
  BY <1>1, <1>6, OthersKeepEdge DEF in
<1> QED
  BY <1>3, <1>4, <1>5, <1>6

\* A process that dies leaves its call to be made again.
LEMMA RetryEdge == ASSUME CallsInv, EdgeInv, NEW c \in Callers, Retry(c) PROVE EdgeInv'
<1>1. /\ Moved(c) /\ db' = db /\ answered' = answered /\ call'[c].pc = "start" /\ call'[c].req = call[c].req
      /\ call[c].pc \notin {"idle", "start"}
  BY RetryCalls DEF Retry
<1>2. ReleasesKept(db, db') /\ OperationsKept(db, db') /\ OperationsInOrder(db')
  BY <1>1, OtherTables DEF EdgeInv
<1>3. \A x \in DOMAIN db.releases : SharedScript(x) => SharedScript(x)'
  BY <1>1, <1>2, SharedStays DEF Retry
<1>4. \A x \in DOMAIN db.releases : Gone(x) => Gone(x)'
  BY <1>1, <1>2, <1>3, GoneStays
<1>5. ASSUME NEW x, Deleting(x) PROVE Deleting(x)'
  <2>1. DeletingBy(call[c], x) => DeletingBy(call'[c], x)
    BY <1>1 DEF DeletingBy, InCall
  <2>2. \A d \in Callers \ {c} : call'[d] = call[d]
    BY <1>1 DEF Moved
  <2> QED
    BY <1>5, <2>1, <2>2 DEF Deleting
<1>6. \A x \in DOMAIN db'.releases : Forgotten(db', x) => SharedScript(x)' \/ Deleting(x)'
  BY <1>1, <1>3, <1>5 DEF EdgeInv
<1>7. DelivererCall(call[c])' /\ DeleterCall(call[c])'
  BY <1>1 DEF DelivererCall, DeleterCall, InCall
<1> QED
  BY <1>1, <1>2, <1>3, <1>4, <1>6, <1>7, EdgeStays

\* Once every call is answered, no deletion is under way.
LEMMA QuietIsRetried == ASSUME EdgeInv PROVE UndeletedIsRetried
BY DEF EdgeInv, UndeletedIsRetried, Quiet, SharedScript, Deleting, DeletingBy, InCall
-----------------------------------------------------------------------------
(* The invariant, and what it shows.                                       *)

\* Where the calls are, and what each part of the database owes to the others.
IInv == CallsInv /\ KeysInv /\ RoutesInv /\ UsageInv /\ InvoiceInv /\ DeliveryInv /\ EdgeInv

\* Every workload starts from it.
LEMMA WorkloadStarts == ASSUME Init PROVE IInv
<1>1. PICK w \in Workloads : CallsInit(w.db, w.calls)
  BY DEF Init
<1>2. SoundDb(w.db) /\ w.calls \in [Callers -> Seq(Requests)]
  BY WorkloadsAssumption
<1>3. \A c \in Callers : w.calls[c] \in Seq(Requests) /\ call[c] = FirstCall(w.calls[c])
  BY <1>1, <1>2 DEF CallsInit
<1>4. CallsInv
  BY <1>1, <1>2, <1>3, FirstCallStarts DEF CallsInit, CallsInv, SoundDb
<1>5. answered = {} /\ \A c \in Callers : call[c].pc \in {"idle", "start"}
  BY <1>1, <1>3, FirstCallStarts DEF CallsInit
<1>6. Rotated = {}
  BY <1>5 DEF Rotated, Answered, AtAudit
<1>7. KeysInv
  BY <1>1, <1>2, <1>6 DEF CallsInit, SoundDb, KeysInv
<1>8. RoutesInv
  BY <1>1, <1>2, <1>5, Carefree DEF CallsInit, SoundDb, RoutesInv
<1>9. UsageInv /\ InvoiceInv
  BY <1>5 DEF UsageInv, InvoiceInv, InCall, IssueCall
<1>10. DeliveryInv
  BY <1>1, <1>2, <1>5 DEF CallsInit, SoundDb, DeliveryInv, InCall
<1>11. EdgeInv
  BY <1>1, <1>2, <1>5 DEF CallsInit, SoundDb, EdgeInv, DelivererCall, DeleterCall, InCall
<1> QED
  BY <1>4, <1>7, <1>8, <1>9, <1>10, <1>11 DEF IInv

\* A database with no row at all is one a workload may start from.
THEOREM EmptyIsSound == SoundDb(EmptyDb)
<1>1. WithinQuota(EmptyDb)
  <2>1. Resources \subseteq DOMAIN EmptyDb /\ \A resource \in Resources : DOMAIN EmptyDb[resource] = {}
    BY DEF Resources, EmptyDb, NoRows
  <2>2. DOMAIN EmptyDb.routes = {} /\ DOMAIN EmptyDb.usage = {}
    BY DEF EmptyDb, NoRows
  <2> QED
    BY <2>1, <2>2, FS_EmptySet DEF WithinQuota
<1> QED
  BY <1>1, FS_EmptySet DEF SoundDb, EmptyDb, RoutesOwn, NoRows, HonestDeliveries, OperationsInOrder, OneInvoicePerPeriod

\* Every step of a call and every process that dies keeps it.
LEMMA NextKeeps == ASSUME IInv, [Next]_vars PROVE IInv'
<1>1. ASSUME NEW c \in Callers, Step(c) PROVE IInv'
  BY <1>1, StepCalls, StepKeys, StepRoutes, StepUsage, StepInvoices, StepDeliveries, StepEdge DEF IInv
<1>2. ASSUME NEW c \in Callers, Retry(c) PROVE IInv'
  BY <1>2, RetryCalls, RetryKeys, RetryRoutes, RetryUsage, RetryInvoices, RetryDeliveries, RetryEdge DEF IInv
<1>3. CASE UNCHANGED vars
  <2>1. (CallsInv /\ KeysInv /\ RoutesInv)'
    BY <1>3 DEF vars, callVars, IInv, CallsInv, KeysInv, Rotated, Answered, AtAudit, in, RoutesInv
  <2>2. (UsageInv /\ InvoiceInv /\ DeliveryInv)'
    BY <1>3 DEF vars, callVars, IInv, UsageInv, InvoiceInv, NoPrune, AskedOps, Asked, InFlight, in, DeliveryInv
  <2>3. EdgeInv'
    <3>1. db' = db /\ call' = call /\ answered' = answered /\ EdgeInv
      BY <1>3 DEF vars, callVars, IInv
    <3>2. \A x : /\ SharedScript(x)' <=> SharedScript(x)
                 /\ Gone(x)' <=> Gone(x)
                 /\ Deleting(x)' <=> Deleting(x)
      BY <3>1 DEF SharedScript, Redeployed, Gone, Deleting
    <3>3. \A o, row : Listed(o, row)' <=> Listed(o, row)
      BY <3>1, <3>2 DEF Listed
    <3>4. ASSUME NEW c \in Callers PROVE DelivererCall(call[c])' /\ DeleterCall(call[c])'
      BY <3>1, <3>2, <3>3 DEF EdgeInv, DelivererCall, ListedAll, DeleterCall
    <3> QED
      BY <3>1, <3>2, <3>4 DEF EdgeInv
  <2> QED
    BY <2>1, <2>2, <2>3 DEF IInv
<1> QED
  BY <1>1, <1>2, <1>3 DEF Next

\* It says what keys and routes, and the outboxes, are relied on for.
LEMMA InvariantMeans == ASSUME IInv PROVE KeysAndRoutesHold /\ OutboxesSurviveRaces
<1>1. OneRotation
  BY DEF IInv, KeysInv, Rotated, OneRotation, Has
<1>2. RoutesStayInProject
  BY DEF IInv, RoutesInv, RoutesOwn, OwnTargets, OwnDeployment, RoutesStayInProject
<1>3. AcknowledgedUsageIsStored
  BY DEF IInv, UsageInv, StoredUsage, AcknowledgedUsageIsStored, Answered
<1>4. IssuedIsEnqueued
  BY DEF IInv, InvoiceInv, NoPrune, Enqueued, IssuedIsEnqueued, Answered, IssueOp
<1>5. DeliveriesAreHonest /\ UndeletedIsRetried
  BY QuietIsRetried DEF IInv, DeliveryInv, DeliveriesAreHonest
<1> QED
  BY <1>1, <1>2, <1>3, <1>4, <1>5 DEF KeysAndRoutesHold, OutboxesSurviveRaces

\* IInv is an invariant of the control plane, for any number of callers, workload
\* and number of processes that die.
THEOREM ControlPlaneInvariant == Spec => []IInv
<1>1. Init => IInv
  BY WorkloadStarts
<1>2. IInv /\ [Next]_vars => IInv'
  BY NextKeeps
<1> QED
  BY <1>1, <1>2, PTL DEF Spec

\* Whatever operations run at the same time: of the rotations of one API key at
\* most one succeeds (rotateApiKey() locks its row), and no route, nor any route a
\* preview would restore, sends a project's traffic to another project's
\* deployment, though routes are written long after their targets were checked.
THEOREM KeysAndRoutes == Spec => []KeysAndRoutesHold
<1>1. IInv => KeysAndRoutesHold
  BY InvariantMeans
<1> QED
  BY <1>1, ControlPlaneInvariant, PTL

\* Whatever operations run at the same time: a usage event that was acknowledged
\* is stored as it was sent, an invoice that was issued has its webhook, a webhook
\* marked delivered was accepted and one to be sent has attempts left, and an edge
\* worker whose deletion failed is retried or was deployed again, though each takes
\* several statements and any process may die between two of them.
THEOREM Outboxes == Spec => []OutboxesSurviveRaces
<1>1. IInv => OutboxesSurviveRaces
  BY InvariantMeans
<1> QED
  BY <1>1, ControlPlaneInvariant, PTL

-----------------------------------------------------------------------------
(* What the two repositories do alike.  The synchronous control plane is   *)
(* an instance, and its operators are other symbols than those of the      *)
(* asynchronous one although their texts agree.                            *)

\* Insert, upsert, update and delete of sqlite-repository.ts and of postgres-repository.ts find the
\* same keys taken, the same references missing, and leave the same rows.
LEMMA SamePrimitives ==
  /\ \A d, t, k, row : Sync!R!Insert(d, t, k, row) = Pg!Insert(d, t, k, row)
  /\ \A d, t, k, row : Sync!R!Upsert(d, t, k, row) = Pg!Upsert(d, t, k, row)
  /\ \A d, t, k, column, v : Sync!R!SetColumn(d, t, k, column, v) = Pg!SetColumn(d, t, k, column, v)
  /\ \A d, t, k, row : Sync!R!Update(d, t, k, row) = Pg!Update(d, t, k, row)
  /\ \A d, t, k : Sync!R!Delete(d, t, k) = Pg!Delete(d, t, k)
<1>1. \A d, t, row : Sync!R!SatisfiesUnique(d, t, row) = Pg!SatisfiesUnique(d, t, row)
  BY DEF Sync!R!SatisfiesUnique, Pg!SatisfiesUnique, Sync!R!UniqueKeys, Pg!UniqueKeys, Sync!R!Schemas, Pg!Schemas,
         Sync!R!TenancySchema, Pg!TenancySchema, Sync!R!BillingSchema, Pg!BillingSchema, Sync!R!RoutingSchema,
         Pg!RoutingSchema, Sync!R!FleetSchema, Pg!FleetSchema
<1>2. \A d, t, row : Sync!R!SatisfiesReferences(d, t, row) = Pg!SatisfiesReferences(d, t, row)
  BY DEF Sync!R!SatisfiesReferences, Pg!SatisfiesReferences, Sync!R!ForeignKeys, Pg!ForeignKeys, Sync!R!Schemas,
         Pg!Schemas, Sync!R!TenancySchema, Pg!TenancySchema, Sync!R!BillingSchema, Pg!BillingSchema,
         Sync!R!RoutingSchema, Pg!RoutingSchema, Sync!R!FleetSchema, Pg!FleetSchema, Sync!R!OptionalKey,
         Pg!OptionalKey, Sync!R!Has, Pg!Has
<1> QED
  BY <1>1, <1>2
  DEF Sync!R!Insert, Sync!R!Upsert, Sync!R!SetColumn, Sync!R!Update, Sync!R!Delete, Pg!Insert, Pg!Upsert,
      Pg!SetColumn, Pg!Update, Pg!Delete, Sync!R!Has, Pg!Has, Sync!R!Ok, Pg!Ok, Sync!R!Fail, Pg!Fail, Sync!R!Put,
      Pg!Put, Sync!R!Drop, Pg!Drop

\* Every method of the repository does to a database over SQLite what it does over PostgreSQL.
LEMMA SameStatements ==
  /\ \A d, i : Sync!R!createOrganization(d, i) = Pg!createOrganization(d, i)
  /\ \A d, id, profile : Sync!R!updateOrganizationBilling(d, id, profile) = Pg!updateOrganizationBilling(d, id, profile)
  /\ \A d, i : Sync!R!createUser(d, i) = Pg!createUser(d, i)
  /\ \A d, id : Sync!R!updateUserEmailVerification(d, id) = Pg!updateUserEmailVerification(d, id)
  /\ \A d, i : Sync!R!createProject(d, i) = Pg!createProject(d, i)
  /\ \A d, p, u, role : Sync!R!createProjectMembership(d, p, u, role) = Pg!createProjectMembership(d, p, u, role)
  /\ \A d, p, u : Sync!R!acceptProjectMembershipInvite(d, p, u) = Pg!acceptProjectMembershipInvite(d, p, u)
  /\ \A d, p, u, role : Sync!R!updateProjectMembershipRole(d, p, u, role) = Pg!updateProjectMembershipRole(d, p, u, role)
  /\ \A d, p, u : Sync!R!deleteProjectMembership(d, p, u) = Pg!deleteProjectMembership(d, p, u)
  /\ \A d, id, org, project : Sync!R!createApiKey(d, id, org, project) = Pg!createApiKey(d, id, org, project)
  /\ \A d, id : Sync!R!updateApiKeyLastUsed(d, id) = Pg!updateApiKeyLastUsed(d, id)
  /\ \A d, id : Sync!R!revokeApiKey(d, id) = Pg!revokeApiKey(d, id)
  /\ \A d, id, replacement : Sync!R!rotateApiKey(d, id, replacement) = Pg!rotateApiKey(d, id, replacement)
  /\ \A d, i : Sync!R!createProductionQuotaIncrease(d, i) = Pg!createProductionQuotaIncrease(d, i)
  /\ \A d, event : Sync!R!createCustomerAuditEvent(d, event) = Pg!createCustomerAuditEvent(d, event)
  /\ \A d, i : Sync!R!createUsageEvent(d, i) = Pg!createUsageEvent(d, i)
  /\ \A d, id, invoice : Sync!R!createBillingInvoice(d, id, invoice) = Pg!createBillingInvoice(d, id, invoice)
  /\ \A d, id : Sync!R!deleteBillingInvoice(d, id) = Pg!deleteBillingInvoice(d, id)
  /\ \A d, key : Sync!R!createBillingWebhookDelivery(d, key) = Pg!createBillingWebhookDelivery(d, key)
  /\ \A d, key, delivery : Sync!R!updateBillingWebhookDelivery(d, key, delivery) = Pg!updateBillingWebhookDelivery(d, key, delivery)
  /\ \A d, id, invoice : Sync!R!createBillingInvoiceAdjustment(d, id, invoice) = Pg!createBillingInvoiceAdjustment(d, id, invoice)
  /\ \A d, i : Sync!R!upsertBillingInvoiceRetentionPolicy(d, i) = Pg!upsertBillingInvoiceRetentionPolicy(d, i)
  /\ \A d, i : Sync!R!createCustomDomain(d, i) = Pg!createCustomDomain(d, i)
  /\ \A d, id, domain : Sync!R!updateCustomDomain(d, id, domain) = Pg!updateCustomDomain(d, id, domain)
  /\ \A d, id : Sync!R!deleteCustomDomain(d, id) = Pg!deleteCustomDomain(d, id)
  /\ \A d, id, preview : Sync!R!createDeployPreview(d, id, preview) = Pg!createDeployPreview(d, id, preview)
  /\ \A d, id, status : Sync!R!updateDeployPreview(d, id, status) = Pg!updateDeployPreview(d, id, status)
  /\ \A d, id, artifact : Sync!R!createArtifact(d, id, artifact) = Pg!createArtifact(d, id, artifact)
  /\ \A d, i : Sync!R!createSecret(d, i) = Pg!createSecret(d, i)
  /\ \A d, id, value : Sync!R!updateSecretValue(d, id, value) = Pg!updateSecretValue(d, id, value)
  /\ \A d, id : Sync!R!deleteSecret(d, id) = Pg!deleteSecret(d, id)
  /\ \A d, i : Sync!R!createKvNamespace(d, i) = Pg!createKvNamespace(d, i)
  /\ \A d, id : Sync!R!deleteKvNamespace(d, id) = Pg!deleteKvNamespace(d, id)
  /\ \A d, i : Sync!R!createDurableObjectNamespace(d, i) = Pg!createDurableObjectNamespace(d, i)
  /\ \A d, id : Sync!R!deleteDurableObjectNamespace(d, id) = Pg!deleteDurableObjectNamespace(d, id)
  /\ \A d, id, deployment : Sync!R!createDeployment(d, id, deployment) = Pg!createDeployment(d, id, deployment)
  /\ \A d, project, host, targets : Sync!R!upsertRoute(d, project, host, targets) = Pg!upsertRoute(d, project, host, targets)
  /\ \A d, project, host : Sync!R!deleteRoute(d, project, host) = Pg!deleteRoute(d, project, host)
  /\ \A d, decision : Sync!R!createCanaryDecision(d, decision) = Pg!createCanaryDecision(d, decision)
  /\ \A d, id, node : Sync!R!createRuntimeNode(d, id, node) = Pg!createRuntimeNode(d, id, node)
  /\ \A d, id, node : Sync!R!updateRuntimeNodeHeartbeat(d, id, node) = Pg!updateRuntimeNodeHeartbeat(d, id, node)
  /\ \A d, id, status : Sync!R!updateRuntimeNodeStatus(d, id, status) = Pg!updateRuntimeNodeStatus(d, id, status)
  /\ \A d, id : Sync!R!deleteRuntimeNode(d, id) = Pg!deleteRuntimeNode(d, id)
  /\ \A d, publication : Sync!R!createRouteSnapshotPublication(d, publication) = Pg!createRouteSnapshotPublication(d, publication)
  /\ \A d, id, release : Sync!R!createEdgeWorkerRelease(d, id, release) = Pg!createEdgeWorkerRelease(d, id, release)
  /\ \A d, id, status : Sync!R!updateEdgeWorkerRelease(d, id, status) = Pg!updateEdgeWorkerRelease(d, id, status)
  /\ \A d, id, operation : Sync!R!createEdgeWorkerReleaseOperation(d, id, operation) = Pg!createEdgeWorkerReleaseOperation(d, id, operation)
  /\ \A d, now : Sync!R!listPendingEdgeWorkerReleaseOperations(d, now) = Pg!listPendingEdgeWorkerReleaseOperations(d, now)
  /\ \A d, id, operation : Sync!R!updateEdgeWorkerReleaseOperation(d, id, operation) = Pg!updateEdgeWorkerReleaseOperation(d, id, operation)
<1>1. /\ \A d, i : Sync!R!createOrganization(d, i) = Pg!createOrganization(d, i)
      /\ \A d, i : Sync!R!createUser(d, i) = Pg!createUser(d, i)
      /\ \A d, id : Sync!R!updateUserEmailVerification(d, id) = Pg!updateUserEmailVerification(d, id)
      /\ \A d, i : Sync!R!createProject(d, i) = Pg!createProject(d, i)
      /\ \A d, p, u, role : Sync!R!createProjectMembership(d, p, u, role) = Pg!createProjectMembership(d, p, u, role)
      /\ \A d, p, u : Sync!R!acceptProjectMembershipInvite(d, p, u) = Pg!acceptProjectMembershipInvite(d, p, u)
      /\ \A d, p, u, role : Sync!R!updateProjectMembershipRole(d, p, u, role) = Pg!updateProjectMembershipRole(d, p, u, role)
      /\ \A d, p, u : Sync!R!deleteProjectMembership(d, p, u) = Pg!deleteProjectMembership(d, p, u)
      /\ \A d, id, org, project : Sync!R!createApiKey(d, id, org, project) = Pg!createApiKey(d, id, org, project)
      /\ \A d, id : Sync!R!updateApiKeyLastUsed(d, id) = Pg!updateApiKeyLastUsed(d, id)
      /\ \A d, id : Sync!R!revokeApiKey(d, id) = Pg!revokeApiKey(d, id)
      /\ \A d, i : Sync!R!createProductionQuotaIncrease(d, i) = Pg!createProductionQuotaIncrease(d, i)
      /\ \A d, i : Sync!R!createUsageEvent(d, i) = Pg!createUsageEvent(d, i)
      /\ \A d, id, invoice : Sync!R!createBillingInvoice(d, id, invoice) = Pg!createBillingInvoice(d, id, invoice)
      /\ \A d, key : Sync!R!createBillingWebhookDelivery(d, key) = Pg!createBillingWebhookDelivery(d, key)
      /\ \A d, key, delivery : Sync!R!updateBillingWebhookDelivery(d, key, delivery) = Pg!updateBillingWebhookDelivery(d, key, delivery)
      /\ \A d, id, invoice : Sync!R!createBillingInvoiceAdjustment(d, id, invoice) = Pg!createBillingInvoiceAdjustment(d, id, invoice)
      /\ \A d, i : Sync!R!upsertBillingInvoiceRetentionPolicy(d, i) = Pg!upsertBillingInvoiceRetentionPolicy(d, i)
      /\ \A d, i : Sync!R!createCustomDomain(d, i) = Pg!createCustomDomain(d, i)
      /\ \A d, id, domain : Sync!R!updateCustomDomain(d, id, domain) = Pg!updateCustomDomain(d, id, domain)
      /\ \A d, id : Sync!R!deleteCustomDomain(d, id) = Pg!deleteCustomDomain(d, id)
      /\ \A d, id, preview : Sync!R!createDeployPreview(d, id, preview) = Pg!createDeployPreview(d, id, preview)
      /\ \A d, id, status : Sync!R!updateDeployPreview(d, id, status) = Pg!updateDeployPreview(d, id, status)
      /\ \A d, id, artifact : Sync!R!createArtifact(d, id, artifact) = Pg!createArtifact(d, id, artifact)
      /\ \A d, i : Sync!R!createSecret(d, i) = Pg!createSecret(d, i)
      /\ \A d, id, value : Sync!R!updateSecretValue(d, id, value) = Pg!updateSecretValue(d, id, value)
      /\ \A d, id : Sync!R!deleteSecret(d, id) = Pg!deleteSecret(d, id)
      /\ \A d, i : Sync!R!createKvNamespace(d, i) = Pg!createKvNamespace(d, i)
      /\ \A d, id : Sync!R!deleteKvNamespace(d, id) = Pg!deleteKvNamespace(d, id)
      /\ \A d, i : Sync!R!createDurableObjectNamespace(d, i) = Pg!createDurableObjectNamespace(d, i)
      /\ \A d, id : Sync!R!deleteDurableObjectNamespace(d, id) = Pg!deleteDurableObjectNamespace(d, id)
      /\ \A d, id, deployment : Sync!R!createDeployment(d, id, deployment) = Pg!createDeployment(d, id, deployment)
      /\ \A d, project, host, targets : Sync!R!upsertRoute(d, project, host, targets) = Pg!upsertRoute(d, project, host, targets)
      /\ \A d, id, node : Sync!R!createRuntimeNode(d, id, node) = Pg!createRuntimeNode(d, id, node)
      /\ \A d, id, status : Sync!R!updateRuntimeNodeStatus(d, id, status) = Pg!updateRuntimeNodeStatus(d, id, status)
      /\ \A d, id : Sync!R!deleteRuntimeNode(d, id) = Pg!deleteRuntimeNode(d, id)
      /\ \A d, id, release : Sync!R!createEdgeWorkerRelease(d, id, release) = Pg!createEdgeWorkerRelease(d, id, release)
      /\ \A d, id, status : Sync!R!updateEdgeWorkerRelease(d, id, status) = Pg!updateEdgeWorkerRelease(d, id, status)
      /\ \A d, id, operation : Sync!R!createEdgeWorkerReleaseOperation(d, id, operation) = Pg!createEdgeWorkerReleaseOperation(d, id, operation)
      /\ \A d, id, operation : Sync!R!updateEdgeWorkerReleaseOperation(d, id, operation) = Pg!updateEdgeWorkerReleaseOperation(d, id, operation)
  BY SamePrimitives
  DEF Sync!R!createOrganization, Pg!createOrganization, Sync!R!createUser, Pg!createUser,
      Sync!R!updateUserEmailVerification, Pg!updateUserEmailVerification, Sync!R!createProject, Pg!createProject,
      Sync!R!createProjectMembership, Pg!createProjectMembership, Sync!R!acceptProjectMembershipInvite,
      Pg!acceptProjectMembershipInvite, Sync!R!updateProjectMembershipRole, Pg!updateProjectMembershipRole,
      Sync!R!deleteProjectMembership, Pg!deleteProjectMembership, Sync!R!createApiKey, Pg!createApiKey,
      Sync!R!updateApiKeyLastUsed, Pg!updateApiKeyLastUsed, Sync!R!revokeApiKey, Pg!revokeApiKey,
      Sync!R!createProductionQuotaIncrease, Pg!createProductionQuotaIncrease, Sync!R!createUsageEvent,
      Pg!createUsageEvent, Sync!R!createBillingInvoice, Pg!createBillingInvoice,
      Sync!R!createBillingWebhookDelivery, Pg!createBillingWebhookDelivery, Sync!R!updateBillingWebhookDelivery,
      Pg!updateBillingWebhookDelivery, Sync!R!createBillingInvoiceAdjustment, Pg!createBillingInvoiceAdjustment,
      Sync!R!upsertBillingInvoiceRetentionPolicy, Pg!upsertBillingInvoiceRetentionPolicy, Sync!R!createCustomDomain,
      Pg!createCustomDomain, Sync!R!updateCustomDomain, Pg!updateCustomDomain, Sync!R!deleteCustomDomain,
      Pg!deleteCustomDomain, Sync!R!createDeployPreview, Pg!createDeployPreview, Sync!R!updateDeployPreview,
      Pg!updateDeployPreview, Sync!R!createArtifact, Pg!createArtifact, Sync!R!createSecret, Pg!createSecret,
      Sync!R!updateSecretValue, Pg!updateSecretValue, Sync!R!deleteSecret, Pg!deleteSecret,
      Sync!R!createKvNamespace, Pg!createKvNamespace, Sync!R!deleteKvNamespace, Pg!deleteKvNamespace,
      Sync!R!createDurableObjectNamespace, Pg!createDurableObjectNamespace, Sync!R!deleteDurableObjectNamespace,
      Pg!deleteDurableObjectNamespace, Sync!R!createDeployment, Pg!createDeployment, Sync!R!upsertRoute,
      Pg!upsertRoute, Sync!R!createRuntimeNode, Pg!createRuntimeNode, Sync!R!updateRuntimeNodeStatus,
      Pg!updateRuntimeNodeStatus, Sync!R!deleteRuntimeNode, Pg!deleteRuntimeNode, Sync!R!createEdgeWorkerRelease,
      Pg!createEdgeWorkerRelease, Sync!R!updateEdgeWorkerRelease, Pg!updateEdgeWorkerRelease,
      Sync!R!createEdgeWorkerReleaseOperation, Pg!createEdgeWorkerReleaseOperation,
      Sync!R!updateEdgeWorkerReleaseOperation, Pg!updateEdgeWorkerReleaseOperation
<1>2. \A d, id, profile : Sync!R!updateOrganizationBilling(d, id, profile) = Pg!updateOrganizationBilling(d, id, profile)
  BY <1>1, SamePrimitives
  DEF Sync!R!updateOrganizationBilling, Pg!updateOrganizationBilling, Sync!R!Ok, Pg!Ok, Sync!R!Fail, Pg!Fail,
      Sync!R!Has, Pg!Has, Sync!R!OptionalKey, Pg!OptionalKey, Sync!R!Then, Pg!Then, Sync!R!Drop, Pg!Drop
<1>3. \A d, id, replacement : Sync!R!rotateApiKey(d, id, replacement) = Pg!rotateApiKey(d, id, replacement)
  BY <1>1, SamePrimitives
  DEF Sync!R!rotateApiKey, Pg!rotateApiKey, Sync!R!Ok, Pg!Ok, Sync!R!Fail, Pg!Fail, Sync!R!Has, Pg!Has,
      Sync!R!OptionalKey, Pg!OptionalKey, Sync!R!Then, Pg!Then, Sync!R!Drop, Pg!Drop
<1>4. \A d, event : Sync!R!createCustomerAuditEvent(d, event) = Pg!createCustomerAuditEvent(d, event)
  BY <1>1, SamePrimitives
  DEF Sync!R!createCustomerAuditEvent, Pg!createCustomerAuditEvent, Sync!R!Ok, Pg!Ok, Sync!R!Fail, Pg!Fail,
      Sync!R!Has, Pg!Has, Sync!R!OptionalKey, Pg!OptionalKey, Sync!R!Then, Pg!Then, Sync!R!Drop, Pg!Drop
<1>5. \A d, id : Sync!R!deleteBillingInvoice(d, id) = Pg!deleteBillingInvoice(d, id)
  BY <1>1, SamePrimitives
  DEF Sync!R!deleteBillingInvoice, Pg!deleteBillingInvoice, Sync!R!Ok, Pg!Ok, Sync!R!Fail, Pg!Fail, Sync!R!Has,
      Pg!Has, Sync!R!OptionalKey, Pg!OptionalKey, Sync!R!Then, Pg!Then, Sync!R!Drop, Pg!Drop
<1>6. \A d, project, host : Sync!R!deleteRoute(d, project, host) = Pg!deleteRoute(d, project, host)
  BY <1>1, SamePrimitives
  DEF Sync!R!deleteRoute, Pg!deleteRoute, Sync!R!Ok, Pg!Ok, Sync!R!Fail, Pg!Fail, Sync!R!Has, Pg!Has,
      Sync!R!OptionalKey, Pg!OptionalKey, Sync!R!Then, Pg!Then, Sync!R!Drop, Pg!Drop
<1>7. \A d, decision : Sync!R!createCanaryDecision(d, decision) = Pg!createCanaryDecision(d, decision)
  BY <1>1, SamePrimitives
  DEF Sync!R!createCanaryDecision, Pg!createCanaryDecision, Sync!R!Ok, Pg!Ok, Sync!R!Fail, Pg!Fail, Sync!R!Has,
      Pg!Has, Sync!R!OptionalKey, Pg!OptionalKey, Sync!R!Then, Pg!Then, Sync!R!Drop, Pg!Drop
<1>8. \A d, id, node : Sync!R!updateRuntimeNodeHeartbeat(d, id, node) = Pg!updateRuntimeNodeHeartbeat(d, id, node)
  BY <1>1, SamePrimitives
  DEF Sync!R!updateRuntimeNodeHeartbeat, Pg!updateRuntimeNodeHeartbeat, Sync!R!Ok, Pg!Ok, Sync!R!Fail, Pg!Fail,
      Sync!R!Has, Pg!Has, Sync!R!OptionalKey, Pg!OptionalKey, Sync!R!Then, Pg!Then, Sync!R!Drop, Pg!Drop
<1>9. \A d, publication : Sync!R!createRouteSnapshotPublication(d, publication) = Pg!createRouteSnapshotPublication(d, publication)
  BY <1>1, SamePrimitives
  DEF Sync!R!createRouteSnapshotPublication, Pg!createRouteSnapshotPublication, Sync!R!Ok, Pg!Ok, Sync!R!Fail,
      Pg!Fail, Sync!R!Has, Pg!Has, Sync!R!OptionalKey, Pg!OptionalKey, Sync!R!Then, Pg!Then, Sync!R!Drop, Pg!Drop
<1>10. \A d, now : Sync!R!listPendingEdgeWorkerReleaseOperations(d, now) = Pg!listPendingEdgeWorkerReleaseOperations(d, now)
  BY <1>1, SamePrimitives
  DEF Sync!R!listPendingEdgeWorkerReleaseOperations, Pg!listPendingEdgeWorkerReleaseOperations, Sync!R!Ok, Pg!Ok,
      Sync!R!Fail, Pg!Fail, Sync!R!Has, Pg!Has, Sync!R!OptionalKey, Pg!OptionalKey, Sync!R!Then, Pg!Then,
      Sync!R!Drop, Pg!Drop
<1> QED
  BY <1>1, <1>2, <1>3, <1>4, <1>5, <1>6, <1>7, <1>8, <1>9, <1>10

\* The request of an operation is served by the method of service.ts that bears its name.
LEMMA ServesMethods ==
  ASSUME NEW d, NEW i
  PROVE  /\ i.op = "createOrganization" => Sync!Serve(d, i) = Sync!createOrganization(d, i)
         /\ i.op = "updateOrganizationBilling" => Sync!Serve(d, i) = Sync!updateOrganizationBilling(d, i)
         /\ i.op = "createUser" => Sync!Serve(d, i) = Sync!createUser(d, i)
         /\ i.op = "verifyUserEmail" => Sync!Serve(d, i) = Sync!verifyUserEmail(d, i)
         /\ i.op = "createProject" => Sync!Serve(d, i) = Sync!createProject(d, i)
         /\ i.op = "addProjectMembership" => Sync!Serve(d, i) = Sync!addProjectMembership(d, i)
         /\ i.op = "updateProjectMembershipRole" => Sync!Serve(d, i) = Sync!updateProjectMembershipRole(d, i)
         /\ i.op = "removeProjectMembership" => Sync!Serve(d, i) = Sync!removeProjectMembership(d, i)
         /\ i.op = "acceptProjectMembershipInvite" => Sync!Serve(d, i) = Sync!acceptProjectMembershipInvite(d, i)
         /\ i.op = "requestProductionQuotaIncrease" => Sync!Serve(d, i) = Sync!requestProductionQuotaIncrease(d, i)
         /\ i.op = "createApiKey" => Sync!Serve(d, i) = Sync!createApiKey(d, i)
         /\ i.op = "revokeApiKey" => Sync!Serve(d, i) = Sync!revokeApiKey(d, i)
         /\ i.op = "rotateApiKey" => Sync!Serve(d, i) = Sync!rotateApiKey(d, i)
         /\ i.op = "authenticateApiToken" => Sync!Serve(d, i) = Sync!authenticateApiToken(d, i)
         /\ i.op = "createBetaOnboarding" => Sync!Serve(d, i) = Sync!createBetaOnboarding(d, i)
         /\ i.op = "recordUsageEvent" => Sync!Serve(d, i) = Sync!recordUsageEvent(d, i)
         /\ i.op = "issueOrganizationBillingInvoice" => Sync!Serve(d, i) = Sync!issueOrganizationBillingInvoice(d, i)
         /\ i.op = "deliverPendingBillingWebhooks" => Sync!Serve(d, i) = Sync!deliverPendingBillingWebhooks(d, i)
         /\ i.op = "createBillingInvoiceAdjustment" => Sync!Serve(d, i) = Sync!createBillingInvoiceAdjustment(d, i)
         /\ i.op = "setBillingInvoiceRetentionPolicy" => Sync!Serve(d, i) = Sync!setBillingInvoiceRetentionPolicy(d, i)
         /\ i.op = "pruneBillingInvoices" => Sync!Serve(d, i) = Sync!pruneBillingInvoices(d, i)
         /\ i.op = "createArtifact" => Sync!Serve(d, i) = Sync!createArtifact(d, i)
         /\ i.op = "createSecret" => Sync!Serve(d, i) = Sync!createSecret(d, i)
         /\ i.op = "updateSecretValue" => Sync!Serve(d, i) = Sync!updateSecretValue(d, i)
         /\ i.op = "deleteSecret" => Sync!Serve(d, i) = Sync!deleteSecret(d, i)
         /\ i.op = "createKvNamespace" => Sync!Serve(d, i) = Sync!createKvNamespace(d, i)
         /\ i.op = "deleteKvNamespace" => Sync!Serve(d, i) = Sync!deleteKvNamespace(d, i)
         /\ i.op = "createDurableObjectNamespace" => Sync!Serve(d, i) = Sync!createDurableObjectNamespace(d, i)
         /\ i.op = "deleteDurableObjectNamespace" => Sync!Serve(d, i) = Sync!deleteDurableObjectNamespace(d, i)
         /\ i.op = "createDeployment" => Sync!Serve(d, i) = Sync!createDeployment(d, i)
         /\ i.op = "pointRoute" => Sync!Serve(d, i) = Sync!pointRoute(d, i)
         /\ i.op = "startRouteCanary" => Sync!Serve(d, i) = Sync!startRouteCanary(d, i)
         /\ i.op = "rollbackRoute" => Sync!Serve(d, i) = Sync!rollbackRoute(d, i)
         /\ i.op = "analyzeRouteCanary" => Sync!Serve(d, i) = Sync!analyzeRouteCanary(d, i)
         /\ i.op = "createRouteSnapshot" => Sync!Serve(d, i) = Sync!createRouteSnapshot(d, i)
         /\ i.op = "createDeployPreview" => Sync!Serve(d, i) = Sync!createDeployPreview(d, i)
         /\ i.op = "rollbackDeployPreview" => Sync!Serve(d, i) = Sync!rollbackDeployPreview(d, i)
         /\ i.op = "createCustomDomain" => Sync!Serve(d, i) = Sync!createCustomDomain(d, i)
         /\ i.op = "deleteCustomDomain" => Sync!Serve(d, i) = Sync!deleteCustomDomain(d, i)
         /\ i.op = "verifyCustomDomainOwnership" => Sync!Serve(d, i) = Sync!verifyCustomDomainOwnership(d, i)
         /\ i.op = "requestCustomDomainTlsProvisioning" => Sync!Serve(d, i) = Sync!requestCustomDomainTlsProvisioning(d, i)
         /\ i.op = "completeCustomDomainTlsProvisioning" => Sync!Serve(d, i) = Sync!completeCustomDomainTlsProvisioning(d, i)
         /\ i.op = "registerRuntimeNode" => Sync!Serve(d, i) = Sync!registerRuntimeNode(d, i)
         /\ i.op = "recordRuntimeNodeHeartbeat" => Sync!Serve(d, i) = Sync!recordRuntimeNodeHeartbeat(d, i)
         /\ i.op = "updateRuntimeNodeStatus" => Sync!Serve(d, i) = Sync!updateRuntimeNodeStatus(d, i)
         /\ i.op = "cleanupRuntimeNodes" => Sync!Serve(d, i) = Sync!cleanupRuntimeNodes(d, i)
         /\ i.op = "listActiveRuntimeNodes" => Sync!Serve(d, i) = Sync!listActiveRuntimeNodes(d, i)
         /\ i.op = "recordRouteSnapshotPublication" => Sync!Serve(d, i) = Sync!recordRouteSnapshotPublication(d, i)
         /\ i.op = "createEdgeWorkerRelease" => Sync!Serve(d, i) = Sync!createEdgeWorkerRelease(d, i)
         /\ i.op = "deleteEdgeWorkerRelease" => Sync!Serve(d, i) = Sync!deleteEdgeWorkerRelease(d, i)
         /\ i.op = "deliverPendingEdgeWorkerReleaseOperations" => Sync!Serve(d, i) = Sync!deliverPendingEdgeWorkerReleaseOperations(d, i)
BY ZenonT(100) DEF Sync!Serve

-----------------------------------------------------------------------------
(* The methods of service.ts, statement by statement: tenancy.             *)

\* The two audit logs are written alike.
LEMMA SameAudit ==
  \A d, action, target, org, project :
    Sync!recordCustomerAuditEvent(d, action, target, org, project)
      = recordCustomerAuditEvent(d, action, target, org, project)
BY SameStatements DEF Sync!recordCustomerAuditEvent, recordCustomerAuditEvent, Sync!Provided, Then,
   Sync!Require, Require, Sync!Ok, Ok, Sync!Fail, Fail, Sync!OptionalKey, OptionalKey, Sync!Has, Has

MemberAudit(d, i, action) == recordCustomerAuditEvent(d, action, i.user, d.projects[i.project].org, i.project)

Found(d, table, id) == Require(d, Has(d[table], id), "not_found")
ProjectAndUser(d, i) == Provided(Found(d, "projects", i.project), Found(d, "users", i.user))

MemberAdded(d, i) ==
  LET w == Pg!createProjectMembership(d, i.project, i.user, i.role) IN
  Provided(w, MemberAudit(w.db, i, "project_member.added"))
RoleUpdated(d, i) ==
  LET w == Pg!updateProjectMembershipRole(d, i.project, i.user, i.role) IN
  Provided(w, MemberAudit(w.db, i, "project_member.role_updated"))
MemberRemoved(d, i) ==
  LET w == Pg!deleteProjectMembership(d, i.project, i.user) IN
  Provided(w, MemberAudit(w.db, i, "project_member.removed"))
InviteAccepted(d, i) ==
  LET w == Pg!acceptProjectMembershipInvite(d, i.project, i.user) IN
  Provided(w, MemberAudit(w.db, i, "project_member.accepted"))
KeyIssued(d, id, org, project) ==
  LET w == Pg!createApiKey(d, id, org, project) IN
  Provided(w, recordCustomerAuditEvent(w.db, "api_key.created", id, org, project))
KeyAudit(d, id, action) == recordCustomerAuditEvent(d, action, id, d.apiKeys[id].org, d.apiKeys[id].project)
OrganizationOf(d, i) == IF i.org = None /\ i.project # None THEN d.projects[i.project].org ELSE i.org

\* What createOrganization() of service.ts comes to.
LEMMA createOrganizationServed ==
  ASSUME NEW d, NEW i
  PROVE  Sync!createOrganization(d, i) = Pg!createOrganization(d, i)
<1> USE DEF Sync!Provided, Provided, Sync!Require, Require, Sync!Ok, Ok, Sync!Fail, Fail, Sync!Has, Has,
            Sync!OptionalKey, OptionalKey, Sync!Then, Found, ProjectAndUser, MemberAudit,
            Sync!requireOrganization, Sync!requireUser, Sync!requireProject, Sync!requireProjectAndUser, Sync!auditMember,
            Sync!normalizeProjectRole, Sync!ProjectRoles, Roles
<1> QED
  BY SameStatements, SameAudit DEF Sync!createOrganization

\* What updateOrganizationBilling() of service.ts comes to.
LEMMA updateOrganizationBillingServed ==
  ASSUME NEW d, NEW i
  PROVE  Sync!updateOrganizationBilling(d, i) =
            Provided(Found(d, "organizations", i.org),
              Pg!updateOrganizationBilling(d, i.org,
                [payment |-> IF i.payment = None THEN d.organizations[i.org].payment ELSE i.payment,
                 email |-> IF i.email = None THEN d.organizations[i.org].email ELSE i.email]))
<1> USE DEF Sync!Provided, Provided, Sync!Require, Require, Sync!Ok, Ok, Sync!Fail, Fail, Sync!Has, Has,
            Sync!OptionalKey, OptionalKey, Sync!Then, Found, ProjectAndUser, MemberAudit,
            Sync!requireOrganization, Sync!requireUser, Sync!requireProject, Sync!requireProjectAndUser, Sync!auditMember,
            Sync!normalizeProjectRole, Sync!ProjectRoles, Roles
<1> QED
  BY SameStatements, SameAudit DEF Sync!updateOrganizationBilling

\* What createUser() of service.ts comes to.
LEMMA createUserServed ==
  ASSUME NEW d, NEW i
  PROVE  Sync!createUser(d, i) = Pg!createUser(d, i)
<1> USE DEF Sync!Provided, Provided, Sync!Require, Require, Sync!Ok, Ok, Sync!Fail, Fail, Sync!Has, Has,
            Sync!OptionalKey, OptionalKey, Sync!Then, Found, ProjectAndUser, MemberAudit,
            Sync!requireOrganization, Sync!requireUser, Sync!requireProject, Sync!requireProjectAndUser, Sync!auditMember,
            Sync!normalizeProjectRole, Sync!ProjectRoles, Roles
<1> QED
  BY SameStatements, SameAudit DEF Sync!createUser

\* What verifyUserEmail() of service.ts comes to.
LEMMA verifyUserEmailServed ==
  ASSUME NEW d, NEW i
  PROVE  Sync!verifyUserEmail(d, i) = Provided(Found(d, "users", i.user), Pg!updateUserEmailVerification(d, i.user))
<1> USE DEF Sync!Provided, Provided, Sync!Require, Require, Sync!Ok, Ok, Sync!Fail, Fail, Sync!Has, Has,
            Sync!OptionalKey, OptionalKey, Sync!Then, Found, ProjectAndUser, MemberAudit,
            Sync!requireOrganization, Sync!requireUser, Sync!requireProject, Sync!requireProjectAndUser, Sync!auditMember,
            Sync!normalizeProjectRole, Sync!ProjectRoles, Roles
<1> QED
  BY SameStatements, SameAudit DEF Sync!verifyUserEmail

\* What createProject() of service.ts comes to.
LEMMA createProjectServed ==
  ASSUME NEW d, NEW i
  PROVE  Sync!createProject(d, i) =
            Provided(Require(d, OptionalKey(d.organizations, i.org), "not_found"), Pg!createProject(d, i))
<1> USE DEF Sync!Provided, Provided, Sync!Require, Require, Sync!Ok, Ok, Sync!Fail, Fail, Sync!Has, Has,
            Sync!OptionalKey, OptionalKey, Sync!Then, Found, ProjectAndUser, MemberAudit,
            Sync!requireOrganization, Sync!requireUser, Sync!requireProject, Sync!requireProjectAndUser, Sync!auditMember,
            Sync!normalizeProjectRole, Sync!ProjectRoles, Roles
<1> QED
  BY SameStatements, SameAudit DEF Sync!createProject

\* What addProjectMembership() of service.ts comes to.
LEMMA addProjectMembershipServed ==
  ASSUME NEW d, NEW i
  PROVE  Sync!addProjectMembership(d, i) =
            Provided(ProjectAndUser(d, i), Provided(Require(d, i.role \in Roles, "validation"), MemberAdded(d, i)))
<1> USE DEF Sync!Provided, Provided, Sync!Require, Require, Sync!Ok, Ok, Sync!Fail, Fail, Sync!Has, Has,
            Sync!OptionalKey, OptionalKey, Sync!Then, Found, ProjectAndUser, MemberAudit,
            Sync!requireOrganization, Sync!requireUser, Sync!requireProject, Sync!requireProjectAndUser, Sync!auditMember,
            Sync!normalizeProjectRole, Sync!ProjectRoles, Roles
<1> QED
  BY SameStatements, SameAudit DEF Sync!addProjectMembership, MemberAdded

\* What acceptProjectMembershipInvite() of service.ts comes to.
LEMMA acceptProjectMembershipInviteServed ==
  ASSUME NEW d, NEW i
  PROVE  Sync!acceptProjectMembershipInvite(d, i) = Provided(ProjectAndUser(d, i), InviteAccepted(d, i))
<1> USE DEF Sync!Provided, Provided, Sync!Require, Require, Sync!Ok, Ok, Sync!Fail, Fail, Sync!Has, Has,
            Sync!OptionalKey, OptionalKey, Sync!Then, Found, ProjectAndUser, MemberAudit,
            Sync!requireOrganization, Sync!requireUser, Sync!requireProject, Sync!requireProjectAndUser, Sync!auditMember,
            Sync!normalizeProjectRole, Sync!ProjectRoles, Roles
<1> QED
  BY SameStatements, SameAudit DEF Sync!acceptProjectMembershipInvite, InviteAccepted

\* What updateProjectMembershipRole() of service.ts comes to.
LEMMA updateProjectMembershipRoleServed ==
  ASSUME NEW d, NEW i
  PROVE  Sync!updateProjectMembershipRole(d, i) =
            Provided(ProjectAndUser(d, i), Provided(Require(d, i.role \in Roles, "validation"),
            Provided(Found(d, "memberships", <<i.project, i.user>>),
            Provided(IF i.role = "owner" THEN Ok(d) ELSE Sync!assertProjectKeepsOwner(d, i.project, i.user),
                     RoleUpdated(d, i)))))
<1> USE DEF Sync!Provided, Provided, Sync!Require, Require, Sync!Ok, Ok, Sync!Fail, Fail, Sync!Has, Has,
            Sync!OptionalKey, OptionalKey, Sync!Then, Found, ProjectAndUser, MemberAudit,
            Sync!requireOrganization, Sync!requireUser, Sync!requireProject, Sync!requireProjectAndUser, Sync!auditMember,
            Sync!normalizeProjectRole, Sync!ProjectRoles, Roles
<1> QED
  BY SameStatements, SameAudit DEF Sync!updateProjectMembershipRole, Sync!requireProjectMembership, RoleUpdated

\* What removeProjectMembership() of service.ts comes to.
LEMMA removeProjectMembershipServed ==
  ASSUME NEW d, NEW i
  PROVE  Sync!removeProjectMembership(d, i) =
            Provided(ProjectAndUser(d, i), Provided(Found(d, "memberships", <<i.project, i.user>>),
            Provided(Sync!assertProjectKeepsOwner(d, i.project, i.user), MemberRemoved(d, i))))
<1> USE DEF Sync!Provided, Provided, Sync!Require, Require, Sync!Ok, Ok, Sync!Fail, Fail, Sync!Has, Has,
            Sync!OptionalKey, OptionalKey, Sync!Then, Found, ProjectAndUser, MemberAudit,
            Sync!requireOrganization, Sync!requireUser, Sync!requireProject, Sync!requireProjectAndUser, Sync!auditMember,
            Sync!normalizeProjectRole, Sync!ProjectRoles, Roles
<1> QED
  BY SameStatements, SameAudit DEF Sync!removeProjectMembership, Sync!requireProjectMembership, MemberRemoved

\* What requestProductionQuotaIncrease() of service.ts comes to.
LEMMA requestProductionQuotaIncreaseServed ==
  ASSUME NEW d, NEW i
  PROVE  Sync!requestProductionQuotaIncrease(d, i) =
           Provided(Found(d, "organizations", i.org),
           Provided(Require(d, OptionalKey(d.projects, i.project), "not_found"),
           Provided(Require(d, i.project = None \/ d.projects[i.project].org = i.org, "validation"),
           Provided(Require(d, Sync!productionQuotaReadinessChecks(d, i.org, i.project), "validation"),
                    Pg!createProductionQuotaIncrease(d, i)))))
<1> USE DEF Sync!Provided, Provided, Sync!Require, Require, Sync!Ok, Ok, Sync!Fail, Fail, Sync!Has, Has,
            Sync!OptionalKey, OptionalKey, Sync!Then, Found, ProjectAndUser, MemberAudit,
            Sync!requireOrganization, Sync!requireUser, Sync!requireProject, Sync!requireProjectAndUser, Sync!auditMember,
            Sync!normalizeProjectRole, Sync!ProjectRoles, Roles
<1> QED
  BY SameStatements, SameAudit DEF Sync!requestProductionQuotaIncrease

\* What createApiKey() of service.ts comes to.
LEMMA createApiKeyServed ==
  ASSUME NEW d, NEW i
  PROVE  Sync!createApiKey(d, i) =
           Provided(Require(d, OptionalKey(d.projects, i.project), "not_found"),
           Provided(Require(d, OptionalKey(d.organizations, OrganizationOf(d, i)), "not_found"),
           Provided(Require(d, OrganizationOf(d, i) # None \/ i.project # None, "validation"),
                    KeyIssued(d, i.id, OrganizationOf(d, i), i.project))))
<1> USE DEF Sync!Provided, Provided, Sync!Require, Require, Sync!Ok, Ok, Sync!Fail, Fail, Sync!Has, Has,
            Sync!OptionalKey, OptionalKey, Sync!Then, Found, ProjectAndUser, MemberAudit,
            Sync!requireOrganization, Sync!requireUser, Sync!requireProject, Sync!requireProjectAndUser, Sync!auditMember,
            Sync!normalizeProjectRole, Sync!ProjectRoles, Roles
<1> QED
  BY SameStatements, SameAudit DEF Sync!createApiKey, Sync!insertApiKey, OrganizationOf, KeyIssued

\* What revokeApiKey() of service.ts comes to.
LEMMA revokeApiKeyServed ==
  ASSUME NEW d, NEW i
  PROVE  Sync!revokeApiKey(d, i) =
           LET w == Pg!revokeApiKey(d, i.id) IN Provided(w, KeyAudit(w.db, i.id, "api_key.revoked"))
<1> USE DEF Sync!Provided, Provided, Sync!Require, Require, Sync!Ok, Ok, Sync!Fail, Fail, Sync!Has, Has,
            Sync!OptionalKey, OptionalKey, Sync!Then, Found, ProjectAndUser, MemberAudit,
            Sync!requireOrganization, Sync!requireUser, Sync!requireProject, Sync!requireProjectAndUser, Sync!auditMember,
            Sync!normalizeProjectRole, Sync!ProjectRoles, Roles
<1> QED
  BY SameStatements, SameAudit DEF Sync!revokeApiKey, Sync!auditKey, KeyAudit

\* What rotateApiKey() of service.ts comes to.
LEMMA rotateApiKeyServed ==
  ASSUME NEW d, NEW i
  PROVE  Sync!rotateApiKey(d, i) =
           LET w == Pg!rotateApiKey(d, i.id, i.replacement) IN Provided(w, KeyAudit(w.db, i.id, "api_key.rotated"))
<1> USE DEF Sync!Provided, Provided, Sync!Require, Require, Sync!Ok, Ok, Sync!Fail, Fail, Sync!Has, Has,
            Sync!OptionalKey, OptionalKey, Sync!Then, Found, ProjectAndUser, MemberAudit,
            Sync!requireOrganization, Sync!requireUser, Sync!requireProject, Sync!requireProjectAndUser, Sync!auditMember,
            Sync!normalizeProjectRole, Sync!ProjectRoles, Roles
<1> QED
  BY SameStatements, SameAudit DEF Sync!rotateApiKey, Sync!auditKey, KeyAudit

\* What authenticateApiToken() of service.ts comes to.
LEMMA authenticateApiTokenServed ==
  ASSUME NEW d, NEW i
  PROVE  Sync!authenticateApiToken(d, i) =
           Provided(Require(d, Has(d.apiKeys, i.id) /\ ~d.apiKeys[i.id].revoked, "unauthenticated"),
                    Pg!updateApiKeyLastUsed(d, i.id))
<1> USE DEF Sync!Provided, Provided, Sync!Require, Require, Sync!Ok, Ok, Sync!Fail, Fail, Sync!Has, Has,
            Sync!OptionalKey, OptionalKey, Sync!Then, Found, ProjectAndUser, MemberAudit,
            Sync!requireOrganization, Sync!requireUser, Sync!requireProject, Sync!requireProjectAndUser, Sync!auditMember,
            Sync!normalizeProjectRole, Sync!ProjectRoles, Roles
<1> QED
  BY SameStatements, SameAudit DEF Sync!authenticateApiToken

-----------------------------------------------------------------------------
(* The rules both control planes share.                                    *)

\* Metering and billing count and decide alike in both.
LEMMA SameMeters ==
  /\ \A d, p, resource : Sync!enforceProjectQuota(d, p, resource) = enforceProjectQuota(d, p, resource)
  /\ \A d, i : Sync!enforceProjectUsageQuota(d, i) = enforceProjectUsageQuota(d, i)
  /\ \A d, i : Sync!enforceProjectBillingBudget(d, i) = enforceProjectBillingBudget(d, i)
  /\ \A d, org, period :
       Sync!createOrganizationBillingStatement(d, org, period) = createOrganizationBillingStatement(d, org, period)
  /\ \A i, row : Sync!resolveUsageEventReplay(i, row) = resolveUsageEventReplay(i, row)
  /\ \A i, total : Sync!createOrganizationBillingInvoice(i, total) = createOrganizationBillingInvoice(i, total)
  /\ \A id, invoice :
       Sync!billingInvoiceIssuedIdempotencyKey(id, invoice) = billingInvoiceIssuedIdempotencyKey(id, invoice)
  /\ \A row, reply, now :
       Sync!attemptBillingWebhookDelivery(row, reply, now) = attemptBillingWebhookDelivery(row, reply, now)
  /\ \A d, now : Sync!dueDeliveries(d, now) = dueDeliveries(d, now)
  /\ \A policies, v, now :
       Sync!decideBillingInvoiceRetention(policies, v, now) = decideBillingInvoiceRetention(policies, v, now)
  /\ \A d, i : Sync!normalizeBillingInvoiceAdjustmentInput(d, i) = normalizeBillingInvoiceAdjustmentInput(d, i)
  /\ \A d, i : Sync!normalizeBillingInvoiceRetentionPolicyInput(d, i) = normalizeBillingInvoiceRetentionPolicyInput(d, i)
<1> USE DEF Sync!Require, Require, Sync!Ok, Ok, Sync!Fail, Fail, Sync!Has, Has
<1>1. \A d, p, period : Sync!getProjectUsageSummary(d, p, period) = getProjectUsageSummary(d, p, period)
  BY DEF Sync!getProjectUsageSummary, getProjectUsageSummary, Sync!SumFunctionOnSet, SumFunctionOnSet,
         Sync!FoldFunctionOnSet, FoldFunctionOnSet, Sync!MapThenFoldSet, MapThenFoldSet
<1>2. \A d, p, resource : Sync!enforceProjectQuota(d, p, resource) = enforceProjectQuota(d, p, resource)
  BY DEF Sync!enforceProjectQuota, enforceProjectQuota, Sync!getProjectUsage, getProjectUsage, Sync!Cardinality,
         Cardinality
<1>3. /\ \A d, i : Sync!enforceProjectUsageQuota(d, i) = enforceProjectUsageQuota(d, i)
      /\ \A d, i : Sync!enforceProjectBillingBudget(d, i) = enforceProjectBillingBudget(d, i)
  BY <1>1 DEF Sync!enforceProjectUsageQuota, enforceProjectUsageQuota, Sync!enforceProjectBillingBudget,
              enforceProjectBillingBudget, Sync!createProjectBillingStatement, createProjectBillingStatement
<1>4. \A d, org, period :
        Sync!createOrganizationBillingStatement(d, org, period) = createOrganizationBillingStatement(d, org, period)
  BY DEF Sync!createOrganizationBillingStatement, createOrganizationBillingStatement, Sync!MapThenSumSet,
         MapThenSumSet,
         Sync!MapThenFoldSet, MapThenFoldSet, Sync!createProjectBillingStatement, createProjectBillingStatement,
         Sync!getProjectUsageSummary, getProjectUsageSummary, Sync!SumFunctionOnSet, SumFunctionOnSet,
         Sync!FoldFunctionOnSet, FoldFunctionOnSet
<1>5. /\ \A i, row : Sync!resolveUsageEventReplay(i, row) = resolveUsageEventReplay(i, row)
      /\ \A i, total : Sync!createOrganizationBillingInvoice(i, total) = createOrganizationBillingInvoice(i, total)
      /\ \A id, invoice :
           Sync!billingInvoiceIssuedIdempotencyKey(id, invoice) = billingInvoiceIssuedIdempotencyKey(id, invoice)
  BY DEF Sync!resolveUsageEventReplay, resolveUsageEventReplay, Sync!sameUsageEvent, sameUsageEvent,
         Sync!createOrganizationBillingInvoice, createOrganizationBillingInvoice,
         Sync!billingInvoiceIssuedIdempotencyKey, billingInvoiceIssuedIdempotencyKey
<1>6. \A row, reply, now :
        Sync!attemptBillingWebhookDelivery(row, reply, now) = attemptBillingWebhookDelivery(row, reply, now)
  BY DEF Sync!attemptBillingWebhookDelivery, attemptBillingWebhookDelivery, Sync!failedOrPendingDelivery,
         failedOrPendingDelivery, Sync!RetryDelay, RetryDelay
<1>7. /\ \A d, now : Sync!dueDeliveries(d, now) = dueDeliveries(d, now)
      /\ \A policies, v, now :
           Sync!decideBillingInvoiceRetention(policies, v, now) = decideBillingInvoiceRetention(policies, v, now)
  BY DEF Sync!dueDeliveries, dueDeliveries, Sync!decideBillingInvoiceRetention, decideBillingInvoiceRetention
<1>8. /\ \A d, i : Sync!normalizeBillingInvoiceAdjustmentInput(d, i) = normalizeBillingInvoiceAdjustmentInput(d, i)
      /\ \A d, i :
           Sync!normalizeBillingInvoiceRetentionPolicyInput(d, i) = normalizeBillingInvoiceRetentionPolicyInput(d, i)
  BY DEF Sync!normalizeBillingInvoiceAdjustmentInput, normalizeBillingInvoiceAdjustmentInput,
         Sync!normalizeBillingInvoiceRetentionPolicyInput, normalizeBillingInvoiceRetentionPolicyInput
<1> QED
  BY <1>2, <1>3, <1>4, <1>5, <1>6, <1>7, <1>8

\* Admission, canaries, snapshots and the states of nodes are decided alike in both.
LEMMA SameRules ==
  /\ \A a : Sync!enforceArtifactAdmissionPolicy(a) <=> enforceArtifactAdmissionPolicy(a)
  /\ \A a : Sync!verifyArtifactSignature(a) <=> verifyArtifactSignature(a)
  /\ \A a, world, capabilities :
       Sync!enforceDeploymentAdmissionPolicy(a, world, capabilities) <=> enforceDeploymentAdmissionPolicy(a, world, capabilities)
  /\ \A targets : Sync!normalizeRouteTargets(targets) <=> normalizeRouteTargets(targets)
  /\ \A d, p, targets : Sync!requireTargets(d, p, targets) = requireTargets(d, p, targets)
  /\ \A x : Sync!WholeRoute(x) = WholeRoute(x)
  /\ \A weight : Sync!canaryWeight(weight) <=> canaryWeight(weight)
  /\ \A events, candidate, thresholds :
       Sync!analyzeCanaryEvents(events, candidate, thresholds) = analyzeCanaryEvents(events, candidate, thresholds)
  /\ \A d : Sync!snapshotRoutes(d) = snapshotRoutes(d)
  /\ \A status : Sync!normalizeRuntimeNodeStatus(status) = normalizeRuntimeNodeStatus(status)
  /\ \A node, now, ttl : Sync!isActiveRuntimeNode(node, now, ttl) <=> isActiveRuntimeNode(node, now, ttl)
  /\ \A d, i : Sync!cleanedNodes(d, i) = cleanedNodes(d, i)
<1>1. \A a : Sync!enforceArtifactAdmissionPolicy(a) <=> enforceArtifactAdmissionPolicy(a)
  BY DEF Sync!enforceArtifactAdmissionPolicy, enforceArtifactAdmissionPolicy
<1>2. \A a : Sync!verifyArtifactSignature(a) <=> verifyArtifactSignature(a)
  BY DEF Sync!verifyArtifactSignature, verifyArtifactSignature
<1>3. \A a, world, capabilities :
        Sync!enforceDeploymentAdmissionPolicy(a, world, capabilities) <=> enforceDeploymentAdmissionPolicy(a, world, capabilities)
  BY <1>1 DEF Sync!enforceDeploymentAdmissionPolicy, enforceDeploymentAdmissionPolicy, Sync!Allows, Allows,
     Sync!AllowsUrl, AllowsUrl, Sync!urlPrefixAllows, urlPrefixAllows, Sync!IsPrefix, IsPrefix,
     Sync!enforceOutboundHttpPolicy, enforceOutboundHttpPolicy, Sync!enforceKvPolicy, enforceKvPolicy,
     Sync!enforceDurableObjectPolicy, enforceDurableObjectPolicy, Sync!enforceSecretPolicy, enforceSecretPolicy,
     Sync!enforceServicePolicy, enforceServicePolicy
<1>4. \A targets : Sync!normalizeRouteTargets(targets) <=> normalizeRouteTargets(targets)
  BY DEF Sync!normalizeRouteTargets, normalizeRouteTargets, Sync!IsInjective, IsInjective
<1>5. \A d, p, targets : Sync!requireTargets(d, p, targets) = requireTargets(d, p, targets)
  BY DEF Sync!requireTargets, requireTargets, Sync!Has, Has, Sync!Ok, Ok, Sync!Fail, Fail, Sync!Min, Min
<1>6. /\ \A x : Sync!WholeRoute(x) = WholeRoute(x)
      /\ \A weight : Sync!canaryWeight(weight) <=> canaryWeight(weight)
  BY DEF Sync!WholeRoute, WholeRoute, Sync!canaryWeight, canaryWeight
<1>7. \A events, candidate, thresholds :
        Sync!analyzeCanaryEvents(events, candidate, thresholds) = analyzeCanaryEvents(events, candidate, thresholds)
  BY DEF Sync!analyzeCanaryEvents, analyzeCanaryEvents, Sync!summarizeCanaryMetrics, summarizeCanaryMetrics,
     Sync!isErrorEvent, isErrorEvent, Sync!isRejectedEvent, isRejectedEvent, Sync!percentile95, percentile95
<1>8. \A d : Sync!snapshotRoutes(d) = snapshotRoutes(d)
  BY DEF Sync!snapshotRoutes, snapshotRoutes, Sync!Range, Range
<1>9. /\ \A status : Sync!normalizeRuntimeNodeStatus(status) = normalizeRuntimeNodeStatus(status)
      /\ \A node, now, ttl : Sync!isActiveRuntimeNode(node, now, ttl) <=> isActiveRuntimeNode(node, now, ttl)
  BY DEF Sync!normalizeRuntimeNodeStatus, normalizeRuntimeNodeStatus, Sync!isActiveRuntimeNode, isActiveRuntimeNode,
         Sync!isSaturatedRuntimeNode, isSaturatedRuntimeNode
<1>10. \A d, i : Sync!cleanedNodes(d, i) = cleanedNodes(d, i)
  BY DEF Sync!cleanedNodes, cleanedNodes, Sync!cleanupStatuses, cleanupStatuses, Sync!runtimeNodeObservedAt,
         runtimeNodeObservedAt
<1> QED
  BY <1>1, <1>2, <1>3, <1>4, <1>5, <1>6, <1>7, <1>8, <1>9, <1>10

-----------------------------------------------------------------------------
(* The methods of service.ts, statement by statement: billing.             *)

\* What recordUsageEvent() still does once it knows that the event is new.
UsageCounted(d, i) == Provided(enforceProjectBillingBudget(d, i), Pg!createUsageEvent(d, i))

\* What issueOrganizationBillingInvoice() does once the invoice is there: the webhook, and before
\* it the audit event and the invoice itself.
WebhookEnqueued(d, key) == IF Has(d.webhooks, key) THEN Ok(d) ELSE Pg!createBillingWebhookDelivery(d, key)
InvoiceAnnounced(d, i, key) ==
  LET w == recordCustomerAuditEvent(d, "billing_invoice.issued", i.id, i.org, None) IN
  Provided(w, WebhookEnqueued(w.db, key))
InvoiceInserted(d, i, invoice) ==
  LET w == Pg!createBillingInvoice(d, i.id, invoice) IN
  Provided(w, InvoiceAnnounced(w.db, i, billingInvoiceIssuedIdempotencyKey(i.id, invoice)))
InvoicesOf(d, i) == {v \in DOMAIN d.invoices : d.invoices[v].org = i.org /\ d.invoices[v].period = i.at}
InvoiceMade(d, i) == createOrganizationBillingInvoice(i, createOrganizationBillingStatement(d, i.org, i.at))

\* The rows of webhooks are sent, one after the other, as they were listed.
DeliveriesMade(d, i, rows) ==
  IF rows = NoRows THEN Ok(d)
  ELSE Ok([d EXCEPT
         !.webhooks = [k \in DOMAIN @ |-> IF k \in DOMAIN rows
                                          THEN attemptBillingWebhookDelivery(rows[k], i.reply, i.now) ELSE @[k]],
         !.received = IF i.reply = "accepted" THEN @ \union DOMAIN rows ELSE @])
DueRows(d, i) == [k \in dueDeliveries(d, i.now) |-> d.webhooks[k]]

\* The invoice a new one is announced with is the one that was inserted.
LEMMA AnnouncedInvoice ==
  ASSUME NEW d, DOMAIN d = DOMAIN EmptyDb, NEW i, NEW invoice
  PROVE  LET w == Pg!createBillingInvoice(d, i.id, invoice)
             a == recordCustomerAuditEvent(w.db, "billing_invoice.issued", i.id, i.org, None)
         IN  w.out = "ok" /\ a.out = "ok" => a.db.invoices[i.id] = invoice
<1> DEFINE w == Pg!createBillingInvoice(d, i.id, invoice)
           a == recordCustomerAuditEvent(w.db, "billing_invoice.issued", i.id, i.org, None)
<1>1. w.out = "ok" => DOMAIN w.db = DOMAIN EmptyDb /\ w.db.invoices[i.id] = invoice
  BY DEF Pg!createBillingInvoice, Pg!Insert, Pg!Ok, Pg!Fail, Pg!Put, EmptyDb
<1> HIDE DEF w
<1>2. \A e : DOMAIN e = DOMAIN EmptyDb =>
        recordCustomerAuditEvent(e, "billing_invoice.issued", i.id, i.org, None).db.invoices = e.invoices
  BY DEF recordCustomerAuditEvent, Then, Require, Ok, Fail, Pg!createCustomerAuditEvent, Pg!Ok, Pg!Fail, EmptyDb
<1> QED
  BY <1>1, <1>2 DEF w

\* What recordUsageEvent() of service.ts comes to.
LEMMA recordUsageEventServed ==
  ASSUME NEW d, DOMAIN d = DOMAIN EmptyDb, NEW i
  PROVE  Sync!recordUsageEvent(d, i) =
            Provided(Found(d, "projects", i.project),
              IF Has(d.usage, i.id) THEN [out |-> resolveUsageEventReplay(i, d.usage[i.id]), db |-> d]
              ELSE Provided(enforceProjectUsageQuota(d, i), UsageCounted(d, i)))
<1> USE DEF Sync!Provided, Provided, Sync!Require, Require, Sync!Ok, Ok, Sync!Fail, Fail, Sync!Has, Has, Sync!Then, Found
<1> QED
  BY SameStatements, SameMeters DEF Sync!recordUsageEvent, Sync!requireProject, UsageCounted

\* What issueOrganizationBillingInvoice() of service.ts comes to.
LEMMA issueOrganizationBillingInvoiceServed ==
  ASSUME NEW d, DOMAIN d = DOMAIN EmptyDb, NEW i
  PROVE  Sync!issueOrganizationBillingInvoice(d, i) =
            Provided(Found(d, "organizations", i.org),
              IF InvoicesOf(d, i) # {}
              THEN LET v == CHOOSE v \in InvoicesOf(d, i) : TRUE IN
                   WebhookEnqueued(d, billingInvoiceIssuedIdempotencyKey(v, d.invoices[v]))
              ELSE InvoiceInserted(d, i, InvoiceMade(d, i)))
<1> USE DEF Sync!Provided, Provided, Sync!Require, Require, Sync!Ok, Ok, Sync!Fail, Fail, Sync!Has, Has, Sync!Then, Found
<1>1. Sync!invoicesOfPeriod(d, i.org, i.at) = InvoicesOf(d, i)
  BY DEF Sync!invoicesOfPeriod, InvoicesOf
<1>2. \A e, v : Sync!enqueueBillingInvoiceWebhook(e, v) =
                  WebhookEnqueued(e, billingInvoiceIssuedIdempotencyKey(v, e.invoices[v]))
  BY SameStatements, SameMeters DEF Sync!enqueueBillingInvoiceWebhook, WebhookEnqueued
<1> DEFINE w == Pg!createBillingInvoice(d, i.id, InvoiceMade(d, i))
           a == recordCustomerAuditEvent(w.db, "billing_invoice.issued", i.id, i.org, None)
           key == billingInvoiceIssuedIdempotencyKey(i.id, InvoiceMade(d, i))
<1>3. w.out = "ok" => Sync!announceInvoice(w.db, i) = InvoiceAnnounced(w.db, i, key)
  <2>1. w.out = "ok" /\ a.out = "ok" => a.db.invoices[i.id] = InvoiceMade(d, i)
    BY AnnouncedInvoice
  <2>2. Sync!announceInvoice(w.db, i) =
          IF a.out = "ok" THEN WebhookEnqueued(a.db, billingInvoiceIssuedIdempotencyKey(i.id, a.db.invoices[i.id])) ELSE a
    BY <1>2, SameAudit DEF Sync!announceInvoice
  <2> HIDE DEF w
  <2> QED
    BY <2>1, <2>2 DEF InvoiceAnnounced
<1> QED
  BY <1>1, <1>2, <1>3, SameStatements, SameMeters
  DEF Sync!issueOrganizationBillingInvoice, Sync!requireOrganization, InvoiceInserted, InvoiceMade

\* What deliverPendingBillingWebhooks() of service.ts comes to.
LEMMA deliverPendingBillingWebhooksServed ==
  ASSUME NEW d, DOMAIN d = DOMAIN EmptyDb, NEW i
  PROVE  Sync!deliverPendingBillingWebhooks(d, i) = DeliveriesMade(d, i, DueRows(d, i))
<1> USE DEF Sync!Provided, Provided, Sync!Require, Require, Sync!Ok, Ok, Sync!Fail, Fail, Sync!Has, Has, Sync!Then, Found
<1> DEFINE due == dueDeliveries(d, i.now)
           rows == DueRows(d, i)
<1>1. /\ DOMAIN rows = due /\ \A k \in due : rows[k] = d.webhooks[k]
      /\ rows = NoRows <=> due = {}
  BY DEF DueRows, NoRows
<1>2. Sync!deliverPendingBillingWebhooks(d, i) =
        IF due = {} THEN Ok(d)
        ELSE Ok([d EXCEPT
               !.webhooks = [k \in DOMAIN @ |-> IF k \in due
                                                THEN attemptBillingWebhookDelivery(@[k], i.reply, i.now) ELSE @[k]],
               !.received = IF i.reply = "accepted" THEN @ \union due ELSE @])
  BY SameMeters DEF Sync!deliverPendingBillingWebhooks, Sync!attemptDeliveries
<1> HIDE DEF due, rows
<1> QED
  BY <1>1, <1>2 DEF DeliveriesMade, rows

\* What createBillingInvoiceAdjustment() of service.ts comes to.
LEMMA createBillingInvoiceAdjustmentServed ==
  ASSUME NEW d, DOMAIN d = DOMAIN EmptyDb, NEW i
  PROVE  Sync!createBillingInvoiceAdjustment(d, i) =
            Provided(Found(d, "invoices", i.invoice),
            Provided(normalizeBillingInvoiceAdjustmentInput(d, i),
                     Pg!createBillingInvoiceAdjustment(d, i.id, i.invoice)))
<1> USE DEF Sync!Provided, Provided, Sync!Require, Require, Sync!Ok, Ok, Sync!Fail, Fail, Sync!Has, Has, Sync!Then, Found
<1> QED
  BY SameStatements, SameMeters DEF Sync!createBillingInvoiceAdjustment, Sync!getBillingInvoice

\* What setBillingInvoiceRetentionPolicy() of service.ts comes to.
LEMMA setBillingInvoiceRetentionPolicyServed ==
  ASSUME NEW d, DOMAIN d = DOMAIN EmptyDb, NEW i
  PROVE  Sync!setBillingInvoiceRetentionPolicy(d, i) =
            Provided(Found(d, "invoices", i.invoice),
            Provided(normalizeBillingInvoiceRetentionPolicyInput(d, i),
                     Pg!upsertBillingInvoiceRetentionPolicy(d, i)))
<1> USE DEF Sync!Provided, Provided, Sync!Require, Require, Sync!Ok, Ok, Sync!Fail, Fail, Sync!Has, Has, Sync!Then, Found
<1> QED
  BY SameStatements, SameMeters DEF Sync!setBillingInvoiceRetentionPolicy, Sync!getBillingInvoice

-----------------------------------------------------------------------------
(* The methods of service.ts, statement by statement: routing.             *)

\* The tails of the operations: the statements left once the checks have passed.
QuotaOf(d, i, resource) == Provided(Found(d, "projects", i.project), enforceProjectQuota(d, i.project, resource))
ArtifactOf(i) == [project |-> i.project, digest |-> i.digest, size |-> i.size, signature |-> i.signature]

OwnRows(d, table, ids, project) ==
  Require(d, \A id \in ids : Has(d[table], id) /\ d[table][id].project = project, "validation")
DeploymentMade(d, i) ==
  LET w == Pg!createDeployment(d, i.id, [project |-> i.project, artifact |-> i.artifact,
                                         capabilities |-> i.capabilities]) IN
  Provided(w, recordCustomerAuditEvent(w.db, "deployment.created", i.id, w.db.projects[i.project].org, i.project))
BoundToServices(d, i) ==
  Provided(OwnRows(d, "secrets", i.capabilities.secrets, i.project),
  Provided(Require(d, \A s \in i.capabilities.services : Has(d.projects, s.project), "validation"),
           DeploymentMade(d, i)))
BoundToObjects(d, i) == Provided(OwnRows(d, "doNamespaces", i.capabilities.do, i.project), BoundToServices(d, i))
BoundToKv(d, i) == Provided(OwnRows(d, "kvNamespaces", i.capabilities.kv, i.project), BoundToObjects(d, i))
Admitted(d, i) ==
  Require(d, /\ d.artifacts[i.artifact].project = i.project
             /\ SignatureKeys # None => verifyArtifactSignature(d.artifacts[i.artifact])
             /\ enforceDeploymentAdmissionPolicy(d.artifacts[i.artifact], i.world, i.capabilities), "validation")

DeploymentOf(d, project, deployment) ==
  Provided(Found(d, "projects", project),
  Provided(Found(d, "deployments", deployment),
           Require(d, d.deployments[deployment].project = project, "validation")))
RouteOf(d, i) == Provided(Found(d, "projects", i.project), Require(d, Has(d.routes, routeKey(i)), "not_found"))
TargetsOf(d, i) == IF Has(d.routes, routeKey(i)) THEN d.routes[routeKey(i)].targets ELSE None
DomainAllows(d, i) ==
  Require(d, \A x \in DOMAIN d.domains : d.domains[x].host = i.host =>
               d.domains[x].project = i.project /\ d.domains[x].status = "active", "validation")
RouteFree(d, i) == IF TargetsOf(d, i) = None THEN enforceProjectQuota(d, i.project, "routes") ELSE Ok(d)

RoutePointed(d, i) ==
  LET w == Pg!upsertRoute(d, i.project, i.host, i.targets) IN
  Provided(w, recordCustomerAuditEvent(w.db, "route.pointed", i.host, w.db.projects[i.project].org, i.project))
CanaryStarted(d, i, targets) ==
  Pg!upsertRoute(d, i.project, i.host, <<[deployment |-> targets[1].deployment, weight |-> 100 - i.weight],
                                         [deployment |-> i.deployment, weight |-> i.weight]>>)
RolledBack(d, i, deployment) == Pg!upsertRoute(d, i.project, i.host, WholeRoute(deployment))
CanaryDecided(d, i, targets) ==
  LET action == analyzeCanaryEvents(i.events, i.deployment, i.thresholds)
      w == Pg!createCanaryDecision(d, [project |-> i.project, host |-> i.host, stable |-> targets[1].deployment,
                                       candidate |-> i.deployment, action |-> action]) IN
  IF action = "rollback" THEN Provided(w, RolledBack(w.db, i, targets[1].deployment)) ELSE w

PreviewInserted(d, i, previous) ==
  Pg!createDeployPreview(d, i.id, [project |-> i.project, deployment |-> i.deployment, host |-> i.host,
                                   previous |-> previous, status |-> "active"])
PreviewPointed(d, i, previous) ==
  LET w == Pg!upsertRoute(d, i.project, i.host, WholeRoute(i.deployment)) IN
  Provided(w, PreviewInserted(w.db, i, previous))
PreviewUndone(d, i) == Pg!updateDeployPreview(d, i.id, "rolled_back")
RouteRestored(d, i, preview) ==
  LET w == IF preview.previous = None THEN Pg!deleteRoute(d, preview.project, preview.host)
           ELSE Pg!upsertRoute(d, preview.project, preview.host, preview.previous) IN
  Provided(w, PreviewUndone(w.db, i))

DomainAudit(d, action, i, project) == recordCustomerAuditEvent(d, action, i.id, d.projects[project].org, project)
DomainCreated(d, i) ==
  LET w == Pg!createCustomDomain(d, i) IN Provided(w, DomainAudit(w.db, "custom_domain.created", i, i.project))
DomainDeleted(d, i, project) ==
  LET w == Pg!deleteCustomDomain(d, i.id) IN Provided(w, DomainAudit(w.db, "custom_domain.deleted", i, project))
DomainSet(d, i, row, status, tls) == Pg!updateCustomDomain(d, i.id, [row EXCEPT !.status = status, !.tls = tls])

\* What createArtifact() of service.ts comes to.
LEMMA createArtifactServed ==
  ASSUME NEW d, NEW i
  PROVE  Sync!createArtifact(d, i) =
            Provided(QuotaOf(d, i, "artifacts"),
            Provided(Require(d, enforceArtifactAdmissionPolicy(ArtifactOf(i)), "validation"),
                     Pg!createArtifact(d, i.id, ArtifactOf(i))))
<1> USE DEF Sync!Provided, Provided, Sync!Require, Require, Sync!Ok, Ok, Sync!Fail, Fail, Sync!Has, Has, Sync!Then, Found,
            Sync!requireProject, Sync!enforceQuota, QuotaOf
<1> QED
  BY SameStatements, SameMeters, SameRules DEF Sync!createArtifact, ArtifactOf

\* What the methods of a secret come to.
LEMMA SecretsServed ==
  ASSUME NEW d, NEW i
  PROVE  /\ Sync!createSecret(d, i) = Provided(QuotaOf(d, i, "secrets"), Pg!createSecret(d, i))
         /\ Sync!updateSecretValue(d, i) = Provided(Found(d, "secrets", i.id), Pg!updateSecretValue(d, i.id, i.value))
         /\ Sync!deleteSecret(d, i) = Provided(Found(d, "secrets", i.id), Pg!deleteSecret(d, i.id))
<1> USE DEF Sync!Provided, Provided, Sync!Require, Require, Sync!Ok, Ok, Sync!Fail, Fail, Sync!Has, Has, Sync!Then, Found,
            Sync!requireProject, Sync!enforceQuota, QuotaOf
<1> QED
  BY SameStatements, SameMeters DEF Sync!createSecret, Sync!updateSecretValue, Sync!deleteSecret, Sync!requireSecret

\* What the methods of a KV namespace come to.
LEMMA NamespacesServed ==
  ASSUME NEW d, NEW i
  PROVE  /\ Sync!createKvNamespace(d, i) = Provided(QuotaOf(d, i, "kvNamespaces"), Pg!createKvNamespace(d, i))
         /\ Sync!deleteKvNamespace(d, i) = Provided(Found(d, "kvNamespaces", i.id), Pg!deleteKvNamespace(d, i.id))
<1> USE DEF Sync!Provided, Provided, Sync!Require, Require, Sync!Ok, Ok, Sync!Fail, Fail, Sync!Has, Has, Sync!Then, Found,
            Sync!requireProject, Sync!enforceQuota, QuotaOf
<1> QED
  BY SameStatements, SameMeters DEF Sync!createKvNamespace, Sync!deleteKvNamespace

\* What the methods of a durable object namespace come to.
LEMMA ObjectNamespacesServed ==
  ASSUME NEW d, NEW i
  PROVE  /\ Sync!createDurableObjectNamespace(d, i) =
              Provided(QuotaOf(d, i, "doNamespaces"), Pg!createDurableObjectNamespace(d, i))
         /\ Sync!deleteDurableObjectNamespace(d, i) =
              Provided(Found(d, "doNamespaces", i.id), Pg!deleteDurableObjectNamespace(d, i.id))
<1> USE DEF Sync!Provided, Provided, Sync!Require, Require, Sync!Ok, Ok, Sync!Fail, Fail, Sync!Has, Has, Sync!Then, Found,
            Sync!requireProject, Sync!enforceQuota, QuotaOf
<1> QED
  BY SameStatements, SameMeters DEF Sync!createDurableObjectNamespace, Sync!deleteDurableObjectNamespace

\* What createDeployment() of service.ts comes to.
LEMMA createDeploymentServed ==
  ASSUME NEW d, NEW i
  PROVE  Sync!createDeployment(d, i) =
           Provided(QuotaOf(d, i, "deployments"), Provided(Found(d, "artifacts", i.artifact),
           Provided(Admitted(d, i), BoundToKv(d, i))))
<1> USE DEF Sync!Provided, Provided, Sync!Require, Require, Sync!Ok, Ok, Sync!Fail, Fail, Sync!Has, Has, Sync!Then, Found,
            Sync!requireProject, Sync!enforceQuota, QuotaOf
<1>1. \A e : Sync!auditDeployment(e, i) =
               recordCustomerAuditEvent(e, "deployment.created", i.id, e.projects[i.project].org, i.project)
  BY SameAudit DEF Sync!auditDeployment
<1>2. /\ Sync!requireDeploymentKvNamespaces(d, i) = OwnRows(d, "kvNamespaces", i.capabilities.kv, i.project)
      /\ Sync!requireDeploymentDurableObjectNamespaces(d, i) = OwnRows(d, "doNamespaces", i.capabilities.do, i.project)
      /\ Sync!requireDeploymentSecrets(d, i) = OwnRows(d, "secrets", i.capabilities.secrets, i.project)
  BY DEF Sync!requireDeploymentKvNamespaces, Sync!requireDeploymentDurableObjectNamespaces,
         Sync!requireDeploymentSecrets, Sync!requireOwn, OwnRows
<1> QED
  BY <1>1, <1>2, SameStatements, SameMeters, SameRules
  DEF Sync!createDeployment, Sync!requireArtifact, Sync!requireDeploymentServiceBindings, Admitted, BoundToKv,
      BoundToObjects, BoundToServices, DeploymentMade

\* What the private methods of a route come to.
LEMMA RouteMethods ==
  ASSUME NEW d, DOMAIN d = DOMAIN EmptyDb, NEW i
  PROVE  /\ \A project, deployment : Sync!requireProjectDeployment(d, project, deployment) = DeploymentOf(d, project, deployment)
         /\ Sync!requireRoute(d, i) = RouteOf(d, i)
         /\ Sync!checkRoute(d, i) = Provided(DomainAllows(d, i), RouteFree(d, i))
<1> USE DEF Sync!Provided, Provided, Sync!Require, Require, Sync!Ok, Ok, Sync!Fail, Fail, Sync!Has, Has, Sync!Then, Found,
            Sync!requireProject, routeKey
<1> QED
  BY SameMeters DEF Sync!requireProjectDeployment, Sync!requireDeployment, DeploymentOf, Sync!requireRoute, RouteOf,
     Sync!checkRoute, Sync!currentTargets, Sync!enforceRouteCustomDomain, DomainAllows, RouteFree, TargetsOf

\* What auditRoute() comes to.
LEMMA RouteAudited ==
  ASSUME NEW d, DOMAIN d = DOMAIN EmptyDb, NEW i
  PROVE  \A e : Sync!auditRoute(e, i) = recordCustomerAuditEvent(e, "route.pointed", i.host, e.projects[i.project].org, i.project)
<1> USE DEF Sync!Provided, Provided, Sync!Require, Require, Sync!Ok, Ok, Sync!Fail, Fail, Sync!Has, Has, Sync!Then, Found,
            Sync!requireProject, routeKey
<1> QED
  BY SameAudit DEF Sync!auditRoute

\* What pointRoute() of service.ts comes to.
LEMMA pointRouteServed ==
  ASSUME NEW d, DOMAIN d = DOMAIN EmptyDb, NEW i
  PROVE  Sync!pointRoute(d, i) =
           Provided(Found(d, "projects", i.project),
           Provided(Require(d, normalizeRouteTargets(i.targets), "validation"),
           Provided(requireTargets(d, i.project, i.targets),
           Provided(DomainAllows(d, i), Provided(RouteFree(d, i), RoutePointed(d, i))))))
<1> USE DEF Sync!Provided, Provided, Sync!Require, Require, Sync!Ok, Ok, Sync!Fail, Fail, Sync!Has, Has, Sync!Then, Found,
            Sync!requireProject, routeKey
<1> QED
  BY RouteMethods, RouteAudited, SameStatements, SameRules DEF Sync!pointRoute, RoutePointed

\* What startRouteCanary() of service.ts comes to.
LEMMA startRouteCanaryServed ==
  ASSUME NEW d, DOMAIN d = DOMAIN EmptyDb, NEW i
  PROVE  Sync!startRouteCanary(d, i) =
           Provided(RouteOf(d, i), Provided(DeploymentOf(d, i.project, i.deployment),
           Provided(Require(d, d.routes[routeKey(i)].targets[1].deployment # i.deployment /\ canaryWeight(i.weight),
                            "validation"),
                    CanaryStarted(d, i, d.routes[routeKey(i)].targets))))
<1> USE DEF Sync!Provided, Provided, Sync!Require, Require, Sync!Ok, Ok, Sync!Fail, Fail, Sync!Has, Has, Sync!Then, Found,
            Sync!requireProject, routeKey
<1> QED
  BY RouteMethods, SameStatements, SameRules DEF Sync!startRouteCanary, Sync!stableDeployment, CanaryStarted

\* What rollbackRoute() of service.ts comes to.
LEMMA rollbackRouteServed ==
  ASSUME NEW d, DOMAIN d = DOMAIN EmptyDb, NEW i
  PROVE  Sync!rollbackRoute(d, i) =
           LET to == IF i.deployment = None THEN d.routes[routeKey(i)].targets[1].deployment ELSE i.deployment IN
           Provided(RouteOf(d, i), Provided(DeploymentOf(d, i.project, to), RolledBack(d, i, to)))
<1> USE DEF Sync!Provided, Provided, Sync!Require, Require, Sync!Ok, Ok, Sync!Fail, Fail, Sync!Has, Has, Sync!Then, Found,
            Sync!requireProject, routeKey
<1> QED
  BY RouteMethods, SameStatements, SameRules DEF Sync!rollbackRoute, Sync!stableDeployment, RolledBack

\* What analyzeRouteCanary() of service.ts comes to.
LEMMA analyzeRouteCanaryServed ==
  ASSUME NEW d, DOMAIN d = DOMAIN EmptyDb, NEW i
  PROVE  Sync!analyzeRouteCanary(d, i) =
           LET targets == d.routes[routeKey(i)].targets IN
           Provided(RouteOf(d, i), Provided(DeploymentOf(d, i.project, i.deployment),
           Provided(Require(d, \E n \in DOMAIN targets : targets[n].deployment = i.deployment, "validation"),
                    CanaryDecided(d, i, targets))))
<1> USE DEF Sync!Provided, Provided, Sync!Require, Require, Sync!Ok, Ok, Sync!Fail, Fail, Sync!Has, Has, Sync!Then, Found,
            Sync!requireProject, routeKey
<1> DEFINE targets == d.routes[routeKey(i)].targets
           decision == [project |-> i.project, host |-> i.host, stable |-> targets[1].deployment,
                        candidate |-> i.deployment, action |-> analyzeCanaryEvents(i.events, i.deployment, i.thresholds)]
           w == Pg!createCanaryDecision(d, decision)
<1>1. w.out = "ok" => w.db.routes = d.routes
  BY DEF Pg!createCanaryDecision, Pg!Ok, Pg!Fail, EmptyDb
<1>2. \A t : (\E x \in Sync!Range(t) : x.deployment = i.deployment) <=> (\E n \in DOMAIN t : t[n].deployment = i.deployment)
  BY Zenon DEF Sync!Range
<1>3. Sync!stableDeployment(d, i) = targets[1].deployment /\ (w.out = "ok" => Sync!stableDeployment(w.db, i) = targets[1].deployment)
  BY <1>1 DEF Sync!stableDeployment
<1>3a. /\ \A project, deployment : Sync!requireProjectDeployment(d, project, deployment) = DeploymentOf(d, project, deployment)
       /\ Sync!requireRoute(d, i) = RouteOf(d, i)
  BY RouteMethods
<1>4. Sync!analyzeRouteCanary(d, i) =
        Provided(RouteOf(d, i), Provided(DeploymentOf(d, i.project, i.deployment),
        Provided(Require(d, \E n \in DOMAIN targets : targets[n].deployment = i.deployment, "validation"),
          IF w.out = "ok"
          THEN IF decision.action = "rollback"
               THEN Pg!upsertRoute(w.db, i.project, i.host, WholeRoute(Sync!stableDeployment(w.db, i))) ELSE Ok(w.db)
          ELSE w)))
  BY <1>2, <1>3, <1>3a, SameStatements, SameRules DEF Sync!analyzeRouteCanary
<1>5. w.out = "ok" => Ok(w.db) = w
  BY DEF Pg!createCanaryDecision, Pg!Ok, Pg!Fail
<1>6. CanaryDecided(d, i, targets) =
        IF decision.action = "rollback" THEN Provided(w, RolledBack(w.db, i, targets[1].deployment)) ELSE w
  BY DEF CanaryDecided
<1> HIDE DEF w
<1> QED
  BY <1>3, <1>4, <1>5, <1>6 DEF RolledBack

\* What createRouteSnapshot() of service.ts comes to.
LEMMA createRouteSnapshotServed ==
  ASSUME NEW d, DOMAIN d = DOMAIN EmptyDb, NEW i
  PROVE  Sync!createRouteSnapshot(d, i) = Ok([d EXCEPT !.snapshots = Append(@, snapshotRoutes(d))])
<1> USE DEF Sync!Provided, Provided, Sync!Require, Require, Sync!Ok, Ok, Sync!Fail, Fail, Sync!Has, Has, Sync!Then, Found,
            Sync!requireProject, routeKey
<1> QED
  BY SameRules DEF Sync!createRouteSnapshot

\* What createDeployPreview() of service.ts comes to.
LEMMA createDeployPreviewServed ==
  ASSUME NEW d, DOMAIN d = DOMAIN EmptyDb, NEW i
  PROVE  Sync!createDeployPreview(d, i) =
           Provided(DeploymentOf(d, i.project, i.deployment),
           Provided(DomainAllows(d, i), Provided(RouteFree(d, i), PreviewPointed(d, i, TargetsOf(d, i)))))
<1> USE DEF Sync!Provided, Provided, Sync!Require, Require, Sync!Ok, Ok, Sync!Fail, Fail, Sync!Has, Has, Sync!Then, Found,
            Sync!requireProject, routeKey
<1>1. Sync!createDeployPreview(d, i) =
        Provided(DeploymentOf(d, i.project, i.deployment),
        Provided(Provided(DomainAllows(d, i), RouteFree(d, i)), PreviewPointed(d, i, TargetsOf(d, i))))
  BY RouteMethods, SameStatements, SameRules DEF Sync!createDeployPreview, Sync!currentTargets, PreviewPointed, PreviewInserted,
     TargetsOf
<1> QED
  BY <1>1

\* What rollbackDeployPreview() of service.ts comes to.
LEMMA rollbackDeployPreviewServed ==
  ASSUME NEW d, DOMAIN d = DOMAIN EmptyDb, NEW i
  PROVE  Sync!rollbackDeployPreview(d, i) =
           Provided(Found(d, "previews", i.id),
             IF d.previews[i.id].status = "rolled_back" THEN Ok(d) ELSE RouteRestored(d, i, d.previews[i.id]))
<1> USE DEF Sync!Provided, Provided, Sync!Require, Require, Sync!Ok, Ok, Sync!Fail, Fail, Sync!Has, Has, Sync!Then, Found,
            Sync!requireProject, routeKey
<1> QED
  BY SameStatements DEF Sync!rollbackDeployPreview, RouteRestored, PreviewUndone

\* What auditDomain() comes to.
LEMMA DomainAudited ==
  ASSUME NEW d, NEW i
  PROVE  \A e, action, project : Sync!auditDomain(e, action, i.id, project) = DomainAudit(e, action, i, project)
<1> USE DEF Sync!Provided, Provided, Sync!Require, Require, Sync!Ok, Ok, Sync!Fail, Fail, Sync!Has, Has, Sync!Then, Found,
            Sync!requireProject, Sync!requireCustomDomain
<1> QED
  BY SameAudit DEF Sync!auditDomain, DomainAudit

\* What createCustomDomain() of service.ts comes to.
LEMMA createCustomDomainServed ==
  ASSUME NEW d, NEW i
  PROVE  Sync!createCustomDomain(d, i) = Provided(Found(d, "projects", i.project), DomainCreated(d, i))
<1> USE DEF Sync!Provided, Provided, Sync!Require, Require, Sync!Ok, Ok, Sync!Fail, Fail, Sync!Has, Has, Sync!Then, Found,
            Sync!requireProject, Sync!requireCustomDomain
<1> QED
  BY DomainAudited, SameStatements DEF Sync!createCustomDomain, DomainCreated

\* What deleteCustomDomain() of service.ts comes to.
LEMMA deleteCustomDomainServed ==
  ASSUME NEW d, NEW i
  PROVE  Sync!deleteCustomDomain(d, i) =
           Provided(Found(d, "domains", i.id),
           Provided(Require(d, \A r \in DOMAIN d.routes : r[2] # d.domains[i.id].host, "validation"),
                    DomainDeleted(d, i, d.domains[i.id].project)))
<1> USE DEF Sync!Provided, Provided, Sync!Require, Require, Sync!Ok, Ok, Sync!Fail, Fail, Sync!Has, Has, Sync!Then, Found,
            Sync!requireProject, Sync!requireCustomDomain
<1> QED
  BY DomainAudited, SameStatements DEF Sync!deleteCustomDomain, DomainDeleted

\* What verifyCustomDomainOwnership() of service.ts comes to.
LEMMA verifyCustomDomainOwnershipServed ==
  ASSUME NEW d, NEW i
  PROVE  Sync!verifyCustomDomainOwnership(d, i) =
           Provided(Found(d, "domains", i.id),
           Provided(Require(d, i.txt, "validation"),
                    DomainSet(d, i, d.domains[i.id], "verified", d.domains[i.id].tls)))
<1> USE DEF Sync!Provided, Provided, Sync!Require, Require, Sync!Ok, Ok, Sync!Fail, Fail, Sync!Has, Has, Sync!Then, Found,
            Sync!requireProject, Sync!requireCustomDomain
<1>1. [d.domains[i.id] EXCEPT !.status = "verified", !.tls = d.domains[i.id].tls] =
        [d.domains[i.id] EXCEPT !.status = "verified"]
  OBVIOUS
<1> QED
  BY <1>1, SameStatements DEF Sync!verifyCustomDomainOwnership, DomainSet

\* What requestCustomDomainTlsProvisioning() of service.ts comes to.
LEMMA requestCustomDomainTlsProvisioningServed ==
  ASSUME NEW d, NEW i
  PROVE  Sync!requestCustomDomainTlsProvisioning(d, i) =
           Provided(Found(d, "domains", i.id),
           Provided(Require(d, d.domains[i.id].status \in {"verified", "tls_failed", "active"}, "validation"),
                    DomainSet(d, i, d.domains[i.id], "tls_pending", "pending")))
<1> USE DEF Sync!Provided, Provided, Sync!Require, Require, Sync!Ok, Ok, Sync!Fail, Fail, Sync!Has, Has, Sync!Then, Found,
            Sync!requireProject, Sync!requireCustomDomain
<1> QED
  BY SameStatements DEF Sync!requestCustomDomainTlsProvisioning, DomainSet

\* What completeCustomDomainTlsProvisioning() of service.ts comes to.
LEMMA completeCustomDomainTlsProvisioningServed ==
  ASSUME NEW d, NEW i
  PROVE  Sync!completeCustomDomainTlsProvisioning(d, i) =
           Provided(Found(d, "domains", i.id),
                    DomainSet(d, i, d.domains[i.id], IF i.ok THEN "active" ELSE "tls_failed",
                              IF i.ok THEN "provisioned" ELSE "failed"))
<1> USE DEF Sync!Provided, Provided, Sync!Require, Require, Sync!Ok, Ok, Sync!Fail, Fail, Sync!Has, Has, Sync!Then, Found,
            Sync!requireProject, Sync!requireCustomDomain
<1> QED
  BY SameStatements DEF Sync!completeCustomDomainTlsProvisioning, DomainSet

-----------------------------------------------------------------------------
(* The methods of service.ts, statement by statement: the fleet.           *)

\* The release of i is marked, its script deleted at the provider, and what the answer leads to.
ReleaseIs(d, i, status) == Pg!updateEdgeWorkerRelease(d, i.id, status)
RetryQueued(d, i) ==
  Pg!createEdgeWorkerReleaseOperation(d, operationId(d, i.id),
    [release |-> i.id, status |-> "pending", attempts |-> 0, next |-> i.now])
ReleaseFailed(d, i) == LET w == ReleaseIs(d, i, "failed") IN Provided(w, RetryQueued(w.db, i))
AnswerTaken(d, i) == IF i.reply = "done" THEN ReleaseIs(d, i, "deleted") ELSE ReleaseFailed(d, i)
ProviderAsked(d, i) == AnswerTaken(deleteProviderEdgeWorkerRelease(d, d.releases[i.id].script, i.reply), i)
ReleaseDeleted(d, i) == LET w == ReleaseIs(d, i, "deleting") IN Provided(w, ProviderAsked(w.db, i))

Deployed(d, i) == IF i.reply = "error" THEN d ELSE [d EXCEPT !.scripts = @ \union {i.script}]
ReleaseInserted(d, i) ==
  Pg!createEdgeWorkerRelease(d, i.id, [project |-> i.project, deployment |-> i.deployment,
                                       script |-> i.script, status |-> "active"])
ScriptDeployed(d, i) == Provided(Require(Deployed(d, i), i.reply = "done", "validation"), ReleaseInserted(Deployed(d, i), i))

\* The status s of the release that the request is about leaves no trace under the status t.
Overwritten(d, i, s, t) ==
  LET w == ReleaseIs(d, i, s) IN
  /\ w.out = "ok"
  /\ ReleaseIs(deleteProviderEdgeWorkerRelease(w.db, w.db.releases[i.id].script, i.reply), i, t)
       = ReleaseIs(deleteProviderEdgeWorkerRelease(d, d.releases[i.id].script, i.reply), i, t)

\* A status that is written over another one leaves no trace of it.
LEMMA StatusOverwritten ==
  ASSUME NEW d, DOMAIN d = DOMAIN EmptyDb, NEW i, Has(d.releases, i.id), "status" \in DOMAIN d.releases[i.id], NEW s, NEW t
  PROVE  Overwritten(d, i, s, t)
<1> DEFINE x == i.id
           reply == i.reply
           w == ReleaseIs(d, i, s)
           e == w.db
<1>1. w.out = "ok" /\ e = [d EXCEPT !["releases"][x]["status"] = s]
  BY DEF ReleaseIs, Pg!updateEdgeWorkerRelease, Pg!SetColumn, Pg!Ok, Pg!Has, Has
<1>2. /\ DOMAIN e = DOMAIN EmptyDb
      /\ e.releases = [d.releases EXCEPT ![x]["status"] = s]
      /\ \A f \in DOMAIN EmptyDb \ {"releases"} : e[f] = d[f]
  BY <1>1 DEF EmptyDb
<1> HIDE DEF w, e
<1>3. e.releases[x].script = d.releases[x].script /\ Has(e.releases, x)
  BY <1>2 DEF Has
<1>4. [e.releases EXCEPT ![x]["status"] = t] = [d.releases EXCEPT ![x]["status"] = t]
  BY <1>2
<1> DEFINE called == deleteProviderEdgeWorkerRelease(e, d.releases[x].script, reply)
           calledFirst == deleteProviderEdgeWorkerRelease(d, d.releases[x].script, reply)
<1>5. /\ DOMAIN called = DOMAIN EmptyDb /\ DOMAIN calledFirst = DOMAIN EmptyDb
      /\ called.releases = e.releases /\ calledFirst.releases = d.releases
      /\ \A f \in DOMAIN EmptyDb \ {"releases"} : called[f] = calledFirst[f]
  BY <1>2 DEF deleteProviderEdgeWorkerRelease, EmptyDb
<1> HIDE DEF called, calledFirst
<1>6. [called EXCEPT !["releases"][x]["status"] = t] = [calledFirst EXCEPT !["releases"][x]["status"] = t]
  <2> DEFINE a == [called EXCEPT !["releases"][x]["status"] = t]
             b == [calledFirst EXCEPT !["releases"][x]["status"] = t]
  <2>1. a.releases = b.releases
    BY <1>4, <1>5 DEF EmptyDb
  <2>2. \A f \in DOMAIN EmptyDb \ {"releases"} : a[f] = b[f]
    BY <1>5
  <2>3. a = [f \in DOMAIN EmptyDb |-> a[f]] /\ b = [f \in DOMAIN EmptyDb |-> b[f]]
    BY <1>5
  <2> HIDE DEF a, b
  <2>4. [f \in DOMAIN EmptyDb |-> a[f]] = [f \in DOMAIN EmptyDb |-> b[f]]
    BY <2>1, <2>2
  <2> QED
    BY <2>3, <2>4 DEF a, b
<1>7. ReleaseIs(called, i, t) = ReleaseIs(calledFirst, i, t)
  BY <1>3, <1>5, <1>6 DEF ReleaseIs, Pg!updateEdgeWorkerRelease, Pg!SetColumn, Pg!Ok, Pg!Has, Has
<1> QED
  BY <1>1, <1>3, <1>7 DEF e, w, called, calledFirst, Overwritten

\* What registerRuntimeNode() of service.ts comes to.
LEMMA registerRuntimeNodeServed ==
  ASSUME NEW d, DOMAIN d = DOMAIN EmptyDb, NEW i
  PROVE  Sync!registerRuntimeNode(d, i) =
           Pg!createRuntimeNode(d, i.id,
             [url |-> i.url, status |-> normalizeRuntimeNodeStatus(i.status), registered |-> i.now,
              seen |-> None, capacity |-> None, load |-> None])
<1> USE DEF Sync!Provided, Provided, Sync!Require, Require, Sync!Ok, Ok, Sync!Fail, Fail, Sync!Has, Has, Sync!Then, Found
<1> QED
  BY SameStatements, SameRules DEF Sync!registerRuntimeNode

\* What recordRuntimeNodeHeartbeat() of service.ts comes to.
LEMMA recordRuntimeNodeHeartbeatServed ==
  ASSUME NEW d, DOMAIN d = DOMAIN EmptyDb, NEW i
  PROVE  Sync!recordRuntimeNodeHeartbeat(d, i) =
           Provided(Found(d, "nodes", i.id), Pg!updateRuntimeNodeHeartbeat(d, i.id, heartbeatNode(d.nodes[i.id], i)))
<1> USE DEF Sync!Provided, Provided, Sync!Require, Require, Sync!Ok, Ok, Sync!Fail, Fail, Sync!Has, Has, Sync!Then, Found
<1> QED
  BY SameStatements, SameRules DEF Sync!recordRuntimeNodeHeartbeat, heartbeatNode

\* What updateRuntimeNodeStatus() of service.ts comes to.
LEMMA updateRuntimeNodeStatusServed ==
  ASSUME NEW d, DOMAIN d = DOMAIN EmptyDb, NEW i
  PROVE  Sync!updateRuntimeNodeStatus(d, i) = Pg!updateRuntimeNodeStatus(d, i.id, normalizeRuntimeNodeStatus(i.status))
<1> USE DEF Sync!Provided, Provided, Sync!Require, Require, Sync!Ok, Ok, Sync!Fail, Fail, Sync!Has, Has, Sync!Then, Found
<1> QED
  BY SameStatements, SameRules DEF Sync!updateRuntimeNodeStatus

\* What listActiveRuntimeNodes() of service.ts comes to.
LEMMA listActiveRuntimeNodesServed ==
  ASSUME NEW d, DOMAIN d = DOMAIN EmptyDb, NEW i
  PROVE  Sync!listActiveRuntimeNodes(d, i) =
           Fail(d, IF Has(d.nodes, i.id) /\ isActiveRuntimeNode(d.nodes[i.id], i.now, i.ttl)
                   THEN "listed" ELSE "unlisted")
<1> USE DEF Sync!Provided, Provided, Sync!Require, Require, Sync!Ok, Ok, Sync!Fail, Fail, Sync!Has, Has, Sync!Then, Found
<1> QED
  BY SameRules DEF Sync!listActiveRuntimeNodes

\* What recordRouteSnapshotPublication() of service.ts comes to.
LEMMA recordRouteSnapshotPublicationServed ==
  ASSUME NEW d, DOMAIN d = DOMAIN EmptyDb, NEW i
  PROVE  Sync!recordRouteSnapshotPublication(d, i) =
           Pg!createRouteSnapshotPublication(d, [snapshot |-> i.snapshot, ok |-> i.ok])
<1> USE DEF Sync!Provided, Provided, Sync!Require, Require, Sync!Ok, Ok, Sync!Fail, Fail, Sync!Has, Has, Sync!Then, Found
<1> QED
  BY SameStatements DEF Sync!recordRouteSnapshotPublication

\* What createEdgeWorkerRelease() of service.ts comes to.
LEMMA createEdgeWorkerReleaseServed ==
  ASSUME NEW d, DOMAIN d = DOMAIN EmptyDb, NEW i
  PROVE  Sync!createEdgeWorkerRelease(d, i) = Provided(DeploymentOf(d, i.project, i.deployment), ScriptDeployed(d, i))
<1> USE DEF Sync!Provided, Provided, Sync!Require, Require, Sync!Ok, Ok, Sync!Fail, Fail, Sync!Has, Has, Sync!Then, Found
<1> QED
  BY SameStatements DEF Sync!createEdgeWorkerRelease, Sync!requireProject, DeploymentOf, ScriptDeployed, Deployed,
     ReleaseInserted

\* What deleteEdgeWorkerRelease() of service.ts comes to.
LEMMA deleteEdgeWorkerReleaseServed ==
  ASSUME NEW d, DOMAIN d = DOMAIN EmptyDb, \A x \in DOMAIN d.releases : "status" \in DOMAIN d.releases[x], NEW i
  PROVE  Sync!deleteEdgeWorkerRelease(d, i) =
           Provided(Found(d, "releases", i.id),
             IF d.releases[i.id].status = "deleted" THEN Ok(d)
             ELSE IF ~i.deleteProvider THEN ReleaseIs(d, i, "deleted") ELSE ReleaseDeleted(d, i))
<1> USE DEF Sync!Provided, Provided, Sync!Require, Require, Sync!Ok, Ok, Sync!Fail, Fail, Sync!Has, Has, Sync!Then, Found
<1> DEFINE called == deleteProviderEdgeWorkerRelease(d, d.releases[i.id].script, i.reply)
           w == ReleaseIs(d, i, "deleting")
<1>1. Sync!deleteProviderEdgeWorkerRelease(d, i.id, i.reply) = called
  BY DEF Sync!deleteProviderEdgeWorkerRelease, deleteProviderEdgeWorkerRelease
<1>2. \A e : <<i.id, Sync!Cardinality(Sync!operationsOf(e, i.id))>> = operationId(e, i.id)
  BY DEF Sync!operationsOf, operationId, Sync!Cardinality, Cardinality
<1>3. Sync!deleteEdgeWorkerRelease(d, i) =
        Provided(Found(d, "releases", i.id),
          IF d.releases[i.id].status = "deleted" THEN Ok(d)
          ELSE IF ~i.deleteProvider THEN ReleaseIs(d, i, "deleted") ELSE AnswerTaken(called, i))
  BY <1>1, <1>2, SameStatements DEF Sync!deleteEdgeWorkerRelease, ReleaseIs, AnswerTaken, ReleaseFailed, RetryQueued
<1>4. Has(d.releases, i.id) => ReleaseDeleted(d, i) = AnswerTaken(called, i)
  <2> SUFFICES ASSUME Has(d.releases, i.id) PROVE ReleaseDeleted(d, i) = AnswerTaken(called, i)
    OBVIOUS
  <2> DEFINE asked == deleteProviderEdgeWorkerRelease(w.db, w.db.releases[i.id].script, i.reply)
  <2>0. Has(d.releases, i.id) /\ "status" \in DOMAIN d.releases[i.id]
    BY DEF Has
  <2>1. w.out = "ok" /\ \A t : ReleaseIs(asked, i, t) = ReleaseIs(called, i, t)
    <3>1. ASSUME NEW t PROVE w.out = "ok" /\ ReleaseIs(asked, i, t) = ReleaseIs(called, i, t)
      <4>1. Overwritten(d, i, "deleting", t)
        BY <2>0, StatusOverwritten
      <4> QED
        BY <4>1 DEF Overwritten
    <3> QED
      BY <3>1
  <2>2. ReleaseDeleted(d, i) = AnswerTaken(asked, i)
    BY <2>1 DEF ReleaseDeleted, ProviderAsked
  <2> HIDE DEF asked, called, w
  <2> QED
    BY <2>1, <2>2 DEF AnswerTaken, ReleaseFailed
<1> HIDE DEF called
<1> QED
  BY <1>3, <1>4

-----------------------------------------------------------------------------
(* The loops.  service.ts takes the rows of a list in their order, a call  *)
(* of async-service.ts here in any order: each row is treated on its own,  *)
(* so the end is the same.                                                 *)

\* Databases with the same tables are the same.
LEMMA SameTables ==
  ASSUME NEW a, NEW b, a = [t \in DOMAIN EmptyDb |-> a[t]], b = [t \in DOMAIN EmptyDb |-> b[t]],
         \A t \in DOMAIN EmptyDb : a[t] = b[t]
  PROVE  a = b
<1> DEFINE D == DOMAIN EmptyDb
<1>1. [t \in D |-> a[t]] = [t \in D |-> b[t]]
  <2> HIDE DEF D
  <2> QED
    BY DEF D
<1> QED
  BY <1>1

\* Two recursions over the parts of a finite set that take the same steps end alike.
LEMMA SameFolds ==
  ASSUME NEW S, IsFiniteSet(S), NEW g, NEW h, g[{}] = h[{}],
         \A s \in SUBSET S : s # {} /\ g[s \ {Pick(s)}] = h[s \ {Pick(s)}] => g[s] = h[s]
  PROVE  g[S] = h[S]
<1> DEFINE Good == {s \in SUBSET S : g[s] = h[s]}
<1>1. ASSUME NEW s \in SUBSET S, \A x \in s : s \ {x} \in Good PROVE s \in Good
  <2>1. s # {} => Pick(s) \in s
    BY DEF Pick
  <2> QED
    BY <1>1, <2>1
<1>2. SUBSET S \subseteq Good
  <2> HIDE DEF Good
  <2> QED
    BY <1>1, FiniteInduction
<1> QED
  BY <1>2

\* The nodes of s are deleted.
NodesGone(d, s) == IF s = {} THEN Ok(d) ELSE Ok([d EXCEPT !.nodes = [n \in DOMAIN @ \ s |-> @[n]]])

\* A node is deleted after the others, or before them.
LEMMA OneNodeMore ==
  ASSUME NEW d, DOMAIN d = DOMAIN EmptyDb, NEW s, s \subseteq DOMAIN d.nodes, NEW n \in s
  PROVE  /\ Pg!deleteRuntimeNode(NodesGone(d, s \ {n}).db, n) = NodesGone(d, s)
         /\ Pg!deleteRuntimeNode(d, n).out = "ok"
         /\ NodesGone(Pg!deleteRuntimeNode(d, n).db, s \ {n}) = NodesGone(d, s)
         /\ s \ {n} \subseteq DOMAIN Pg!deleteRuntimeNode(d, n).db.nodes
<1> DEFINE a == NodesGone(d, s \ {n}).db
           b == [d EXCEPT !["nodes"] = [x \in DOMAIN @ \ {n} |-> @[x]]]
           a1 == [a EXCEPT !["nodes"] = [x \in DOMAIN @ \ {n} |-> @[x]]]
           b1 == NodesGone(b, s \ {n}).db
           e == [d EXCEPT !.nodes = [x \in DOMAIN @ \ s |-> @[x]]]
<1>1. /\ DOMAIN a = DOMAIN EmptyDb /\ DOMAIN a.nodes = DOMAIN d.nodes \ (s \ {n})
      /\ \A x \in DOMAIN a.nodes : a.nodes[x] = d.nodes[x]
      /\ \A t \in DOMAIN EmptyDb \ {"nodes"} : a[t] = d[t]
  BY DEF EmptyDb, NodesGone, Ok
<1>2. /\ b = [t \in DOMAIN EmptyDb |-> b[t]] /\ b.nodes = [x \in DOMAIN d.nodes \ {n} |-> d.nodes[x]]
      /\ \A t \in DOMAIN EmptyDb \ {"nodes"} : b[t] = d[t]
  BY DEF EmptyDb
<1>3. Pg!deleteRuntimeNode(NodesGone(d, s \ {n}).db, n) = Ok(a1)
  BY <1>1 DEF Pg!deleteRuntimeNode, Pg!Delete, Pg!Ok, Pg!Drop, Pg!Has, Ok
<1>4. Pg!deleteRuntimeNode(d, n) = Ok(b)
  BY DEF Pg!deleteRuntimeNode, Pg!Delete, Pg!Ok, Pg!Drop, Pg!Has, Ok
<1>5. NodesGone(d, s) = Ok(e) /\ NodesGone(b, s \ {n}) = Ok(b1)
  BY DEF NodesGone, Ok
<1>6. /\ e = [t \in DOMAIN EmptyDb |-> e[t]] /\ e.nodes = [x \in DOMAIN d.nodes \ s |-> d.nodes[x]]
      /\ \A t \in DOMAIN EmptyDb \ {"nodes"} : e[t] = d[t]
  BY DEF EmptyDb
<1> HIDE DEF a, b, e
<1>7. /\ a1 = [t \in DOMAIN EmptyDb |-> a1[t]] /\ a1.nodes = [x \in DOMAIN d.nodes \ s |-> d.nodes[x]]
      /\ \A t \in DOMAIN EmptyDb \ {"nodes"} : a1[t] = d[t]
  BY <1>1 DEF EmptyDb
<1>8. /\ b1 = [t \in DOMAIN EmptyDb |-> b1[t]] /\ b1.nodes = [x \in DOMAIN d.nodes \ s |-> d.nodes[x]]
      /\ \A t \in DOMAIN EmptyDb \ {"nodes"} : b1[t] = d[t]
  <2>1. CASE s \ {n} = {}
    <3>1. b1 = b /\ DOMAIN d.nodes \ {n} = DOMAIN d.nodes \ s
      BY <2>1 DEF NodesGone, Ok
    <3> QED
      BY <1>2, <3>1
  <2>2. CASE s \ {n} # {}
    BY <1>2, <2>2 DEF EmptyDb, NodesGone, Ok
  <2> QED
    BY <2>1, <2>2
<1> HIDE DEF a1, b1
<1>9. a1 = e
  <2>1. \A t \in DOMAIN EmptyDb : a1[t] = e[t]
    BY <1>6, <1>7
  <2> QED
    BY <1>6, <1>7, <2>1, SameTables, Zenon
<1>10. b1 = e
  <2>1. \A t \in DOMAIN EmptyDb : b1[t] = e[t]
    BY <1>6, <1>8
  <2> QED
    BY <1>6, <1>8, <2>1, SameTables, Zenon
<1> QED
  BY <1>2, <1>3, <1>4, <1>5, <1>9, <1>10 DEF Ok

\* cleanupRuntimeNodes() deletes the nodes it has listed, whatever their order.
LEMMA cleanupRuntimeNodesServed ==
  ASSUME NEW d, DOMAIN d = DOMAIN EmptyDb, IsFiniteSet(DOMAIN d.nodes), NEW i
  PROVE  Sync!cleanupRuntimeNodes(d, i) =
           Provided(Require(d, i.olderThan > 0, "validation"), NodesGone(d, cleanedNodes(d, i)))
<1> DEFINE S == Sync!cleanedNodes(d, i)
           F(g, s) == IF s = {} THEN Sync!Ok(d) ELSE Sync!R!deleteRuntimeNode(g[s \ {Pick(s)}].db, Pick(s))
           g == CHOOSE f : f = [s \in SUBSET S |-> F(f, s)]
           h == [s \in SUBSET S |-> NodesGone(d, s)]
<1>1. S = cleanedNodes(d, i) /\ S \subseteq DOMAIN d.nodes /\ IsFiniteSet(S)
  <2>1. S = cleanedNodes(d, i) /\ cleanedNodes(d, i) \subseteq DOMAIN d.nodes
    BY SameRules DEF cleanedNodes
  <2> QED
    BY <2>1, FS_Subset
<1>2. Sync!cleanupRuntimeNodes(d, i) = Sync!Provided(Sync!Require(d, i.olderThan > 0, "validation"), g[S])
  BY DEF Sync!cleanupRuntimeNodes, Sync!FoldSet, Sync!MapThenFoldSet, Pick
<1> HIDE DEF S
<1>3. ASSUME NEW s \in SUBSET S PROVE h[s] = F(h, s)
  <2>1. s # {} => Pick(s) \in s
    BY DEF Pick
  <2>2. CASE s = {}
    BY <2>2 DEF NodesGone, Sync!Ok, Ok
  <2>3. CASE s # {}
    <3>1. F(h, s) = Pg!deleteRuntimeNode(NodesGone(d, s \ {Pick(s)}).db, Pick(s))
      BY <2>3, SameStatements
    <3> QED
      BY <1>1, <2>1, <2>3, <3>1, OneNodeMore
  <2> QED
    BY <2>2, <2>3
<1>4. h = [s \in SUBSET S |-> F(h, s)]
  BY <1>3
<1>5. g = [s \in SUBSET S |-> F(g, s)]
  <2> HIDE DEF h, F
  <2> QED
    BY <1>4
<1> HIDE DEF g, h
<1>6. g[S] = h[S]
  <2>1. g[{}] = h[{}]
    BY <1>4, <1>5
  <2>2. \A s \in SUBSET S : s # {} /\ g[s \ {Pick(s)}] = h[s \ {Pick(s)}] => g[s] = h[s]
    BY <1>4, <1>5
  <2> QED
    BY <1>1, <2>1, <2>2, SameFolds
<1> QED
  BY <1>1, <1>2, <1>6 DEF h, Sync!Provided, Provided, Sync!Require, Require, Sync!Ok, Ok, Sync!Fail, Fail

\* The invoices of s are deleted, with every record that hangs on them.
InvoicesGone(d, s) ==
  IF s = {} THEN Ok(d)
  ELSE Ok([d EXCEPT !.adjustments = [a \in {x \in DOMAIN @ : @[x].invoice \notin s} |-> @[a]],
                    !.policies = [v \in DOMAIN @ \ s |-> @[v]],
                    !.webhooks = [w \in {x \in DOMAIN @ : x[1] \notin s} |-> @[w]],
                    !.invoices = [v \in DOMAIN @ \ s |-> @[v]]])

\* e is what deleting the invoices of s leaves of d.
LeavesInvoices(d, e, s) ==
  /\ e = [t \in DOMAIN EmptyDb |-> e[t]]
  /\ e.adjustments = [a \in {x \in DOMAIN d.adjustments : d.adjustments[x].invoice \notin s} |-> d.adjustments[a]]
  /\ e.policies = [v \in DOMAIN d.policies \ s |-> d.policies[v]]
  /\ e.webhooks = [w \in {x \in DOMAIN d.webhooks : x[1] \notin s} |-> d.webhooks[w]]
  /\ e.invoices = [v \in DOMAIN d.invoices \ s |-> d.invoices[v]]
  /\ \A t \in DOMAIN EmptyDb \ {"adjustments", "policies", "webhooks", "invoices"} : e[t] = d[t]

\* Some invoices are gone.
LEMMA SomeInvoicesGone ==
  ASSUME NEW d, DOMAIN d = DOMAIN EmptyDb, NEW s, s # {}
  PROVE  InvoicesGone(d, s) = Ok(InvoicesGone(d, s).db) /\ LeavesInvoices(d, InvoicesGone(d, s).db, s)
<1> DEFINE e == [d EXCEPT !.adjustments = [a \in {x \in DOMAIN @ : @[x].invoice \notin s} |-> @[a]],
                          !.policies = [v \in DOMAIN @ \ s |-> @[v]],
                          !.webhooks = [w \in {x \in DOMAIN @ : x[1] \notin s} |-> @[w]],
                          !.invoices = [v \in DOMAIN @ \ s |-> @[v]]]
<1>1. InvoicesGone(d, s) = Ok(e)
  BY DEF InvoicesGone
<1>2. e = [t \in DOMAIN EmptyDb |-> e[t]]
  OBVIOUS
<1>3. e.adjustments = [a \in {x \in DOMAIN d.adjustments : d.adjustments[x].invoice \notin s} |-> d.adjustments[a]]
  BY DEF EmptyDb
<1>4. e.policies = [v \in DOMAIN d.policies \ s |-> d.policies[v]]
  BY DEF EmptyDb
<1>5. e.webhooks = [w \in {x \in DOMAIN d.webhooks : x[1] \notin s} |-> d.webhooks[w]]
  BY DEF EmptyDb
<1>6. e.invoices = [v \in DOMAIN d.invoices \ s |-> d.invoices[v]]
  BY DEF EmptyDb
<1>7. \A t \in DOMAIN EmptyDb \ {"adjustments", "policies", "webhooks", "invoices"} : e[t] = d[t]
  OBVIOUS
<1> HIDE DEF e
<1>8. LeavesInvoices(d, e, s)
  BY <1>2, <1>3, <1>4, <1>5, <1>6, <1>7 DEF LeavesInvoices
<1> QED
  BY <1>1, <1>8 DEF Ok

\* One invoice is gone.
LEMMA OneInvoiceGone ==
  ASSUME NEW d, DOMAIN d = DOMAIN EmptyDb, NEW v, Has(d.invoices, v)
  PROVE  /\ Pg!deleteBillingInvoice(d, v) = Ok(Pg!deleteBillingInvoice(d, v).db)
         /\ LeavesInvoices(d, Pg!deleteBillingInvoice(d, v).db, {v})
<1>1. Pg!deleteBillingInvoice(d, v) = InvoicesGone(d, {v})
  BY DEF Pg!deleteBillingInvoice, InvoicesGone, Pg!Has, Has, Pg!Ok, Ok
<1> QED
  BY <1>1, SomeInvoicesGone

\* Two databases that deleting the same invoices leaves of d are the same.
LEMMA SameInvoicesLeft ==
  ASSUME NEW d, NEW a, NEW b, NEW s, LeavesInvoices(d, a, s), LeavesInvoices(d, b, s) PROVE a = b
<1>1. \A t \in DOMAIN EmptyDb : a[t] = b[t]
  BY DEF LeavesInvoices
<1>2. a = [t \in DOMAIN EmptyDb |-> a[t]] /\ b = [t \in DOMAIN EmptyDb |-> b[t]]
  BY DEF LeavesInvoices
<1> QED
  BY <1>1, <1>2, SameTables, Zenon

\* Deleting the invoices of s and then those of t deletes those of both.
LEMMA InvoicesLeftTwice ==
  ASSUME NEW d, NEW a, NEW b, NEW s, NEW t, LeavesInvoices(d, a, s), LeavesInvoices(a, b, t)
  PROVE  LeavesInvoices(d, b, s \union t)
<1>1. b.adjustments = [x \in {y \in DOMAIN d.adjustments : d.adjustments[y].invoice \notin s \union t} |-> d.adjustments[x]]
  <2> DEFINE Kept == {y \in DOMAIN d.adjustments : d.adjustments[y].invoice \notin s \union t}
  <2>1. DOMAIN a.adjustments = {y \in DOMAIN d.adjustments : d.adjustments[y].invoice \notin s} /\ \A x \in DOMAIN a.adjustments : a.adjustments[x] = d.adjustments[x]
    BY DEF LeavesInvoices
  <2>2. b.adjustments = [x \in {y \in DOMAIN a.adjustments : a.adjustments[y].invoice \notin t} |-> a.adjustments[x]]
    BY DEF LeavesInvoices
  <2>3. {y \in DOMAIN a.adjustments : a.adjustments[y].invoice \notin t} = Kept /\ Kept \subseteq DOMAIN a.adjustments
    BY <2>1
  <2>4. b.adjustments = [x \in Kept |-> a.adjustments[x]]
    BY <2>2, <2>3
  <2> HIDE DEF Kept
  <2>5. [x \in Kept |-> a.adjustments[x]] = [x \in Kept |-> d.adjustments[x]]
    BY <2>1, <2>3
  <2> QED
    BY <2>4, <2>5 DEF Kept
<1>2. b.policies = [v \in DOMAIN d.policies \ (s \union t) |-> d.policies[v]]
  <2> DEFINE Kept == DOMAIN d.policies \ (s \union t)
  <2>1. DOMAIN a.policies = DOMAIN d.policies \ s /\ \A x \in DOMAIN a.policies : a.policies[x] = d.policies[x]
    BY DEF LeavesInvoices
  <2>2. b.policies = [v \in DOMAIN a.policies \ t |-> a.policies[v]]
    BY DEF LeavesInvoices
  <2>3. DOMAIN a.policies \ t = Kept /\ Kept \subseteq DOMAIN a.policies
    BY <2>1
  <2>4. b.policies = [v \in Kept |-> a.policies[v]]
    BY <2>2, <2>3
  <2> HIDE DEF Kept
  <2>5. [v \in Kept |-> a.policies[v]] = [v \in Kept |-> d.policies[v]]
    BY <2>1, <2>3
  <2> QED
    BY <2>4, <2>5 DEF Kept
<1>3. b.webhooks = [w \in {x \in DOMAIN d.webhooks : x[1] \notin s \union t} |-> d.webhooks[w]]
  <2> DEFINE Kept == {x \in DOMAIN d.webhooks : x[1] \notin s \union t}
  <2>1. DOMAIN a.webhooks = {x \in DOMAIN d.webhooks : x[1] \notin s} /\ \A x \in DOMAIN a.webhooks : a.webhooks[x] = d.webhooks[x]
    BY DEF LeavesInvoices
  <2>2. b.webhooks = [w \in {x \in DOMAIN a.webhooks : x[1] \notin t} |-> a.webhooks[w]]
    BY DEF LeavesInvoices
  <2>3. {x \in DOMAIN a.webhooks : x[1] \notin t} = Kept /\ Kept \subseteq DOMAIN a.webhooks
    BY <2>1
  <2>4. b.webhooks = [w \in Kept |-> a.webhooks[w]]
    BY <2>2, <2>3
  <2> HIDE DEF Kept
  <2>5. [w \in Kept |-> a.webhooks[w]] = [w \in Kept |-> d.webhooks[w]]
    BY <2>1, <2>3
  <2> QED
    BY <2>4, <2>5 DEF Kept
<1>4. b.invoices = [v \in DOMAIN d.invoices \ (s \union t) |-> d.invoices[v]]
  <2> DEFINE Kept == DOMAIN d.invoices \ (s \union t)
  <2>1. DOMAIN a.invoices = DOMAIN d.invoices \ s /\ \A x \in DOMAIN a.invoices : a.invoices[x] = d.invoices[x]
    BY DEF LeavesInvoices
  <2>2. b.invoices = [v \in DOMAIN a.invoices \ t |-> a.invoices[v]]
    BY DEF LeavesInvoices
  <2>3. DOMAIN a.invoices \ t = Kept /\ Kept \subseteq DOMAIN a.invoices
    BY <2>1
  <2>4. b.invoices = [v \in Kept |-> a.invoices[v]]
    BY <2>2, <2>3
  <2> HIDE DEF Kept
  <2>5. [v \in Kept |-> a.invoices[v]] = [v \in Kept |-> d.invoices[v]]
    BY <2>1, <2>3
  <2> QED
    BY <2>4, <2>5 DEF Kept
<1>5. /\ b = [x \in DOMAIN EmptyDb |-> b[x]]
      /\ \A x \in DOMAIN EmptyDb \ {"adjustments", "policies", "webhooks", "invoices"} : b[x] = d[x]
  BY DEF LeavesInvoices
<1> QED
  BY <1>1, <1>2, <1>3, <1>4, <1>5 DEF LeavesInvoices

\* An invoice is deleted after the others, or before them.
LEMMA OneInvoiceMore ==
  ASSUME NEW d, DOMAIN d = DOMAIN EmptyDb, NEW s, s \subseteq DOMAIN d.invoices, NEW v \in s
  PROVE  /\ Pg!deleteBillingInvoice(InvoicesGone(d, s \ {v}).db, v) = InvoicesGone(d, s)
         /\ Pg!deleteBillingInvoice(d, v).out = "ok"
         /\ InvoicesGone(Pg!deleteBillingInvoice(d, v).db, s \ {v}) = InvoicesGone(d, s)
<1> DEFINE rest == s \ {v}
           a == InvoicesGone(d, rest).db
           b == Pg!deleteBillingInvoice(d, v).db
           e == InvoicesGone(d, s).db
<1>0. s # {} /\ rest \union {v} = s /\ {v} \union rest = s /\ Has(d.invoices, v)
  BY DEF Has
<1>1. InvoicesGone(d, s) = Ok(e) /\ LeavesInvoices(d, e, s)
  BY <1>0, SomeInvoicesGone
<1>2. Pg!deleteBillingInvoice(d, v) = Ok(b) /\ LeavesInvoices(d, b, {v})
  BY <1>0, OneInvoiceGone
<1>3. CASE rest = {}
  <2>1. a = d /\ InvoicesGone(b, rest) = Ok(b) /\ s = {v}
    BY <1>0, <1>3 DEF InvoicesGone, Ok
  <2>2. b = e
    BY <1>1, <1>2, <2>1, SameInvoicesLeft
  <2> QED
    BY <1>1, <1>2, <2>1, <2>2 DEF Ok
<1>4. CASE rest # {}
  <2>1. LeavesInvoices(d, a, rest)
    BY <1>4, SomeInvoicesGone
  <2>2. DOMAIN a = DOMAIN EmptyDb /\ Has(a.invoices, v) /\ DOMAIN b = DOMAIN EmptyDb
    BY <1>0, <1>2, <2>1 DEF LeavesInvoices, Has
  <2> DEFINE a1 == Pg!deleteBillingInvoice(a, v).db
             b1 == InvoicesGone(b, rest).db
  <2>3. Pg!deleteBillingInvoice(a, v) = Ok(a1) /\ LeavesInvoices(a, a1, {v})
    BY <2>2, OneInvoiceGone
  <2>4. InvoicesGone(b, rest) = Ok(b1) /\ LeavesInvoices(b, b1, rest)
    BY <1>4, <2>2, SomeInvoicesGone
  <2> HIDE DEF a, b, e, a1, b1, rest
  <2>5. LeavesInvoices(d, a1, s) /\ LeavesInvoices(d, b1, s)
    BY <1>0, <1>2, <2>1, <2>3, <2>4, InvoicesLeftTwice
  <2>6. a1 = e /\ b1 = e
    BY <1>1, <2>5, SameInvoicesLeft
  <2> QED
    BY <1>1, <1>2, <2>3, <2>4, <2>6 DEF Ok, a, b, rest
<1> QED
  BY <1>3, <1>4

\* What the policies of d decide to delete of the invoices of s.
Expired(d, s, now) == {v \in s : decideBillingInvoiceRetention(d.policies, v, now) = "delete"}

\* pruneBillingInvoices() deletes what has expired of the invoices of the organization, whatever their order.
LEMMA pruneBillingInvoicesServed ==
  ASSUME NEW d, DOMAIN d = DOMAIN EmptyDb, IsFiniteSet(DOMAIN d.invoices), NEW i
  PROVE  Sync!pruneBillingInvoices(d, i) =
           Provided(Found(d, "organizations", i.org),
                    InvoicesGone(d, Expired(d, {v \in DOMAIN d.invoices : d.invoices[v].org = i.org}, i.now)))
<1> DEFINE S == Sync!expiredInvoices(d, i)
           F(g, s) == IF s = {} THEN Sync!Ok(d) ELSE Sync!R!deleteBillingInvoice(g[s \ {Pick(s)}].db, Pick(s))
           g == CHOOSE f : f = [s \in SUBSET S |-> F(f, s)]
           h == [s \in SUBSET S |-> InvoicesGone(d, s)]
<1>1. /\ S = Expired(d, {v \in DOMAIN d.invoices : d.invoices[v].org = i.org}, i.now)
      /\ S \subseteq DOMAIN d.invoices /\ IsFiniteSet(S)
  <2>1. S \subseteq DOMAIN d.invoices
    BY DEF Sync!expiredInvoices
  <2>2. S = Expired(d, {v \in DOMAIN d.invoices : d.invoices[v].org = i.org}, i.now)
    BY SameMeters DEF Sync!expiredInvoices, Expired
  <2> QED
    BY <2>1, <2>2, FS_Subset
<1>2. Sync!pruneBillingInvoices(d, i) = Sync!Provided(Sync!requireOrganization(d, i.org), g[S])
  BY DEF Sync!pruneBillingInvoices, Sync!FoldSet, Sync!MapThenFoldSet, Pick
<1> HIDE DEF S
<1>3. ASSUME NEW s \in SUBSET S PROVE h[s] = F(h, s)
  <2>1. s # {} => Pick(s) \in s
    BY DEF Pick
  <2>2. CASE s = {}
    BY <2>2 DEF InvoicesGone, Sync!Ok, Ok
  <2>3. CASE s # {}
    <3>1. F(h, s) = Pg!deleteBillingInvoice(InvoicesGone(d, s \ {Pick(s)}).db, Pick(s))
      BY <2>3, SameStatements
    <3> QED
      BY <1>1, <2>1, <2>3, <3>1, OneInvoiceMore
  <2> QED
    BY <2>2, <2>3
<1>4. h = [s \in SUBSET S |-> F(h, s)]
  BY <1>3
<1>5. g = [s \in SUBSET S |-> F(g, s)]
  <2> HIDE DEF h, F
  <2> QED
    BY <1>4
<1> HIDE DEF g, h
<1>6. g[S] = h[S]
  <2>1. g[{}] = h[{}]
    BY <1>4, <1>5
  <2>2. \A s \in SUBSET S : s # {} /\ g[s \ {Pick(s)}] = h[s \ {Pick(s)}] => g[s] = h[s]
    BY <1>4, <1>5
  <2> QED
    BY <1>1, <2>1, <2>2, SameFolds
<1> QED
  BY <1>1, <1>2, <1>6
  DEF h, Sync!requireOrganization, Found, Sync!Provided, Provided, Sync!Require, Require, Sync!Ok, Ok,
     Sync!Fail, Fail, Sync!Has, Has

\* What an attempt makes of the release and of the row of an operation.
Outcome(i) == IF i.reply = "done" THEN "deleted" ELSE "failed"
AttemptMade(row, i) ==
  IF i.reply = "done" THEN [row EXCEPT !.status = "succeeded", !.attempts = @ + 1] ELSE retriedOperation(row, i.now)

\* The operations of rows are attempted, as they were listed.
OperationsDone(d, rows, i) ==
  IF rows = NoRows THEN Ok(d)
  ELSE Ok([d EXCEPT
         !.scripts = IF i.reply = "error" THEN @ ELSE @ \ {d.releases[rows[o].release].script : o \in DOMAIN rows},
         !.releases = [x \in DOMAIN @ |-> IF \E o \in DOMAIN rows : rows[o].release = x
                                          THEN [@[x] EXCEPT !.status = Outcome(i)] ELSE @[x]],
         !.operations = [o \in DOMAIN @ |-> IF o \in DOMAIN rows THEN AttemptMade(rows[o], i) ELSE @[o]]])

\* e is what the attempts at the operations of rows make of d.
LeavesOperations(d, e, rows, i) ==
  /\ e = [t \in DOMAIN EmptyDb |-> e[t]]
  /\ e.scripts = IF i.reply = "error" THEN d.scripts
                 ELSE d.scripts \ {d.releases[rows[o].release].script : o \in DOMAIN rows}
  /\ e.releases = [x \in DOMAIN d.releases |-> IF \E o \in DOMAIN rows : rows[o].release = x
                                               THEN [d.releases[x] EXCEPT !.status = Outcome(i)] ELSE d.releases[x]]
  /\ e.operations = [o \in DOMAIN d.operations |-> IF o \in DOMAIN rows THEN AttemptMade(rows[o], i) ELSE d.operations[o]]
  /\ \A t \in DOMAIN EmptyDb \ {"scripts", "releases", "operations"} : e[t] = d[t]

\* The listed rows are operations of releases that are there.
RowsOfReleases(d, rows) ==
  /\ DOMAIN rows \subseteq DOMAIN d.operations
  /\ \A o \in DOMAIN rows : Has(d.releases, rows[o].release) /\ "script" \in DOMAIN d.releases[rows[o].release]

\* Some operations are attempted.
LEMMA SomeOperationsDone ==
  ASSUME NEW d, DOMAIN d = DOMAIN EmptyDb, NEW rows, rows # NoRows, NEW i
  PROVE  /\ OperationsDone(d, rows, i) = Ok(OperationsDone(d, rows, i).db)
         /\ LeavesOperations(d, OperationsDone(d, rows, i).db, rows, i)
<1> DEFINE e == [d EXCEPT
                  !.scripts = IF i.reply = "error" THEN @ ELSE @ \ {d.releases[rows[o].release].script : o \in DOMAIN rows},
                  !.releases = [x \in DOMAIN @ |-> IF \E o \in DOMAIN rows : rows[o].release = x
                                                   THEN [@[x] EXCEPT !.status = Outcome(i)] ELSE @[x]],
                  !.operations = [o \in DOMAIN @ |-> IF o \in DOMAIN rows THEN AttemptMade(rows[o], i) ELSE @[o]]]
<1>1. OperationsDone(d, rows, i) = Ok(e)
  BY DEF OperationsDone
<1>2. e = [t \in DOMAIN EmptyDb |-> e[t]]
  OBVIOUS
<1>3. e.scripts = IF i.reply = "error" THEN d.scripts
                  ELSE d.scripts \ {d.releases[rows[o].release].script : o \in DOMAIN rows}
  BY DEF EmptyDb
<1>4. e.releases = [x \in DOMAIN d.releases |-> IF \E o \in DOMAIN rows : rows[o].release = x
                                               THEN [d.releases[x] EXCEPT !.status = Outcome(i)] ELSE d.releases[x]]
  BY DEF EmptyDb
<1>5. e.operations = [o \in DOMAIN d.operations |-> IF o \in DOMAIN rows THEN AttemptMade(rows[o], i) ELSE d.operations[o]]
  BY DEF EmptyDb
<1>6. \A t \in DOMAIN EmptyDb \ {"scripts", "releases", "operations"} : e[t] = d[t]
  OBVIOUS
<1> HIDE DEF e
<1>7. LeavesOperations(d, e, rows, i)
  BY <1>2, <1>3, <1>4, <1>5, <1>6 DEF LeavesOperations
<1> QED
  BY <1>1, <1>7 DEF Ok

\* One attempt, in the order of its statements: the provider, the release, the operation.
RowRecorded(d, o, row, i) == Pg!updateEdgeWorkerReleaseOperation(d, o, AttemptMade(row, i))
ReleaseMarked(d, o, row, i) ==
  LET w == Pg!updateEdgeWorkerRelease(d, row.release, Outcome(i)) IN Provided(w, RowRecorded(w.db, o, row, i))
OperationTried(d, o, row, i) ==
  ReleaseMarked(deleteProviderEdgeWorkerRelease(d, d.releases[row.release].script, i.reply), o, row, i)

\* One operation alone.
Single(o, row) == [x \in {o} |-> row]

\* An attempt succeeds in all its statements, and does what is done to one listed operation.
LEMMA OneOperationDone ==
  ASSUME NEW d, DOMAIN d = DOMAIN EmptyDb, NEW o, Has(d.operations, o), NEW row, Has(d.releases, row.release), NEW i
  PROVE  LET called == deleteProviderEdgeWorkerRelease(d, d.releases[row.release].script, i.reply)
             w == Pg!updateEdgeWorkerRelease(called, row.release, Outcome(i))
         IN  /\ w.out = "ok"
             /\ OperationTried(d, o, row, i) = RowRecorded(w.db, o, row, i)
             /\ OperationTried(d, o, row, i) = Ok(OperationTried(d, o, row, i).db)
             /\ LeavesOperations(d, OperationTried(d, o, row, i).db, Single(o, row), i)
<1> DEFINE called == deleteProviderEdgeWorkerRelease(d, d.releases[row.release].script, i.reply)
           w == Pg!updateEdgeWorkerRelease(called, row.release, Outcome(i))
           r == RowRecorded(w.db, o, row, i)
           e == r.db
<1>1. /\ DOMAIN called = DOMAIN EmptyDb
      /\ called.scripts = IF i.reply = "error" THEN d.scripts ELSE d.scripts \ {d.releases[row.release].script}
      /\ \A t \in DOMAIN EmptyDb \ {"scripts"} : called[t] = d[t]
  BY DEF deleteProviderEdgeWorkerRelease, EmptyDb
<1> HIDE DEF called
<1>2. Has(called.releases, row.release) /\ called.releases = d.releases
  BY <1>1 DEF EmptyDb
<1> DEFINE w1 == [called EXCEPT !["releases"][row.release]["status"] = Outcome(i)]
<1>3. w = Ok(w1)
  BY <1>2 DEF Pg!updateEdgeWorkerRelease, Pg!SetColumn, Pg!Has, Has, Pg!Ok, Ok
<1>4. /\ w.out = "ok" /\ w.db = w1
      /\ DOMAIN w1 = DOMAIN EmptyDb
      /\ w1.releases = [d.releases EXCEPT ![row.release]["status"] = Outcome(i)]
      /\ \A t \in DOMAIN EmptyDb \ {"releases"} : w1[t] = called[t]
  BY <1>1, <1>2, <1>3 DEF Ok, EmptyDb
<1> HIDE DEF w1
<1> DEFINE e1 == [w1 EXCEPT !["operations"][o] = AttemptMade(row, i)]
<1>5. /\ RowRecorded(w1, o, row, i) = Ok(e1)
      /\ e1 = [t \in DOMAIN EmptyDb |-> e1[t]]
      /\ e1.operations = [d.operations EXCEPT ![o] = AttemptMade(row, i)]
      /\ \A t \in DOMAIN EmptyDb \ {"operations"} : e1[t] = w1[t]
  <2>1. w1.operations = d.operations /\ Has(w1.operations, o)
    BY <1>1, <1>4 DEF EmptyDb
  <2>2. RowRecorded(w1, o, row, i) = Ok(e1)
    BY <2>1 DEF RowRecorded, Pg!updateEdgeWorkerReleaseOperation, Pg!Update, Pg!Has, Has, Pg!Ok, Ok
  <2> QED
    BY <1>4, <2>1, <2>2 DEF EmptyDb
<1> HIDE DEF e1
<1> HIDE DEF w
<1>51. r = Ok(e) /\ e = e1
  BY <1>4, <1>5 DEF Ok
<1>6. OperationTried(d, o, row, i) = r
  BY <1>4 DEF OperationTried, ReleaseMarked, Provided, called, w, r
<1> HIDE DEF e
<1>7. DOMAIN Single(o, row) = {o} /\ Single(o, row)[o] = row
  BY DEF Single
<1>8. e.scripts = IF i.reply = "error" THEN d.scripts
                  ELSE d.scripts \ {d.releases[Single(o, row)[x].release].script : x \in DOMAIN Single(o, row)}
  <2>1. {d.releases[Single(o, row)[x].release].script : x \in DOMAIN Single(o, row)} = {d.releases[row.release].script}
    BY <1>7
  <2>2. e.scripts = called.scripts
    BY <1>4, <1>5, <1>51 DEF EmptyDb
  <2> QED
    BY <1>1, <2>1, <2>2
<1>9. e.releases = [x \in DOMAIN d.releases |-> IF \E y \in DOMAIN Single(o, row) : Single(o, row)[y].release = x
                                                THEN [d.releases[x] EXCEPT !.status = Outcome(i)] ELSE d.releases[x]]
  BY <1>4, <1>5, <1>51, <1>7 DEF Has, EmptyDb
<1>10. e.operations = [x \in DOMAIN d.operations |-> IF x \in DOMAIN Single(o, row) THEN AttemptMade(Single(o, row)[x], i)
                                                     ELSE d.operations[x]]
  BY <1>5, <1>51, <1>7 DEF Has
<1>11. \A t \in DOMAIN EmptyDb \ {"scripts", "releases", "operations"} : e[t] = d[t]
  BY <1>1, <1>4, <1>5, <1>51
<1>12. LeavesOperations(d, e, Single(o, row), i)
  BY <1>5, <1>51, <1>8, <1>9, <1>10, <1>11 DEF LeavesOperations
<1> QED
  <2>1. OperationTried(d, o, row, i) = Ok(e) /\ Ok(e).db = e
    BY <1>51, <1>6 DEF Ok
  <2> QED
    BY <1>4, <1>6, <1>12, <2>1 DEF w, called

\* Two databases that attempting the same operations leaves of d are the same.
LEMMA SameOperationsLeft ==
  ASSUME NEW d, NEW a, NEW b, NEW rows, NEW i, LeavesOperations(d, a, rows, i), LeavesOperations(d, b, rows, i)
  PROVE  a = b
<1>1. \A t \in DOMAIN EmptyDb : a[t] = b[t]
  BY DEF LeavesOperations
<1>2. a = [t \in DOMAIN EmptyDb |-> a[t]] /\ b = [t \in DOMAIN EmptyDb |-> b[t]]
  BY DEF LeavesOperations
<1> QED
  BY <1>1, <1>2, SameTables, Zenon

\* rows lists the operations of some and those of others.
Both(some, others, rows) ==
  /\ DOMAIN rows = DOMAIN some \union DOMAIN others /\ DOMAIN some \intersect DOMAIN others = {}
  /\ \A o \in DOMAIN some : rows[o] = some[o]
  /\ \A o \in DOMAIN others : rows[o] = others[o]

\* Attempting some operations and then others attempts those of both.
LEMMA OperationsLeftTwice ==
  ASSUME NEW d, NEW a, NEW b, NEW some, NEW others, NEW rows, NEW i, Both(some, others, rows), RowsOfReleases(d, rows),
         LeavesOperations(d, a, some, i), LeavesOperations(a, b, others, i)
  PROVE  LeavesOperations(d, b, rows, i)
<1>1. /\ DOMAIN a.releases = DOMAIN d.releases
      /\ \A x \in DOMAIN d.releases :
           a.releases[x] = IF \E o \in DOMAIN some : some[o].release = x
                           THEN [d.releases[x] EXCEPT !.status = Outcome(i)] ELSE d.releases[x]
  BY DEF LeavesOperations
<1>2. /\ DOMAIN a.operations = DOMAIN d.operations
      /\ \A o \in DOMAIN d.operations :
           a.operations[o] = IF o \in DOMAIN some THEN AttemptMade(some[o], i) ELSE d.operations[o]
  BY DEF LeavesOperations
<1>3. \A x \in DOMAIN d.releases : "script" \in DOMAIN d.releases[x] => a.releases[x].script = d.releases[x].script
  BY <1>1
<1>4. b.scripts = IF i.reply = "error" THEN d.scripts
                  ELSE d.scripts \ {d.releases[rows[o].release].script : o \in DOMAIN rows}
  <2>1. /\ a.scripts = IF i.reply = "error" THEN d.scripts
                       ELSE d.scripts \ {d.releases[some[o].release].script : o \in DOMAIN some}
        /\ b.scripts = IF i.reply = "error" THEN a.scripts
                       ELSE a.scripts \ {a.releases[others[o].release].script : o \in DOMAIN others}
    BY DEF LeavesOperations
  <2>2. \A o \in DOMAIN others : a.releases[others[o].release].script = d.releases[rows[o].release].script
    BY <1>3 DEF Both, RowsOfReleases, Has
  <2>3. {a.releases[others[o].release].script : o \in DOMAIN others}
          = {d.releases[rows[o].release].script : o \in DOMAIN others}
    BY <2>2
  <2>4. {d.releases[some[o].release].script : o \in DOMAIN some} = {d.releases[rows[o].release].script : o \in DOMAIN some}
    BY DEF Both
  <2>5. {d.releases[rows[o].release].script : o \in DOMAIN rows}
          = {d.releases[rows[o].release].script : o \in DOMAIN some}
              \union {d.releases[rows[o].release].script : o \in DOMAIN others}
    BY DEF Both
  <2> QED
    BY <2>1, <2>3, <2>4, <2>5
<1>5. b.releases = [x \in DOMAIN d.releases |-> IF \E o \in DOMAIN rows : rows[o].release = x
                                                THEN [d.releases[x] EXCEPT !.status = Outcome(i)] ELSE d.releases[x]]
  <2>1. b.releases = [x \in DOMAIN a.releases |-> IF \E o \in DOMAIN others : others[o].release = x
                                                  THEN [a.releases[x] EXCEPT !.status = Outcome(i)] ELSE a.releases[x]]
    BY DEF LeavesOperations
  <2>2. \A x : (\E o \in DOMAIN rows : rows[o].release = x)
                 <=> (\E o \in DOMAIN some : some[o].release = x) \/ (\E o \in DOMAIN others : others[o].release = x)
    BY DEF Both
  <2> DEFINE after(x) == IF \E o \in DOMAIN others : others[o].release = x
                         THEN [a.releases[x] EXCEPT !.status = Outcome(i)] ELSE a.releases[x]
             once(x) == IF \E o \in DOMAIN rows : rows[o].release = x
                        THEN [d.releases[x] EXCEPT !.status = Outcome(i)] ELSE d.releases[x]
  <2>3. ASSUME NEW x \in DOMAIN d.releases PROVE after(x) = once(x)
    BY <1>1, <2>2
  <2>4. b.releases = [x \in DOMAIN d.releases |-> after(x)]
    BY <1>1, <2>1
  <2>5. [x \in DOMAIN d.releases |-> after(x)] = [x \in DOMAIN d.releases |-> once(x)]
    <3> HIDE DEF after, once
    <3> QED
      BY <2>3
  <2> QED
    BY <2>4, <2>5
<1>6. b.operations = [o \in DOMAIN d.operations |-> IF o \in DOMAIN rows THEN AttemptMade(rows[o], i) ELSE d.operations[o]]
  <2>1. b.operations = [o \in DOMAIN a.operations |-> IF o \in DOMAIN others THEN AttemptMade(others[o], i)
                                                      ELSE a.operations[o]]
    BY DEF LeavesOperations
  <2> QED
    BY <1>2, <2>1 DEF Both
<1>7. /\ b = [x \in DOMAIN EmptyDb |-> b[x]]
      /\ \A x \in DOMAIN EmptyDb \ {"scripts", "releases", "operations"} : b[x] = d[x]
  BY DEF LeavesOperations
<1> QED
  BY <1>4, <1>5, <1>6, <1>7 DEF LeavesOperations

\* An operation is attempted after the others, or before them.
LEMMA OneOperationMore ==
  ASSUME NEW d, DOMAIN d = DOMAIN EmptyDb, NEW rows, RowsOfReleases(d, rows), NEW o \in DOMAIN rows, NEW i
  PROVE  /\ OperationTried(OperationsDone(d, Drop(rows, o), i).db, o, rows[o], i) = OperationsDone(d, rows, i)
         /\ OperationTried(d, o, rows[o], i).out = "ok"
         /\ OperationsDone(OperationTried(d, o, rows[o], i).db, Drop(rows, o), i) = OperationsDone(d, rows, i)
<1> DEFINE rest == Drop(rows, o)
           one == Single(o, rows[o])
           a == OperationsDone(d, rest, i).db
           b == OperationTried(d, o, rows[o], i).db
           e == OperationsDone(d, rows, i).db
<1>0. /\ rows # NoRows /\ Has(d.operations, o) /\ Has(d.releases, rows[o].release)
      /\ DOMAIN rest = DOMAIN rows \ {o} /\ \A x \in DOMAIN rest : rest[x] = rows[x]
      /\ Both(rest, one, rows) /\ Both(one, rest, rows)
  BY DEF RowsOfReleases, Has, NoRows, Drop, Both, Single
<1>1. OperationsDone(d, rows, i) = Ok(e) /\ LeavesOperations(d, e, rows, i)
  BY <1>0, SomeOperationsDone
<1>2. OperationTried(d, o, rows[o], i) = Ok(b) /\ LeavesOperations(d, b, one, i)
  BY <1>0, OneOperationDone
<1>3. CASE rest = NoRows
  <2>1. a = d /\ OperationsDone(b, rest, i) = Ok(b)
    BY <1>3 DEF OperationsDone, Ok
  <2>2. DOMAIN rest = {}
    BY <1>3 DEF NoRows
  <2>3. LeavesOperations(b, b, rest, i)
    <3>1. /\ b = [t \in DOMAIN EmptyDb |-> b[t]]
          /\ b.releases = [x \in DOMAIN d.releases |-> b.releases[x]]
          /\ b.operations = [x \in DOMAIN d.operations |-> b.operations[x]]
      BY <1>2 DEF LeavesOperations
    <3>2. {b.releases[rest[x].release].script : x \in DOMAIN rest} = {}
      BY <2>2
    <3>3. b.scripts = IF i.reply = "error" THEN b.scripts
                      ELSE b.scripts \ {b.releases[rest[x].release].script : x \in DOMAIN rest}
      BY <3>2
    <3>4. b.releases = [x \in DOMAIN b.releases |-> IF \E y \in DOMAIN rest : rest[y].release = x
                                                   THEN [b.releases[x] EXCEPT !.status = Outcome(i)] ELSE b.releases[x]]
      BY <2>2, <3>1
    <3>5. b.operations = [x \in DOMAIN b.operations |-> IF x \in DOMAIN rest THEN AttemptMade(rest[x], i) ELSE b.operations[x]]
      BY <2>2, <3>1
    <3> HIDE DEF b, rest
    <3> QED
      BY <3>1, <3>3, <3>4, <3>5 DEF LeavesOperations
  <2>4. b = e
    <3>1. LeavesOperations(d, b, rows, i)
      BY <1>0, <1>2, <2>3, OperationsLeftTwice
    <3> QED
      BY <1>1, <3>1, SameOperationsLeft
  <2> QED
    BY <1>1, <1>2, <2>1, <2>4 DEF Ok
<1>4. CASE rest # NoRows
  <2>1. LeavesOperations(d, a, rest, i)
    BY <1>4, SomeOperationsDone
  <2>2. /\ DOMAIN a = DOMAIN EmptyDb /\ Has(a.operations, o) /\ Has(a.releases, rows[o].release)
        /\ DOMAIN b = DOMAIN EmptyDb
    BY <1>0, <1>2, <2>1 DEF LeavesOperations, Has
  <2> DEFINE a1 == OperationTried(a, o, rows[o], i).db
             b1 == OperationsDone(b, rest, i).db
  <2>3. OperationTried(a, o, rows[o], i) = Ok(a1) /\ LeavesOperations(a, a1, one, i)
    BY <2>2, OneOperationDone
  <2>4. OperationsDone(b, rest, i) = Ok(b1) /\ LeavesOperations(b, b1, rest, i)
    BY <1>4, <2>2, SomeOperationsDone
  <2> HIDE DEF a, b, e, a1, b1, rest, one
  <2>5. LeavesOperations(d, a1, rows, i) /\ LeavesOperations(d, b1, rows, i)
    BY <1>0, <1>2, <2>1, <2>3, <2>4, OperationsLeftTwice
  <2>6. a1 = e /\ b1 = e
    BY <1>1, <2>5, SameOperationsLeft
  <2> QED
    BY <1>1, <1>2, <2>3, <2>4, <2>6 DEF Ok, a, b, rest
<1> QED
  BY <1>3, <1>4

\* One turn of the loop of service.ts.
LEMMA DeliveryTried ==
  ASSUME NEW d, NEW o, NEW i PROVE Sync!deliverOperation(d, o, i) = OperationTried(d, o, d.operations[o], i)
<1> DEFINE row == d.operations[o]
           called == deleteProviderEdgeWorkerRelease(d, d.releases[row.release].script, i.reply)
<1>1. Sync!deleteProviderEdgeWorkerRelease(d, row.release, i.reply) = called
  BY DEF Sync!deleteProviderEdgeWorkerRelease, deleteProviderEdgeWorkerRelease
<1> DEFINE w == Pg!updateEdgeWorkerRelease(called, row.release, Outcome(i))
<1>2. CASE i.reply = "done"
  <2>1. AttemptMade(row, i) = [row EXCEPT !.status = "succeeded", !.attempts = @ + 1] /\ Outcome(i) = "deleted"
    BY <1>2 DEF AttemptMade, Outcome
  <2>2. Sync!deliverOperation(d, o, i)
          = IF w.out = "ok" THEN Sync!R!updateEdgeWorkerReleaseOperation(w.db, o, AttemptMade(row, i)) ELSE w
    BY <1>1, <1>2, <2>1, SameStatements DEF Sync!deliverOperation, Sync!Then
  <2> QED
    BY <2>2, SameStatements DEF OperationTried, ReleaseMarked, RowRecorded, Provided
<1>3. CASE i.reply # "done"
  <2>1. AttemptMade(row, i) = [row EXCEPT !.attempts = @ + 1, !.next = i.now + Sync!RetryOperationDelay] /\ Outcome(i) = "failed"
    BY <1>3 DEF AttemptMade, Outcome, retriedOperation, RetryOperationDelay, Sync!RetryOperationDelay
  <2>2. Sync!deliverOperation(d, o, i)
          = IF w.out = "ok" THEN Sync!R!updateEdgeWorkerReleaseOperation(w.db, o, AttemptMade(row, i)) ELSE w
    BY <1>1, <1>3, <2>1, SameStatements DEF Sync!deliverOperation, Sync!Then
  <2> QED
    BY <2>2, SameStatements DEF OperationTried, ReleaseMarked, RowRecorded, Provided
<1> QED
  BY <1>2, <1>3

\* The rows of the operations of s, as d has them.
RowsIn(d, s) == [o \in s |-> d.operations[o]]

\* deliverPendingEdgeWorkerReleaseOperations() attempts the operations that were due, whatever their order.
LEMMA deliverPendingEdgeWorkerReleaseOperationsServed ==
  ASSUME NEW d, DOMAIN d = DOMAIN EmptyDb, OperationsInOrder(d), NEW i
  PROVE  LET due == Pg!listPendingEdgeWorkerReleaseOperations(d, i.now) IN
         /\ Sync!deliverPendingEdgeWorkerReleaseOperations(d, i) = OperationsDone(d, RowsIn(d, due), i)
         /\ RowsOfReleases(d, RowsIn(d, due))
<1> DEFINE S == Pg!listPendingEdgeWorkerReleaseOperations(d, i.now)
           F(g, s) == IF s = {} THEN Sync!Ok(d) ELSE Sync!deliverOperation(g[s \ {Pick(s)}].db, Pick(s), i)
           g == CHOOSE f : f = [s \in SUBSET S |-> F(f, s)]
           h == [s \in SUBSET S |-> OperationsDone(d, RowsIn(d, s), i)]
<1>1. S \subseteq DOMAIN d.operations /\ IsFiniteSet(S)
  <2>1. S \subseteq DOMAIN d.operations
    BY DEF Pg!listPendingEdgeWorkerReleaseOperations
  <2> QED
    BY <2>1, FS_Subset DEF OperationsInOrder
<1>2. Sync!deliverPendingEdgeWorkerReleaseOperations(d, i) = g[S]
  <2>1. Sync!R!listPendingEdgeWorkerReleaseOperations(d, i.now) = S
    BY DEF Sync!R!listPendingEdgeWorkerReleaseOperations, Pg!listPendingEdgeWorkerReleaseOperations
  <2> HIDE DEF S
  <2> QED
    BY <2>1 DEF Sync!deliverPendingEdgeWorkerReleaseOperations, Sync!FoldSet, Sync!MapThenFoldSet, Pick
<1> HIDE DEF S
<1>21. ASSUME NEW s \in SUBSET S PROVE RowsOfReleases(d, RowsIn(d, s))
  BY <1>1 DEF RowsOfReleases, RowsIn, OperationsInOrder, Has
<1>3. ASSUME NEW s \in SUBSET S PROVE h[s] = F(h, s)
  <2>1. s # {} => Pick(s) \in s
    BY DEF Pick
  <2>2. CASE s = {}
    BY <2>2 DEF OperationsDone, RowsIn, NoRows, Sync!Ok, Ok
  <2>3. CASE s # {}
    <3> DEFINE o == Pick(s)
               rows == RowsIn(d, s)
               e == OperationsDone(d, Drop(rows, o), i).db
    <3>1. DOMAIN rows = s /\ rows[o] = d.operations[o] /\ Drop(rows, o) = RowsIn(d, s \ {o})
      BY <2>1, <2>3 DEF RowsIn, Drop
    <3>2. e.operations[o] = d.operations[o]
      <4>1. CASE Drop(rows, o) = NoRows
        BY <4>1 DEF OperationsDone, Ok
      <4>2. CASE Drop(rows, o) # NoRows
        <5>1. LeavesOperations(d, e, Drop(rows, o), i)
          BY <4>2, SomeOperationsDone
        <5>2. o \in DOMAIN d.operations /\ o \notin DOMAIN Drop(rows, o)
          BY <1>1, <2>1, <2>3 DEF Drop
        <5> HIDE DEF e
        <5> QED
          BY <5>1, <5>2 DEF LeavesOperations
      <4> QED
        BY <4>1, <4>2
    <3> HIDE DEF rows
    <3>3. OperationTried(e, o, rows[o], i) = OperationsDone(d, rows, i)
      BY <1>21, <2>1, <2>3, <3>1, OneOperationMore DEF rows
    <3>4. F(h, s) = Sync!deliverOperation(e, o, i)
      BY <2>3, <3>1
    <3> HIDE DEF e
    <3>5. F(h, s) = OperationTried(e, o, rows[o], i)
      BY <3>1, <3>2, <3>4, DeliveryTried
    <3> QED
      BY <3>3, <3>5 DEF rows
  <2> QED
    BY <2>2, <2>3
<1>4. h = [s \in SUBSET S |-> F(h, s)]
  BY <1>3
<1>5. g = [s \in SUBSET S |-> F(g, s)]
  <2> HIDE DEF h, F
  <2> QED
    BY <1>4
<1> HIDE DEF g, h
<1>6. g[S] = h[S]
  <2>1. g[{}] = h[{}]
    BY <1>4, <1>5
  <2>2. \A s \in SUBSET S : s # {} /\ g[s \ {Pick(s)}] = h[s \ {Pick(s)}] => g[s] = h[s]
    BY <1>4, <1>5
  <2> QED
    BY <1>1, <2>1, <2>2, SameFolds
<1> QED
  BY <1>2, <1>21, <1>6 DEF h, S

-----------------------------------------------------------------------------
(* The onboarding, statement by statement.                                 *)

\* What is left of an onboarding, from its last operation to its first.
OnboardKey(d, i) == KeyIssued(d, i.key, i.org, i.project)
OnboardMemberAudit(d, i) ==
  LET w == recordCustomerAuditEvent(d, "project_member.added", i.user, i.org, i.project) IN Provided(w, OnboardKey(w.db, i))
OnboardMember(d, i) ==
  LET w == Pg!createProjectMembership(d, i.project, i.user, "owner") IN Provided(w, OnboardMemberAudit(w.db, i))
OnboardProject(d, i) ==
  LET w == Pg!createProject(d, [id |-> i.project, name |-> i.project, org |-> i.org]) IN Provided(w, OnboardMember(w.db, i))
OnboardUser(d, i) ==
  LET w == Pg!createUser(d, [id |-> i.user, email |-> i.user, verified |-> FALSE]) IN Provided(w, OnboardProject(w.db, i))
Onboarded(d, i) ==
  LET w == Pg!createOrganization(d, [id |-> i.org, name |-> i.org, payment |-> "payment_pending", email |-> None])
  IN  Provided(w, OnboardUser(w.db, i))

\* The project of the onboarding is there, in its organization, and so is the user.
ProjectMade(d, i) ==
  /\ Has(d.organizations, i.org) /\ Has(d.users, i.user)
  /\ Has(d.projects, i.project) /\ d.projects[i.project].org = i.org

\* An insert that succeeds puts its row in its table, and leaves the others.
LEMMA InsertPuts ==
  ASSUME NEW d, DOMAIN d = DOMAIN EmptyDb, NEW t \in DOMAIN EmptyDb, NEW k, NEW row, Pg!Insert(d, t, k, row).out = "ok"
  PROVE  LET e == Pg!Insert(d, t, k, row).db IN
         /\ DOMAIN e = DOMAIN EmptyDb /\ Has(e[t], k) /\ e[t][k] = row
         /\ \A x \in DOMAIN EmptyDb \ {t} : e[x] = d[x]
BY DEF Pg!Insert, Pg!Put, Pg!Ok, Pg!Fail, Has

\* The operations of service.ts that the onboarding calls make the same statements of a project that is there.
LEMMA OnboardingEnds ==
  ASSUME NEW d, DOMAIN d = DOMAIN EmptyDb, NEW i, i.project # None, ProjectMade(d, i)
  PROVE  /\ Sync!onboardKey(d, i) = OnboardKey(d, i)
         /\ Sync!onboardMember(d, i) = OnboardMember(d, i)
<1>1. ASSUME NEW e, ProjectMade(e, i) PROVE Sync!onboardKey(e, i) = OnboardKey(e, i)
  <2> DEFINE j == [id |-> i.key, org |-> None, project |-> i.project]
  <2>1. j.id = i.key /\ j.project = i.project /\ OrganizationOf(e, j) = i.org
    BY <1>1 DEF OrganizationOf, ProjectMade
  <2>2. OptionalKey(e.projects, i.project) /\ OptionalKey(e.organizations, i.org)
    BY <1>1 DEF ProjectMade, OptionalKey
  <2>3. Sync!onboardKey(e, i) = Sync!createApiKey(e, j)
    BY DEF Sync!onboardKey
  <2> HIDE DEF j
  <2>4. Sync!createApiKey(e, j) =
         Provided(Require(e, OptionalKey(e.projects, j.project), "not_found"),
         Provided(Require(e, OptionalKey(e.organizations, OrganizationOf(e, j)), "not_found"),
         Provided(Require(e, OrganizationOf(e, j) # None \/ j.project # None, "validation"),
                  KeyIssued(e, j.id, OrganizationOf(e, j), j.project))))
    BY createApiKeyServed
  <2> QED
    BY <2>1, <2>2, <2>3, <2>4 DEF OnboardKey, Provided, Require, Ok
<1> DEFINE j == [project |-> i.project, user |-> i.user, role |-> "owner"]
           w == Pg!createProjectMembership(d, i.project, i.user, "owner")
           a == recordCustomerAuditEvent(w.db, "project_member.added", i.user, i.org, i.project)
<1>2. j.project = i.project /\ j.user = i.user /\ j.role = "owner"
  OBVIOUS
<1>3. Sync!onboardMember(d, i)
        = IF Sync!addProjectMembership(d, j).out = "ok" THEN Sync!onboardKey(Sync!addProjectMembership(d, j).db, i)
          ELSE Sync!addProjectMembership(d, j)
  BY DEF Sync!onboardMember, Sync!Then
<1> HIDE DEF j
<1>4. Sync!addProjectMembership(d, j) = MemberAdded(d, j)
  <2>1. ProjectAndUser(d, j) = Ok(d) /\ Require(d, j.role \in Roles, "validation") = Ok(d)
    BY <1>2 DEF ProjectAndUser, Found, ProjectMade, Provided, Require, Ok, Roles
  <2>2. Sync!addProjectMembership(d, j)
          = Provided(ProjectAndUser(d, j), Provided(Require(d, j.role \in Roles, "validation"), MemberAdded(d, j)))
    BY addProjectMembershipServed
  <2> QED
    BY <2>1, <2>2 DEF Provided, Ok
<1>5. ProjectMade(w.db, i)
  <2>1. Writes(d, w, {"memberships"})
    BY UpsertWrites DEF Pg!createProjectMembership
  <2> HIDE DEF w
  <2> QED
    BY <2>1 DEF Writes, Touches, ProjectMade, EmptyDb
<1>6. MemberAdded(d, j) = Provided(w, a)
  BY <1>2, <1>5 DEF MemberAdded, MemberAudit, ProjectMade
<1>7. ProjectMade(a.db, i)
  <2>1. Writes(w.db, a, {"audit"})
    BY DEF recordCustomerAuditEvent, Pg!createCustomerAuditEvent, Then, Require, Ok, Fail, Pg!Ok, Pg!Fail, Writes,
           Touches,
           IsResult
  <2>2. DOMAIN w.db = DOMAIN EmptyDb
    BY UpsertWrites DEF Pg!createProjectMembership, Writes, Touches
  <2> HIDE DEF w, a
  <2> QED
    BY <1>5, <2>1, <2>2 DEF Writes, Touches, ProjectMade, EmptyDb
<1>8. Sync!onboardMember(d, i) = OnboardMember(d, i)
  <2>1. Sync!onboardKey(a.db, i) = OnboardKey(a.db, i)
    BY <1>1, <1>7
  <2>2. OnboardMember(d, i) = Provided(w, Provided(a, OnboardKey(a.db, i)))
    BY DEF OnboardMember, OnboardMemberAudit
  <2> HIDE DEF w, a
  <2> QED
    BY <1>3, <1>4, <1>6, <2>1, <2>2 DEF Provided
<1> QED
  BY <1>1, <1>8

\* createBetaOnboarding() is the statements of async-service.ts, one after the other.
LEMMA createBetaOnboardingServed ==
  ASSUME NEW d, DOMAIN d = DOMAIN EmptyDb, NEW i, i.project # None
  PROVE  Sync!createBetaOnboarding(d, i) = Onboarded(d, i)
<1> DEFINE o == [id |-> i.org, name |-> i.org, payment |-> "payment_pending", email |-> None]
           u == [id |-> i.user, email |-> i.user, verified |-> FALSE]
           p == [id |-> i.project, name |-> i.project, org |-> i.org]
           a == Pg!createOrganization(d, o)
           b == Pg!createUser(a.db, u)
           e == Pg!createProject(b.db, p)
<1>1. a.out = "ok" => DOMAIN a.db = DOMAIN EmptyDb /\ Has(a.db.organizations, i.org)
  <2>1. "organizations" \in DOMAIN EmptyDb /\ a = Pg!Insert(d, "organizations", i.org, [name |-> o.name, payment |-> o.payment, email |-> o.email])
    BY DEF Pg!createOrganization, EmptyDb
  <2> HIDE DEF a, o
  <2> QED
    BY <2>1, InsertPuts
<1> HIDE DEF a
<1>2. a.out = "ok" /\ b.out = "ok" => DOMAIN b.db = DOMAIN EmptyDb /\ Has(b.db.organizations, i.org) /\ Has(b.db.users, i.user)
  <2>1. "users" \in DOMAIN EmptyDb /\ b = Pg!Insert(a.db, "users", i.user, [email |-> u.email, verified |-> u.verified])
    BY DEF Pg!createUser, EmptyDb
  <2>2. "organizations" \in DOMAIN EmptyDb \ {"users"}
    BY DEF EmptyDb
  <2> HIDE DEF b, u
  <2> QED
    BY <1>1, <2>1, <2>2, InsertPuts
<1> HIDE DEF b
<1>3. a.out = "ok" /\ b.out = "ok" /\ e.out = "ok" => DOMAIN e.db = DOMAIN EmptyDb /\ ProjectMade(e.db, i)
  <2>1. "projects" \in DOMAIN EmptyDb /\ e = Pg!Insert(b.db, "projects", i.project, [name |-> p.name, org |-> p.org])
    BY DEF Pg!createProject, EmptyDb
  <2>2. {"organizations", "users"} \subseteq DOMAIN EmptyDb \ {"projects"} /\ p.org = i.org
    BY DEF EmptyDb
  <2> HIDE DEF e, p
  <2>3. ASSUME a.out = "ok", b.out = "ok", e.out = "ok" PROVE DOMAIN e.db = DOMAIN EmptyDb /\ ProjectMade(e.db, i)
    <3>1. DOMAIN b.db = DOMAIN EmptyDb /\ Has(b.db.organizations, i.org) /\ Has(b.db.users, i.user)
      BY <1>2, <2>3
    <3>2. /\ DOMAIN e.db = DOMAIN EmptyDb /\ Has(e.db["projects"], i.project)
          /\ e.db["projects"][i.project] = [name |-> p.name, org |-> p.org]
          /\ \A x \in DOMAIN EmptyDb \ {"projects"} : e.db[x] = b.db[x]
      BY <2>1, <2>3, <3>1, InsertPuts
    <3> QED
      BY <2>2, <3>1, <3>2 DEF ProjectMade, Has
  <2> QED
    BY <2>3
<1> HIDE DEF e
<1>4. a.out = "ok" /\ b.out = "ok" => Sync!onboardProject(b.db, i) = OnboardProject(b.db, i)
  <2>0. Sync!createProject(b.db, p)
          = Provided(Require(b.db, OptionalKey(b.db.organizations, p.org), "not_found"), Pg!createProject(b.db, p))
    BY createProjectServed
  <2>1. a.out = "ok" /\ b.out = "ok" => Sync!createProject(b.db, p) = e
    BY <1>2, <2>0 DEF Provided, Require, Ok, OptionalKey, e
  <2>2. Sync!onboardProject(b.db, i) = IF Sync!createProject(b.db, p).out = "ok"
                                       THEN Sync!onboardMember(Sync!createProject(b.db, p).db, i) ELSE Sync!createProject(b.db, p)
    BY DEF Sync!onboardProject, Sync!Then
  <2>3. OnboardProject(b.db, i) = Provided(e, OnboardMember(e.db, i))
    BY DEF OnboardProject, e
  <2> HIDE DEF p
  <2> QED
    BY <1>3, <2>1, <2>2, <2>3, OnboardingEnds DEF Provided
<1>5. a.out = "ok" => Sync!onboardUser(a.db, i) = OnboardUser(a.db, i)
  <2>1. Sync!createUser(a.db, u) = b
    BY createUserServed DEF b
  <2>2. Sync!onboardUser(a.db, i) = IF Sync!createUser(a.db, u).out = "ok"
                                    THEN Sync!onboardProject(Sync!createUser(a.db, u).db, i) ELSE Sync!createUser(a.db, u)
    BY DEF Sync!onboardUser, Sync!Then
  <2>3. OnboardUser(a.db, i) = Provided(b, OnboardProject(b.db, i))
    BY DEF OnboardUser, b
  <2> HIDE DEF u
  <2> QED
    BY <1>4, <2>1, <2>2, <2>3 DEF Provided
<1>6. Sync!createOrganization(d, o) = a
  BY createOrganizationServed DEF a
<1>7. Sync!createBetaOnboarding(d, i) = IF Sync!createOrganization(d, o).out = "ok"
                                        THEN Sync!onboardUser(Sync!createOrganization(d, o).db, i) ELSE Sync!createOrganization(d, o)
  BY DEF Sync!createBetaOnboarding, Sync!Then
<1>8. Onboarded(d, i) = Provided(a, OnboardUser(a.db, i))
  BY DEF Onboarded, a
<1> HIDE DEF o
<1> QED
  BY <1>5, <1>6, <1>7, <1>8 DEF Provided

-----------------------------------------------------------------------------
(* Tenancy, call by call: what a call still has to do is, on the database   *)
(* as it is, what the synchronous control plane does of the whole request   *)
(* on the database of the last answer.                                      *)

\* The owners of the project but the member itself allow the member, as it was read, to lose its role.
KeepsOwner(d, i, current) ==
  LET otherOwners == {k \in DOMAIN d.memberships :
                        k[1] = i.project /\ k[2] # i.user /\ d.memberships[k].role = "owner"} IN
  Require(d, \/ current.role # "owner"
             \/ /\ otherOwners # {}
                /\ \/ current.invite # "accepted"
                   \/ \E k \in otherOwners : d.memberships[k].invite = "accepted",
          "validation")

\* The checks of a quota increase, with the payment status that was read.
Ready(d, i, payment) ==
  LET owners == {k \in DOMAIN d.memberships :
                   /\ IF i.project = None THEN d.projects[k[1]].org = i.org ELSE k[1] = i.project
                   /\ d.memberships[k].role = "owner"
                   /\ d.memberships[k].invite = "accepted"} IN
  Require(d, payment = "active" /\ \E k \in owners : d.users[k[2]].verified, "validation")

\* Both control planes check the owners and the readiness alike.
LEMMA SameChecks ==
  ASSUME NEW d, NEW i
  PROVE  /\ Sync!assertProjectKeepsOwner(d, i.project, i.user) = KeepsOwner(d, i, d.memberships[<<i.project, i.user>>])
         /\ Require(d, Sync!productionQuotaReadinessChecks(d, i.org, i.project), "validation")
              = Ready(d, i, d.organizations[i.org].payment)
         /\ \A l : assertProjectKeepsOwner(i.project, i.user, l) = KeepsOwner(db, i, l)
         /\ \A l : Require(db, productionQuotaReadinessChecks(i.org, l, i.project), "validation") = Ready(db, i, l)
BY DEF KeepsOwner, Ready, assertProjectKeepsOwner, productionQuotaReadinessChecks, Sync!assertProjectKeepsOwner,
       Sync!productionQuotaReadinessChecks, Require, Ok, Fail, Sync!Require, Sync!Ok, Sync!Fail

\* r is what is left to a call k of each operation on d.
TenancyRests(r, d, k) ==
  LET i == k.req IN
  /\ i.op = "updateOrganizationBilling" =>
       k.pc = "write" /\ r = Pg!updateOrganizationBilling(d, i.org,
                               [payment |-> IF i.payment = None THEN k.loc.payment ELSE i.payment,
                                email |-> IF i.email = None THEN k.loc.email ELSE i.email])
  /\ i.op = "verifyUserEmail" => k.pc = "write" /\ r = Pg!updateUserEmailVerification(d, i.user)
  /\ i.op = "createProject" => k.pc = "write" /\ r = Pg!createProject(d, i)
  /\ i.op = "addProjectMembership" =>
       \/ k.pc = "write" /\ r = MemberAdded(d, i)
       \/ k.pc = "audit" /\ r = MemberAudit(d, i, "project_member.added")
  /\ i.op = "updateProjectMembershipRole" =>
       \/ k.pc = "owners" /\ r = Provided(IF i.role = "owner" THEN Ok(d) ELSE KeepsOwner(d, i, k.loc), RoleUpdated(d, i))
       \/ k.pc = "write" /\ r = RoleUpdated(d, i)
       \/ k.pc = "audit" /\ r = MemberAudit(d, i, "project_member.role_updated")
  /\ i.op = "removeProjectMembership" =>
       \/ k.pc = "owners" /\ r = Provided(KeepsOwner(d, i, k.loc), MemberRemoved(d, i))
       \/ k.pc = "write" /\ r = MemberRemoved(d, i)
       \/ k.pc = "audit" /\ r = MemberAudit(d, i, "project_member.removed")
  /\ i.op = "acceptProjectMembershipInvite" =>
       \/ k.pc = "write" /\ r = InviteAccepted(d, i)
       \/ k.pc = "audit" /\ r = MemberAudit(d, i, "project_member.accepted")
  /\ i.op = "requestProductionQuotaIncrease" =>
       \/ k.pc = "checks" /\ r = Provided(Ready(d, i, k.loc), Pg!createProductionQuotaIncrease(d, i))
       \/ k.pc = "write" /\ r = Pg!createProductionQuotaIncrease(d, i)
  /\ i.op = "createApiKey" =>
       \/ k.pc = "write" /\ r = KeyIssued(d, i.id, k.loc, i.project)
       \/ k.pc = "audit" /\ r = recordCustomerAuditEvent(d, "api_key.created", i.id, k.loc, i.project)
  /\ i.op = "revokeApiKey" => k.pc = "audit" /\ r = KeyAudit(d, i.id, "api_key.revoked")
  /\ i.op = "rotateApiKey" => k.pc = "audit" /\ r = KeyAudit(d, i.id, "api_key.rotated")
  /\ i.op = "authenticateApiToken" => k.pc = "use" /\ r = Pg!updateApiKeyLastUsed(d, i.id)
  /\ i.op = "createBetaOnboarding" =>
       \/ k.pc = "user" /\ r = OnboardUser(d, i)
       \/ k.pc = "project" /\ r = OnboardProject(d, i)
       \/ k.pc = "member" /\ r = OnboardMember(d, i)
       \/ k.pc = "memberAudit" /\ r = OnboardMemberAudit(d, i)
       \/ k.pc = "key" /\ r = OnboardKey(d, i)
       \/ k.pc = "keyAudit" /\ r = recordCustomerAuditEvent(d, "api_key.created", i.key, i.org, i.project)

-----------------------------------------------------------------------------
(* Billing, routing and fleet, call by call.                               *)

\* The key of the webhook of an invoice that a call holds.
KeyOf(held) == billingInvoiceIssuedIdempotencyKey(held.id, held.invoice)

\* A delivery that was sent is recorded, and the others are made after it.
DeliveryRecorded(d, i, rows, x) ==
  LET w == Pg!updateBillingWebhookDelivery(d, x, attemptBillingWebhookDelivery(rows[x], i.reply, i.now)) IN
  Provided(w, DeliveriesMade(w.db, i, leftToSend(rows, x)))

\* An invoice that has expired is deleted, and the others that have after it.
InvoicePruned(d, i, v, left) ==
  LET w == Pg!deleteBillingInvoice(d, v) IN Provided(w, InvoicesGone(w.db, Expired(w.db, left, i.now)))

DeploymentAudit(d, i) ==
  recordCustomerAuditEvent(d, "deployment.created", i.id, d.projects[i.project].org, i.project)
RouteAudit(d, i) == recordCustomerAuditEvent(d, "route.pointed", i.host, d.projects[i.project].org, i.project)
Stamped(d, snapshot) == Ok([d EXCEPT !.snapshots = Append(@, snapshot)])

BillingRests(r, d, k) ==
  LET i == k.req IN
  /\ i.op = "recordUsageEvent" =>
       /\ ~Has(d.usage, i.id)
       /\ \/ k.pc = "quota" /\ r = Provided(enforceProjectUsageQuota(d, i), UsageCounted(d, i))
          \/ k.pc = "budget" /\ r = UsageCounted(d, i)
          \/ k.pc = "insert" /\ r = Pg!createUsageEvent(d, i)
  /\ i.op = "issueOrganizationBillingInvoice" =>
       \/ k.pc = "summaries" /\ InvoicesOf(d, i) = {} /\ r = InvoiceInserted(d, i, InvoiceMade(d, i))
       \/ k.pc = "insert" /\ InvoicesOf(d, i) = {} /\ r = InvoiceInserted(d, i, createOrganizationBillingInvoice(i, k.loc))
       \/ k.pc = "raced" /\ InvoicesOf(d, i) = {} /\ r = Fail(d, "conflict")
       \/ k.pc = "audit" /\ r = InvoiceAnnounced(d, i, KeyOf(k.loc))
       \/ k.pc = "enqueue" /\ r = WebhookEnqueued(d, KeyOf(k.loc))
       \/ /\ k.pc = "enqueueInsert" /\ ~Has(d.webhooks, KeyOf(k.loc))
          /\ r = Pg!createBillingWebhookDelivery(d, KeyOf(k.loc))
  /\ i.op = "deliverPendingBillingWebhooks" =>
       \/ k.pc = "send" /\ DOMAIN k.loc \subseteq DOMAIN d.webhooks /\ r = DeliveriesMade(d, i, k.loc)
       \/ /\ k.pc = "record" /\ k.loc.sent \in DOMAIN k.loc.rows /\ DOMAIN k.loc.rows \subseteq DOMAIN d.webhooks
          /\ r = DeliveryRecorded(d, i, k.loc.rows, k.loc.sent)
  /\ i.op = "createBillingInvoiceAdjustment" =>
       k.pc = "write" /\ r = Pg!createBillingInvoiceAdjustment(d, i.id, i.invoice)
  /\ i.op = "setBillingInvoiceRetentionPolicy" => k.pc = "write" /\ r = Pg!upsertBillingInvoiceRetentionPolicy(d, i)
  /\ i.op = "pruneBillingInvoices" =>
       \/ k.pc = "policy" /\ k.loc \subseteq DOMAIN d.invoices /\ r = InvoicesGone(d, Expired(d, k.loc, i.now))
       \/ /\ k.pc = "delete" /\ k.loc.expired \notin k.loc.left
          /\ {k.loc.expired} \union k.loc.left \subseteq DOMAIN d.invoices
          /\ r = InvoicePruned(d, i, k.loc.expired, k.loc.left)

RoutingRests(r, d, k) ==
  LET i == k.req IN
  /\ i.op = "createArtifact" => k.pc = "write" /\ r = Pg!createArtifact(d, i.id, ArtifactOf(i))
  /\ i.op = "createSecret" => k.pc = "write" /\ r = Pg!createSecret(d, i)
  /\ i.op = "updateSecretValue" => k.pc = "write" /\ r = Pg!updateSecretValue(d, i.id, i.value)
  /\ i.op = "deleteSecret" => k.pc = "write" /\ r = Pg!deleteSecret(d, i.id)
  /\ i.op = "createKvNamespace" => k.pc = "write" /\ r = Pg!createKvNamespace(d, i)
  /\ i.op = "deleteKvNamespace" => k.pc = "write" /\ r = Pg!deleteKvNamespace(d, i.id)
  /\ i.op = "createDurableObjectNamespace" => k.pc = "write" /\ r = Pg!createDurableObjectNamespace(d, i)
  /\ i.op = "deleteDurableObjectNamespace" => k.pc = "write" /\ r = Pg!deleteDurableObjectNamespace(d, i.id)
  /\ i.op = "createDeployment" =>
       \/ k.pc = "kv" /\ r = BoundToKv(d, i)
       \/ k.pc = "do" /\ r = BoundToObjects(d, i)
       \/ k.pc = "secrets" /\ r = BoundToServices(d, i)
       \/ k.pc = "write" /\ r = DeploymentMade(d, i)
       \/ k.pc = "audit" /\ r = DeploymentAudit(d, i)

RouteRests(r, d, k) ==
  LET i == k.req IN
  /\ i.op = "pointRoute" =>
       \/ k.pc = "domain" /\ r = Provided(DomainAllows(d, i), Provided(RouteFree(d, i), RoutePointed(d, i)))
       \/ k.pc = "route" /\ r = Provided(RouteFree(d, i), RoutePointed(d, i))
       \/ k.pc = "quota" /\ r = Provided(enforceProjectQuota(d, i.project, "routes"), RoutePointed(d, i))
       \/ k.pc = "write" /\ r = RoutePointed(d, i)
       \/ k.pc = "audit" /\ r = RouteAudit(d, i)
  /\ i.op = "startRouteCanary" => k.pc = "write" /\ r = CanaryStarted(d, i, k.loc)
  /\ i.op = "rollbackRoute" => k.pc = "write" /\ r = RolledBack(d, i, k.loc)
  /\ i.op = "analyzeRouteCanary" =>
       \/ k.pc = "decide" /\ r = CanaryDecided(d, i, k.loc)
       \/ k.pc = "write" /\ r = RolledBack(d, i, k.loc)
  /\ i.op = "createRouteSnapshot" => k.pc = "stamp" /\ r = Stamped(d, k.loc)
  /\ i.op = "createDeployPreview" =>
       \/ /\ k.pc = "domain"
          /\ r = Provided(DomainAllows(d, i), Provided(RouteFree(d, i), PreviewPointed(d, i, TargetsOf(d, i))))
       \/ k.pc = "route" /\ r = Provided(RouteFree(d, i), PreviewPointed(d, i, TargetsOf(d, i)))
       \/ k.pc = "quota" /\ r = Provided(enforceProjectQuota(d, i.project, "routes"), PreviewPointed(d, i, None))
       \/ k.pc = "point" /\ r = PreviewPointed(d, i, k.loc)
       \/ k.pc = "insert" /\ r = PreviewInserted(d, i, k.loc)
  /\ i.op = "rollbackDeployPreview" =>
       \/ k.pc = "route" /\ r = RouteRestored(d, i, k.loc)
       \/ k.pc = "update" /\ r = PreviewUndone(d, i)

HostFree(d, host) == Require(d, \A x \in DOMAIN d.routes : x[2] # host, "validation")

DomainRests(r, d, k) ==
  LET i == k.req IN
  /\ i.op = "createCustomDomain" =>
       \/ k.pc = "write" /\ r = DomainCreated(d, i)
       \/ k.pc = "audit" /\ r = DomainAudit(d, "custom_domain.created", i, i.project)
  /\ i.op = "deleteCustomDomain" =>
       \/ k.pc = "routes" /\ r = Provided(HostFree(d, k.loc.host), DomainDeleted(d, i, k.loc.project))
       \/ k.pc = "delete" /\ r = DomainDeleted(d, i, k.loc.project)
       \/ k.pc = "audit" /\ r = DomainAudit(d, "custom_domain.deleted", i, k.loc)
  /\ i.op = "verifyCustomDomainOwnership" => k.pc = "write" /\ r = DomainSet(d, i, k.loc, "verified", k.loc.tls)
  /\ i.op = "requestCustomDomainTlsProvisioning" =>
       k.pc = "write" /\ r = DomainSet(d, i, k.loc, "tls_pending", "pending")
  /\ i.op = "completeCustomDomainTlsProvisioning" =>
       k.pc = "write" /\ r = DomainSet(d, i, k.loc, IF i.ok THEN "active" ELSE "tls_failed",
                                       IF i.ok THEN "provisioned" ELSE "failed")

\* The attempt w is made, and the operations of left after it.
AttemptThen(w, left, i) == Provided(w, OperationsDone(w.db, left, i))

FleetRests(r, d, k) ==
  LET i == k.req IN
  /\ i.op = "recordRuntimeNodeHeartbeat" =>
       k.pc = "write" /\ r = Pg!updateRuntimeNodeHeartbeat(d, i.id, heartbeatNode(k.loc, i))
  /\ i.op = "cleanupRuntimeNodes" =>
       k.pc = "delete" /\ k.loc \subseteq DOMAIN d.nodes /\ r = NodesGone(d, k.loc)
  /\ i.op = "createEdgeWorkerRelease" =>
       \/ k.pc = "deploy" /\ r = ScriptDeployed(d, i)
       \/ k.pc = "insert" /\ r = ReleaseInserted(d, i)
  /\ i.op = "deleteEdgeWorkerRelease" =>
       \/ k.pc = "mark" /\ r = ReleaseDeleted(d, i)
       \/ k.pc = "provider" /\ r = ProviderAsked(d, i)
       \/ k.pc = "failed" /\ r = ReleaseFailed(d, i)
       \/ k.pc = "enqueue" /\ r = RetryQueued(d, i)
       \/ k.pc = "deleted" /\ r = ReleaseIs(d, i, "deleted")
  /\ i.op = "deliverPendingEdgeWorkerReleaseOperations" =>
       \/ k.pc = "next" /\ r = OperationsDone(d, k.loc, i)
       \/ k.pc = "provider" /\ r = AttemptThen(OperationTried(d, k.loc.id, k.loc.row, i), k.loc.left, i)
       \/ /\ k.pc = (IF i.reply = "done" THEN "deleted" ELSE "failed")
          /\ r = AttemptThen(ReleaseMarked(d, k.loc.id, k.loc.row, i), k.loc.left, i)
       \/ /\ k.pc = (IF i.reply = "done" THEN "succeeded" ELSE "retry")
          /\ r = AttemptThen(RowRecorded(d, k.loc.id, k.loc.row, i), k.loc.left, i)

\* r is what is left to a call k of any operation on d.
Rests(r, d, k) ==
  /\ TenancyRests(r, d, k) /\ BillingRests(r, d, k) /\ RoutingRests(r, d, k)
  /\ RouteRests(r, d, k) /\ DomainRests(r, d, k) /\ FleetRests(r, d, k)

TenancyOps == {"updateOrganizationBilling", "verifyUserEmail", "createProject", "addProjectMembership",
  "updateProjectMembershipRole", "removeProjectMembership", "acceptProjectMembershipInvite",
  "requestProductionQuotaIncrease", "createApiKey", "revokeApiKey", "rotateApiKey", "authenticateApiToken",
  "createBetaOnboarding"}
BillingOps == {"recordUsageEvent", "issueOrganizationBillingInvoice", "deliverPendingBillingWebhooks",
  "createBillingInvoiceAdjustment", "setBillingInvoiceRetentionPolicy", "pruneBillingInvoices"}
RoutingOps == {"createArtifact", "createSecret", "updateSecretValue", "deleteSecret", "createKvNamespace",
  "deleteKvNamespace", "createDurableObjectNamespace", "deleteDurableObjectNamespace", "createDeployment"}
RouteOps == {"pointRoute", "startRouteCanary", "rollbackRoute", "analyzeRouteCanary", "createRouteSnapshot",
  "createDeployPreview", "rollbackDeployPreview"}
DomainOps == {"createCustomDomain", "deleteCustomDomain", "verifyCustomDomainOwnership",
  "requestCustomDomainTlsProvisioning", "completeCustomDomainTlsProvisioning"}
FleetOps == {"recordRuntimeNodeHeartbeat", "cleanupRuntimeNodes", "createEdgeWorkerRelease",
  "deleteEdgeWorkerRelease", "deliverPendingEdgeWorkerReleaseOperations"}

\* What is left to a call depends on the rules of its own operation alone.
LEMMA RestsOf ==
  ASSUME NEW r, NEW d, NEW k
  PROVE  /\ k.req.op \in TenancyOps => (Rests(r, d, k) <=> TenancyRests(r, d, k))
         /\ k.req.op \in BillingOps => (Rests(r, d, k) <=> BillingRests(r, d, k))
         /\ k.req.op \in RoutingOps => (Rests(r, d, k) <=> RoutingRests(r, d, k))
         /\ k.req.op \in RouteOps => (Rests(r, d, k) <=> RouteRests(r, d, k))
         /\ k.req.op \in DomainOps => (Rests(r, d, k) <=> DomainRests(r, d, k))
         /\ k.req.op \in FleetOps => (Rests(r, d, k) <=> FleetRests(r, d, k))
<1>1. /\ k.req.op \notin TenancyOps => TenancyRests(r, d, k)
      /\ k.req.op \notin BillingOps => BillingRests(r, d, k)
      /\ k.req.op \notin RoutingOps => RoutingRests(r, d, k)
      /\ k.req.op \notin RouteOps => RouteRests(r, d, k)
      /\ k.req.op \notin DomainOps => DomainRests(r, d, k)
      /\ k.req.op \notin FleetOps => FleetRests(r, d, k)
  BY DEF TenancyRests, BillingRests, RoutingRests, RouteRests, DomainRests, FleetRests,
         TenancyOps, BillingOps, RoutingOps, RouteOps, DomainOps, FleetOps
<1>2. /\ k.req.op \in TenancyOps => k.req.op \notin BillingOps \union RoutingOps \union RouteOps \union DomainOps \union FleetOps
      /\ k.req.op \in BillingOps => k.req.op \notin TenancyOps \union RoutingOps \union RouteOps \union DomainOps \union FleetOps
      /\ k.req.op \in RoutingOps => k.req.op \notin TenancyOps \union BillingOps \union RouteOps \union DomainOps \union FleetOps
      /\ k.req.op \in RouteOps => k.req.op \notin TenancyOps \union BillingOps \union RoutingOps \union DomainOps \union FleetOps
      /\ k.req.op \in DomainOps => k.req.op \notin TenancyOps \union BillingOps \union RoutingOps \union RouteOps \union FleetOps
      /\ k.req.op \in FleetOps => k.req.op \notin TenancyOps \union BillingOps \union RoutingOps \union RouteOps \union DomainOps
  BY DEF TenancyOps, BillingOps, RoutingOps, RouteOps, DomainOps, FleetOps
<1> QED
  BY <1>1, <1>2 DEF Rests

-----------------------------------------------------------------------------
(* What a step of a serial workload answers, and the database it counts    *)
(* as answered.                                                            *)

\* A call that is answered leaves its database as the one of the last answer.
Settles(c) == call'[c].pc \in {"idle", "start"} /\ (serial => base' = db')

\* A statement that fails settles its call; one that succeeds takes it on.
LEMMA WriteSettles ==
  ASSUME CallsInv, NEW c \in Callers, NEW r, NEW pc, NEW l, Write(c, r, pc, l)
  PROVE  /\ db' = r.db
         /\ r.out = "ok" => base' = base /\ Goes(c, pc, l)
         /\ r.out # "ok" => Settles(c)
<1>1. ASSUME NEW out, Return(c, out) PROVE Settles(c)
  BY <1>1, GoesHome DEF Return, Settles
<1>2. ASSUME Goto(c, pc, l) PROVE base' = base /\ Goes(c, pc, l)
  BY <1>2, GoesOn DEF Goes
<1> QED
  BY <1>1, <1>2 DEF Write

\* A check that throws settles its call.
LEMMA CheckSettles ==
  ASSUME CallsInv, NEW c \in Callers, NEW r, IsResult(r), NEW pc, NEW l, Check(c, r, pc, l)
  PROVE  /\ db' = db
         /\ r.out = "ok" => base' = base /\ Goes(c, pc, l)
         /\ r.out # "ok" => Settles(c)
BY WriteSettles DEF Check, IsResult

\* The last statement of a call settles it.
LEMMA FinishSettles == ASSUME CallsInv, NEW c \in Callers, NEW r, Finish(c, r) PROVE db' = r.db /\ Settles(c)
BY GoesHome DEF Finish, Return, Settles

\* What the synchronous control plane makes of the request that c has in flight.
Served(c) == Sync!Serve(base, in(c))

\* The call of c is answered, and base is what it leaves.
Home(c, out) == Answers(c, out) /\ base' = db'

\* The call of c goes on, and nothing is answered.
Onward(c, pc, l) == Goes(c, pc, l) /\ base' = base

\* A check that throws answers the call; one that passes takes it on.
LEMMA CheckTwin ==
  ASSUME CallsInv, serial, NEW c \in Callers, NEW r, IsResult(r), NEW pc, NEW l, Check(c, r, pc, l)
  PROVE  /\ db' = db
         /\ r.out = "ok" => Onward(c, pc, l)
         /\ r.out # "ok" => Home(c, r.out)
BY CheckAnswers, CheckSettles DEF Onward, Home, Settles, Goes

\* A statement that throws answers the call with what it has written; one that succeeds takes it on.
LEMMA WriteTwin ==
  ASSUME CallsInv, serial, NEW c \in Callers, NEW r, NEW pc, NEW l, Write(c, r, pc, l)
  PROVE  /\ db' = r.db
         /\ r.out = "ok" => Onward(c, pc, l)
         /\ r.out # "ok" => Home(c, r.out)
BY WriteAnswers, WriteSettles DEF Onward, Home, Settles, Goes

\* The last statement of a call answers it.
LEMMA FinishTwin ==
  ASSUME CallsInv, serial, NEW c \in Callers, NEW r, Finish(c, r) PROVE db' = r.db /\ Home(c, r.out)
BY FinishAnswers, FinishSettles DEF Home, Settles

\* An answer that writes nothing.
LEMMA ReplyTwin ==
  ASSUME CallsInv, serial, NEW c \in Callers, NEW out, Reply(c, out) PROVE db' = db /\ Home(c, out)
BY ReplyAnswers DEF Home, Reply, Return

\* A read takes the call on, and answers nothing.
LEMMA AwaitTwin ==
  ASSUME CallsInv, serial, NEW c \in Callers, NEW pc, NEW l, Await(c, pc, l) PROVE db' = db /\ Onward(c, pc, l)
BY AwaitAnswers DEF Onward, Await, Goto

-----------------------------------------------------------------------------
(* A step of a call and its twin.                                          *)

\* A call that has begun nothing is on the database of the last answer; one that has has the rest to do.
TwinCall(b, d, k) ==
  /\ k.pc = "start" => d = b
  /\ k.pc # "start" => Rests(Sync!Serve(b, k.req), d, k)

\* What a step of a serial workload starts from.
Serving(c) == CallsInv /\ serial /\ c \in Callers /\ call[c].pc # "idle" /\ TwinCall(base, db, call[c])

\* The call is answered as its twin is, and leaves the database its twin leaves.
Done(c) == Home(c, Served(c).out) /\ Served(c).db = db'

\* It is answered so, or goes on with the rest to do.
Twins(c) ==
  \/ Done(c)
  \/ /\ base' = base /\ answered' = answered /\ call'[c].req = call[c].req
     /\ call'[c].pc \notin {"idle", "start"}
     /\ Rests(Served(c), db', call'[c])

\* k is the call of c, gone on to pc with l.
GoneOn(c, k, pc, l) == k.req = in(c) /\ k.pc = pc /\ k.loc = l

\* A step that checks: what is left is what follows the check.
LEMMA CheckTwins ==
  ASSUME NEW c, Serving(c), NEW check, NEW rest, NEW pc, pc \notin {"idle", "start"}, NEW l,
         IsResult(check), check.db = db, Served(c) = Provided(check, rest), Check(c, check, pc, l),
         \A k : check.out = "ok" /\ GoneOn(c, k, pc, l) => Rests(rest, db, k)
  PROVE  Twins(c)
<1>1. db' = db /\ (check.out = "ok" => Onward(c, pc, l)) /\ (check.out # "ok" => Home(c, check.out))
  BY CheckTwin DEF Serving
<1>2. CASE check.out = "ok"
  BY <1>1, <1>2 DEF Twins, Onward, Goes, GoneOn, in, Provided
<1>3. CASE check.out # "ok"
  BY <1>1, <1>3 DEF Twins, Done, Provided
<1> QED
  BY <1>2, <1>3

\* A step that writes: what is left is what follows the statement, on the database it leaves.
LEMMA WriteTwins ==
  ASSUME NEW c, Serving(c), NEW w, NEW rest, NEW pc, pc \notin {"idle", "start"}, NEW l,
         Served(c) = Provided(w, rest), Write(c, w, pc, l),
         \A k : w.out = "ok" /\ GoneOn(c, k, pc, l) => Rests(rest, w.db, k)
  PROVE  Twins(c)
<1>1. db' = w.db /\ (w.out = "ok" => Onward(c, pc, l)) /\ (w.out # "ok" => Home(c, w.out))
  BY WriteTwin DEF Serving
<1>2. CASE w.out = "ok"
  BY <1>1, <1>2 DEF Twins, Onward, Goes, GoneOn, in, Provided
<1>3. CASE w.out # "ok"
  BY <1>1, <1>3 DEF Twins, Done, Provided
<1> QED
  BY <1>2, <1>3

\* The last statement of a call is the last of its twin.
LEMMA FinishTwins == ASSUME NEW c, Serving(c), NEW r, Served(c) = r, Finish(c, r) PROVE Twins(c)
BY FinishTwin DEF Serving, Twins, Done

\* An answer that writes nothing is the answer of a twin that has nothing to write.
LEMMA ReplyTwins ==
  ASSUME NEW c, Serving(c), NEW out, Served(c).out = out, Served(c).db = db, Reply(c, out) PROVE Twins(c)
BY ReplyTwin DEF Serving, Twins, Done

\* A read leaves everything still to do.
LEMMA AwaitTwins ==
  ASSUME NEW c, Serving(c), NEW pc, pc \notin {"idle", "start"}, NEW l, Await(c, pc, l),
         \A k : GoneOn(c, k, pc, l) => Rests(Served(c), db, k)
  PROVE  Twins(c)
<1>1. db' = db /\ Onward(c, pc, l)
  BY AwaitTwin DEF Serving
<1> QED
  BY <1>1 DEF Twins, Onward, Goes, GoneOn, in

\* Where a call is, and what its twin makes of it.
LEMMA ServingFrom ==
  ASSUME NEW c, Serving(c)
  PROVE  /\ call[c].pc = "start" => Served(c) = Sync!Serve(db, in(c))
         /\ call[c].pc # "start" => Rests(Served(c), db, call[c])
         /\ DOMAIN db = DOMAIN EmptyDb
BY DEF Serving, TwinCall, Served, in, CallsInv

-----------------------------------------------------------------------------
(* Every step of an operation is a step of its twin: tenancy.              *)

\* createOrganization() is one statement.
LEMMA createOrganizationTwins == ASSUME NEW c, Serving(c), createOrganization(c) PROVE Twins(c)
<1> DEFINE i == in(c)
<1>0. /\ i = call[c].req /\ i.op = "createOrganization"
      /\ Sync!Serve(db, i) = Sync!createOrganization(db, i)
  <2>1. i = call[c].req /\ i.op = "createOrganization"
    BY DEF in, createOrganization, At
  <2> QED
    BY <2>1, ServesMethods
<1>1. CASE call[c].pc = "start"
  <2>1. Sync!createOrganization(db, i) = Pg!createOrganization(db, i)
    BY createOrganizationServed, ServingFrom
  <2>2. Finish(c, Pg!createOrganization(db, i))
    BY <1>0, <1>1 DEF createOrganization, At, in, loc
  <2> QED
    BY <1>0, <1>1, <2>1, <2>2, ServingFrom, FinishTwins
<1> QED
  BY <1>0, <1>1 DEF createOrganization, At

\* createUser() is one statement.
LEMMA createUserTwins == ASSUME NEW c, Serving(c), createUser(c) PROVE Twins(c)
<1> DEFINE i == in(c)
<1>0. /\ i = call[c].req /\ i.op = "createUser"
      /\ Sync!Serve(db, i) = Sync!createUser(db, i)
  <2>1. i = call[c].req /\ i.op = "createUser"
    BY DEF in, createUser, At
  <2> QED
    BY <2>1, ServesMethods
<1>1. CASE call[c].pc = "start"
  <2>1. Sync!createUser(db, i) = Pg!createUser(db, i)
    BY createUserServed, ServingFrom
  <2>2. Finish(c, Pg!createUser(db, i))
    BY <1>0, <1>1 DEF createUser, At, in, loc
  <2> QED
    BY <1>0, <1>1, <2>1, <2>2, ServingFrom, FinishTwins
<1> QED
  BY <1>0, <1>1 DEF createUser, At

\* updateOrganizationBilling() writes the profile that it has read.
LEMMA updateOrganizationBillingTwins == ASSUME NEW c, Serving(c), updateOrganizationBilling(c) PROVE Twins(c)
<1> DEFINE i == in(c)
<1>0. /\ i = call[c].req /\ i.op = "updateOrganizationBilling" /\ i.op \in TenancyOps
      /\ Sync!Serve(db, i) = Sync!updateOrganizationBilling(db, i)
  <2>1. i = call[c].req /\ i.op = "updateOrganizationBilling"
    BY DEF in, updateOrganizationBilling, At
  <2> QED
    BY <2>1, ServesMethods DEF TenancyOps
<1>R. call[c].pc # "start" => TenancyRests(Served(c), db, call[c])
  BY <1>0, ServingFrom, RestsOf
<1>1. CASE call[c].pc = "start"
  <2> DEFINE check == Found(db, "organizations", i.org)
         rest == Pg!updateOrganizationBilling(db, i.org,
                     [payment |-> IF i.payment = None THEN db.organizations[i.org].payment ELSE i.payment,
                      email |-> IF i.email = None THEN db.organizations[i.org].email ELSE i.email])
  <2>1. Served(c) = Provided(check, rest)
    <3>1. Sync!updateOrganizationBilling(db, i) =
            Provided(Found(db, "organizations", i.org), Pg!updateOrganizationBilling(db, i.org,
                     [payment |-> IF i.payment = None THEN db.organizations[i.org].payment ELSE i.payment,
                      email |-> IF i.email = None THEN db.organizations[i.org].email ELSE i.email]))
      BY updateOrganizationBillingServed, ServingFrom
    <3> QED
      BY <1>0, <1>1, <3>1, ServingFrom DEF Provided
  <2>2. IsResult(check) /\ check.db = db
    BY DEF Provided, Require, Ok, Fail, IsResult, Found
  <2>3. check = requireOrganization(i.org)
    BY DEF Then, Provided, Require, Ok, Fail, requireOrganization, Found
  <2>4. ASSUME NEW k, check.out = "ok", GoneOn(c, k, "write", IF Has(db.organizations, i.org) THEN db.organizations[i.org] ELSE None) PROVE Rests(rest, db, k)
    <3>1. TenancyRests(rest, db, k)
      BY <1>0, <2>4 DEF GoneOn, TenancyRests, in, Found, Require, Fail, Ok
    <3> QED
      BY <1>0, <2>4, <3>1, RestsOf DEF GoneOn
  <2> HIDE DEF check, rest
  <2>5. Check(c, check, "write", IF Has(db.organizations, i.org) THEN db.organizations[i.org] ELSE None)
    BY <1>0, <1>1, <2>3 DEF updateOrganizationBilling, At, in, loc
  <2> QED
    BY <2>1, <2>2, <2>4, <2>5, CheckTwins
<1>2. CASE call[c].pc = "write"
  <2>1. Served(c) = Pg!updateOrganizationBilling(db, i.org,
                     [payment |-> IF i.payment = None THEN loc(c).payment ELSE i.payment,
                      email |-> IF i.email = None THEN loc(c).email ELSE i.email])
    BY <1>0, <1>2, <1>R DEF TenancyRests, loc
  <2>2. Finish(c, Pg!updateOrganizationBilling(db, i.org,
                     [payment |-> IF i.payment = None THEN loc(c).payment ELSE i.payment,
                      email |-> IF i.email = None THEN loc(c).email ELSE i.email]))
    BY <1>0, <1>2 DEF updateOrganizationBilling, At, in, loc
  <2> QED
    BY <2>1, <2>2, FinishTwins
<1> QED
  BY <1>0, <1>1, <1>2 DEF updateOrganizationBilling, At

\* verifyUserEmail() checks the user and writes.
LEMMA verifyUserEmailTwins == ASSUME NEW c, Serving(c), verifyUserEmail(c) PROVE Twins(c)
<1> DEFINE i == in(c)
<1>0. /\ i = call[c].req /\ i.op = "verifyUserEmail" /\ i.op \in TenancyOps
      /\ Sync!Serve(db, i) = Sync!verifyUserEmail(db, i)
  <2>1. i = call[c].req /\ i.op = "verifyUserEmail"
    BY DEF in, verifyUserEmail, At
  <2> QED
    BY <2>1, ServesMethods DEF TenancyOps
<1>R. call[c].pc # "start" => TenancyRests(Served(c), db, call[c])
  BY <1>0, ServingFrom, RestsOf
<1>1. CASE call[c].pc = "start"
  <2> DEFINE check == Found(db, "users", i.user)
         rest == Pg!updateUserEmailVerification(db, i.user)
  <2>1. Served(c) = Provided(check, rest)
    <3>1. Sync!verifyUserEmail(db, i) =
            Provided(Found(db, "users", i.user), Pg!updateUserEmailVerification(db, i.user))
      BY verifyUserEmailServed, ServingFrom
    <3> QED
      BY <1>0, <1>1, <3>1, ServingFrom DEF Provided
  <2>2. IsResult(check) /\ check.db = db
    BY DEF Provided, Require, Ok, Fail, IsResult, Found
  <2>3. check = requireUser(i.user)
    BY DEF Then, Provided, Require, Ok, Fail, requireUser, Found
  <2>4. ASSUME NEW k, check.out = "ok", GoneOn(c, k, "write", None) PROVE Rests(rest, db, k)
    <3>1. TenancyRests(rest, db, k)
      BY <1>0, <2>4 DEF GoneOn, TenancyRests, in
    <3> QED
      BY <1>0, <2>4, <3>1, RestsOf DEF GoneOn
  <2> HIDE DEF check, rest
  <2>5. Check(c, check, "write", None)
    BY <1>0, <1>1, <2>3 DEF verifyUserEmail, At, in, loc
  <2> QED
    BY <2>1, <2>2, <2>4, <2>5, CheckTwins
<1>2. CASE call[c].pc = "write"
  <2>1. Served(c) = Pg!updateUserEmailVerification(db, i.user)
    BY <1>0, <1>2, <1>R DEF TenancyRests
  <2>2. Finish(c, Pg!updateUserEmailVerification(db, i.user))
    BY <1>0, <1>2 DEF verifyUserEmail, At, in, loc
  <2> QED
    BY <2>1, <2>2, FinishTwins
<1> QED
  BY <1>0, <1>1, <1>2 DEF verifyUserEmail, At

\* createProject() checks the organization and inserts.
LEMMA createProjectTwins == ASSUME NEW c, Serving(c), createProject(c) PROVE Twins(c)
<1> DEFINE i == in(c)
<1>0. /\ i = call[c].req /\ i.op = "createProject" /\ i.op \in TenancyOps
      /\ Sync!Serve(db, i) = Sync!createProject(db, i)
  <2>1. i = call[c].req /\ i.op = "createProject"
    BY DEF in, createProject, At
  <2> QED
    BY <2>1, ServesMethods DEF TenancyOps
<1>R. call[c].pc # "start" => TenancyRests(Served(c), db, call[c])
  BY <1>0, ServingFrom, RestsOf
<1>1. CASE call[c].pc = "start"
  <2> DEFINE check == Require(db, OptionalKey(db.organizations, i.org), "not_found")
         rest == Pg!createProject(db, i)
  <2>1. Served(c) = Provided(check, rest)
    <3>1. Sync!createProject(db, i) =
            Provided(Require(db, OptionalKey(db.organizations, i.org), "not_found"), Pg!createProject(db, i))
      BY createProjectServed, ServingFrom
    <3> QED
      BY <1>0, <1>1, <3>1, ServingFrom DEF Provided
  <2>2. IsResult(check) /\ check.db = db
    BY DEF Provided, Require, Ok, Fail, IsResult
  <2>3. ASSUME NEW k, check.out = "ok", GoneOn(c, k, "write", None) PROVE Rests(rest, db, k)
    <3>1. TenancyRests(rest, db, k)
      BY <1>0, <2>3 DEF GoneOn, TenancyRests, in
    <3> QED
      BY <1>0, <2>3, <3>1, RestsOf DEF GoneOn
  <2> HIDE DEF check, rest
  <2>4. Check(c, check, "write", None)
    BY <1>0, <1>1 DEF check, createProject, At, in, loc
  <2> QED
    BY <2>1, <2>2, <2>3, <2>4, CheckTwins
<1>2. CASE call[c].pc = "write"
  <2>1. Served(c) = Pg!createProject(db, i)
    BY <1>0, <1>2, <1>R DEF TenancyRests
  <2>2. Finish(c, Pg!createProject(db, i))
    BY <1>0, <1>2 DEF createProject, At, in, loc
  <2> QED
    BY <2>1, <2>2, FinishTwins
<1> QED
  BY <1>0, <1>1, <1>2 DEF createProject, At

\* addProjectMembership() invites and records it.
LEMMA addProjectMembershipTwins == ASSUME NEW c, Serving(c), addProjectMembership(c) PROVE Twins(c)
<1> DEFINE i == in(c)
<1>0. /\ i = call[c].req /\ i.op = "addProjectMembership" /\ i.op \in TenancyOps
      /\ Sync!Serve(db, i) = Sync!addProjectMembership(db, i)
  <2>1. i = call[c].req /\ i.op = "addProjectMembership"
    BY DEF in, addProjectMembership, At
  <2> QED
    BY <2>1, ServesMethods DEF TenancyOps
<1>R. call[c].pc # "start" => TenancyRests(Served(c), db, call[c])
  BY <1>0, ServingFrom, RestsOf
<1>1. CASE call[c].pc = "start"
  <2> DEFINE check == Provided(ProjectAndUser(db, i), Require(db, i.role \in Roles, "validation"))
         rest == MemberAdded(db, i)
  <2>1. Served(c) = Provided(check, rest)
    <3>1. Sync!addProjectMembership(db, i) =
            Provided(ProjectAndUser(db, i), Provided(Require(db, i.role \in Roles, "validation"), MemberAdded(db, i)))
      BY addProjectMembershipServed, ServingFrom
    <3> QED
      BY <1>0, <1>1, <3>1, ServingFrom DEF Provided
  <2>2. IsResult(check) /\ check.db = db
    BY DEF Provided, Require, Ok, Fail, IsResult, ProjectAndUser, Found
  <2>3. check = Then(requireProjectAndUser(i), LAMBDA e : Require(e, i.role \in Roles, "validation"))
    BY DEF Then, Provided, Require, Ok, Fail, requireProjectAndUser, requireProject, requireUser,
       requireProjectMembership, ProjectAndUser, Found
  <2>4. ASSUME NEW k, check.out = "ok", GoneOn(c, k, "write", None) PROVE Rests(rest, db, k)
    <3>1. TenancyRests(rest, db, k)
      BY <1>0, <2>4 DEF GoneOn, TenancyRests, in
    <3> QED
      BY <1>0, <2>4, <3>1, RestsOf DEF GoneOn
  <2> HIDE DEF check, rest
  <2>5. Check(c, check, "write", None)
    BY <1>0, <1>1, <2>3 DEF addProjectMembership, At, in, loc
  <2> QED
    BY <2>1, <2>2, <2>4, <2>5, CheckTwins
<1>2. CASE call[c].pc = "write"
  <2> DEFINE w == Pg!createProjectMembership(db, i.project, i.user, i.role)
         rest == MemberAudit(w.db, i, "project_member.added")
  <2>1. Served(c) = Provided(w, rest)
    BY <1>0, <1>2, <1>R DEF TenancyRests, MemberAdded
  <2>2. ASSUME NEW k, w.out = "ok", GoneOn(c, k, "audit", None) PROVE Rests(rest, w.db, k)
    <3>1. TenancyRests(rest, w.db, k)
      BY <1>0, <2>2 DEF GoneOn, TenancyRests, in
    <3> QED
      BY <1>0, <2>2, <3>1, RestsOf DEF GoneOn
  <2> HIDE DEF w, rest
  <2>3. Write(c, w, "audit", None)
    BY <1>0, <1>2 DEF w, addProjectMembership, At, in, loc
  <2> QED
    BY <2>1, <2>2, <2>3, WriteTwins
<1>3. CASE call[c].pc = "audit"
  <2>1. Served(c) = MemberAudit(db, i, "project_member.added")
    BY <1>0, <1>3, <1>R DEF TenancyRests
  <2>2. Finish(c, MemberAudit(db, i, "project_member.added"))
    BY <1>0, <1>3 DEF addProjectMembership, At, in, loc, auditMember, MemberAudit
  <2> QED
    BY <2>1, <2>2, FinishTwins
<1> QED
  BY <1>0, <1>1, <1>2, <1>3 DEF addProjectMembership, At

\* updateProjectMembershipRole() reads the owners between the checks and the statement.
LEMMA updateProjectMembershipRoleTwins == ASSUME NEW c, Serving(c), updateProjectMembershipRole(c) PROVE Twins(c)
<1> DEFINE i == in(c)
<1>0. /\ i = call[c].req /\ i.op = "updateProjectMembershipRole" /\ i.op \in TenancyOps
      /\ Sync!Serve(db, i) = Sync!updateProjectMembershipRole(db, i)
  <2>1. i = call[c].req /\ i.op = "updateProjectMembershipRole"
    BY DEF in, updateProjectMembershipRole, At
  <2> QED
    BY <2>1, ServesMethods DEF TenancyOps
<1>R. call[c].pc # "start" => TenancyRests(Served(c), db, call[c])
  BY <1>0, ServingFrom, RestsOf
<1>1. CASE call[c].pc = "start"
  <2> DEFINE check == Provided(ProjectAndUser(db, i), Provided(Require(db, i.role \in Roles, "validation"), Found(db, "memberships", <<i.project, i.user>>)))
         rest == Provided(IF i.role = "owner" THEN Ok(db) ELSE KeepsOwner(db, i, db.memberships[<<i.project, i.user>>]), RoleUpdated(db, i))
  <2>1. Served(c) = Provided(check, rest)
    <3>1. Sync!updateProjectMembershipRole(db, i) =
            Provided(ProjectAndUser(db, i), Provided(Require(db, i.role \in Roles, "validation"), Provided(Found(db, "memberships", <<i.project, i.user>>),
            Provided(IF i.role = "owner" THEN Ok(db) ELSE Sync!assertProjectKeepsOwner(db, i.project, i.user), RoleUpdated(db, i)))))
      BY updateProjectMembershipRoleServed, ServingFrom
    <3> QED
      BY <1>0, <1>1, <3>1, ServingFrom, SameChecks DEF Provided
  <2>2. IsResult(check) /\ check.db = db
    BY DEF Provided, Require, Ok, Fail, IsResult, ProjectAndUser, Found
  <2>3. check = Then(requireProjectAndUser(i), LAMBDA e :
             Then(Require(e, i.role \in Roles, "validation"), LAMBDA f : requireProjectMembership(i.project, i.user)))
    BY DEF Then, Provided, Require, Ok, Fail, requireProjectAndUser, requireProject, requireUser,
       requireProjectMembership, ProjectAndUser, Found
  <2>4. ASSUME NEW k, check.out = "ok", GoneOn(c, k, "owners", currentMembership(i)) PROVE Rests(rest, db, k)
    <3>1. TenancyRests(rest, db, k)
      BY <1>0, <2>4 DEF GoneOn, TenancyRests, in, currentMembership, Provided, Found, Require, Ok, Fail
    <3> QED
      BY <1>0, <2>4, <3>1, RestsOf DEF GoneOn
  <2> HIDE DEF check, rest
  <2>5. Check(c, check, "owners", currentMembership(i))
    BY <1>0, <1>1, <2>3 DEF updateProjectMembershipRole, At, in, loc
  <2> QED
    BY <2>1, <2>2, <2>4, <2>5, CheckTwins
<1>2. CASE call[c].pc = "owners"
  <2> DEFINE check == (IF i.role = "owner" THEN Ok(db) ELSE KeepsOwner(db, i, loc(c)))
         rest == RoleUpdated(db, i)
  <2>1. Served(c) = Provided(check, rest)
    BY <1>0, <1>2, <1>R DEF TenancyRests, loc
  <2>2. IsResult(check) /\ check.db = db
    BY DEF Provided, Require, Ok, Fail, IsResult, KeepsOwner
  <2>3. check = IF i.role = "owner" THEN Ok(db) ELSE assertProjectKeepsOwner(i.project, i.user, loc(c))
    BY SameChecks DEF Then, Provided, Require, Ok, Fail
  <2>4. ASSUME NEW k, check.out = "ok", GoneOn(c, k, "write", None) PROVE Rests(rest, db, k)
    <3>1. TenancyRests(rest, db, k)
      BY <1>0, <2>4 DEF GoneOn, TenancyRests, in
    <3> QED
      BY <1>0, <2>4, <3>1, RestsOf DEF GoneOn
  <2> HIDE DEF check, rest
  <2>5. Check(c, check, "write", None)
    BY <1>0, <1>2, <2>3 DEF updateProjectMembershipRole, At, in, loc
  <2> QED
    BY <2>1, <2>2, <2>4, <2>5, CheckTwins
<1>3. CASE call[c].pc = "write"
  <2> DEFINE w == Pg!updateProjectMembershipRole(db, i.project, i.user, i.role)
         rest == MemberAudit(w.db, i, "project_member.role_updated")
  <2>1. Served(c) = Provided(w, rest)
    BY <1>0, <1>3, <1>R DEF TenancyRests, RoleUpdated
  <2>2. ASSUME NEW k, w.out = "ok", GoneOn(c, k, "audit", None) PROVE Rests(rest, w.db, k)
    <3>1. TenancyRests(rest, w.db, k)
      BY <1>0, <2>2 DEF GoneOn, TenancyRests, in
    <3> QED
      BY <1>0, <2>2, <3>1, RestsOf DEF GoneOn
  <2> HIDE DEF w, rest
  <2>3. Write(c, w, "audit", None)
    BY <1>0, <1>3 DEF w, updateProjectMembershipRole, At, in, loc
  <2> QED
    BY <2>1, <2>2, <2>3, WriteTwins
<1>4. CASE call[c].pc = "audit"
  <2>1. Served(c) = MemberAudit(db, i, "project_member.role_updated")
    BY <1>0, <1>4, <1>R DEF TenancyRests
  <2>2. Finish(c, MemberAudit(db, i, "project_member.role_updated"))
    BY <1>0, <1>4 DEF updateProjectMembershipRole, At, in, loc, auditMember, MemberAudit
  <2> QED
    BY <2>1, <2>2, FinishTwins
<1> QED
  BY <1>0, <1>1, <1>2, <1>3, <1>4 DEF updateProjectMembershipRole, At

\* removeProjectMembership() reads the owners between the checks and the statement.
LEMMA removeProjectMembershipTwins == ASSUME NEW c, Serving(c), removeProjectMembership(c) PROVE Twins(c)
<1> DEFINE i == in(c)
<1>0. /\ i = call[c].req /\ i.op = "removeProjectMembership" /\ i.op \in TenancyOps
      /\ Sync!Serve(db, i) = Sync!removeProjectMembership(db, i)
  <2>1. i = call[c].req /\ i.op = "removeProjectMembership"
    BY DEF in, removeProjectMembership, At
  <2> QED
    BY <2>1, ServesMethods DEF TenancyOps
<1>R. call[c].pc # "start" => TenancyRests(Served(c), db, call[c])
  BY <1>0, ServingFrom, RestsOf
<1>1. CASE call[c].pc = "start"
  <2> DEFINE check == Provided(ProjectAndUser(db, i), Found(db, "memberships", <<i.project, i.user>>))
         rest == Provided(KeepsOwner(db, i, db.memberships[<<i.project, i.user>>]), MemberRemoved(db, i))
  <2>1. Served(c) = Provided(check, rest)
    <3>1. Sync!removeProjectMembership(db, i) =
            Provided(ProjectAndUser(db, i), Provided(Found(db, "memberships", <<i.project, i.user>>),
            Provided(Sync!assertProjectKeepsOwner(db, i.project, i.user), MemberRemoved(db, i))))
      BY removeProjectMembershipServed, ServingFrom
    <3> QED
      BY <1>0, <1>1, <3>1, ServingFrom, SameChecks DEF Provided
  <2>2. IsResult(check) /\ check.db = db
    BY DEF Provided, Require, Ok, Fail, IsResult, ProjectAndUser, Found
  <2>3. check = Then(requireProjectAndUser(i), LAMBDA e : requireProjectMembership(i.project, i.user))
    BY DEF Then, Provided, Require, Ok, Fail, requireProjectAndUser, requireProject, requireUser,
       requireProjectMembership, ProjectAndUser, Found
  <2>4. ASSUME NEW k, check.out = "ok", GoneOn(c, k, "owners", currentMembership(i)) PROVE Rests(rest, db, k)
    <3>1. TenancyRests(rest, db, k)
      BY <1>0, <2>4 DEF GoneOn, TenancyRests, in, currentMembership, Provided, Found, Require, Ok, Fail
    <3> QED
      BY <1>0, <2>4, <3>1, RestsOf DEF GoneOn
  <2> HIDE DEF check, rest
  <2>5. Check(c, check, "owners", currentMembership(i))
    BY <1>0, <1>1, <2>3 DEF removeProjectMembership, At, in, loc
  <2> QED
    BY <2>1, <2>2, <2>4, <2>5, CheckTwins
<1>2. CASE call[c].pc = "owners"
  <2> DEFINE check == KeepsOwner(db, i, loc(c))
         rest == MemberRemoved(db, i)
  <2>1. Served(c) = Provided(check, rest)
    BY <1>0, <1>2, <1>R DEF TenancyRests, loc
  <2>2. IsResult(check) /\ check.db = db
    BY DEF Provided, Require, Ok, Fail, IsResult, KeepsOwner
  <2>3. check = assertProjectKeepsOwner(i.project, i.user, loc(c))
    BY SameChecks DEF Then, Provided, Require, Ok, Fail
  <2>4. ASSUME NEW k, check.out = "ok", GoneOn(c, k, "write", None) PROVE Rests(rest, db, k)
    <3>1. TenancyRests(rest, db, k)
      BY <1>0, <2>4 DEF GoneOn, TenancyRests, in
    <3> QED
      BY <1>0, <2>4, <3>1, RestsOf DEF GoneOn
  <2> HIDE DEF check, rest
  <2>5. Check(c, check, "write", None)
    BY <1>0, <1>2, <2>3 DEF removeProjectMembership, At, in, loc
  <2> QED
    BY <2>1, <2>2, <2>4, <2>5, CheckTwins
<1>3. CASE call[c].pc = "write"
  <2> DEFINE w == Pg!deleteProjectMembership(db, i.project, i.user)
         rest == MemberAudit(w.db, i, "project_member.removed")
  <2>1. Served(c) = Provided(w, rest)
    BY <1>0, <1>3, <1>R DEF TenancyRests, MemberRemoved
  <2>2. ASSUME NEW k, w.out = "ok", GoneOn(c, k, "audit", None) PROVE Rests(rest, w.db, k)
    <3>1. TenancyRests(rest, w.db, k)
      BY <1>0, <2>2 DEF GoneOn, TenancyRests, in
    <3> QED
      BY <1>0, <2>2, <3>1, RestsOf DEF GoneOn
  <2> HIDE DEF w, rest
  <2>3. Write(c, w, "audit", None)
    BY <1>0, <1>3 DEF w, removeProjectMembership, At, in, loc
  <2> QED
    BY <2>1, <2>2, <2>3, WriteTwins
<1>4. CASE call[c].pc = "audit"
  <2>1. Served(c) = MemberAudit(db, i, "project_member.removed")
    BY <1>0, <1>4, <1>R DEF TenancyRests
  <2>2. Finish(c, MemberAudit(db, i, "project_member.removed"))
    BY <1>0, <1>4 DEF removeProjectMembership, At, in, loc, auditMember, MemberAudit
  <2> QED
    BY <2>1, <2>2, FinishTwins
<1> QED
  BY <1>0, <1>1, <1>2, <1>3, <1>4 DEF removeProjectMembership, At

\* acceptProjectMembershipInvite() accepts and records it.
LEMMA acceptProjectMembershipInviteTwins == ASSUME NEW c, Serving(c), acceptProjectMembershipInvite(c) PROVE Twins(c)
<1> DEFINE i == in(c)
<1>0. /\ i = call[c].req /\ i.op = "acceptProjectMembershipInvite" /\ i.op \in TenancyOps
      /\ Sync!Serve(db, i) = Sync!acceptProjectMembershipInvite(db, i)
  <2>1. i = call[c].req /\ i.op = "acceptProjectMembershipInvite"
    BY DEF in, acceptProjectMembershipInvite, At
  <2> QED
    BY <2>1, ServesMethods DEF TenancyOps
<1>R. call[c].pc # "start" => TenancyRests(Served(c), db, call[c])
  BY <1>0, ServingFrom, RestsOf
<1>1. CASE call[c].pc = "start"
  <2> DEFINE check == ProjectAndUser(db, i)
         rest == InviteAccepted(db, i)
  <2>1. Served(c) = Provided(check, rest)
    <3>1. Sync!acceptProjectMembershipInvite(db, i) =
            Provided(ProjectAndUser(db, i), InviteAccepted(db, i))
      BY acceptProjectMembershipInviteServed, ServingFrom
    <3> QED
      BY <1>0, <1>1, <3>1, ServingFrom DEF Provided
  <2>2. IsResult(check) /\ check.db = db
    BY DEF Provided, Require, Ok, Fail, IsResult, ProjectAndUser, Found
  <2>3. check = requireProjectAndUser(i)
    BY DEF Then, Provided, Require, Ok, Fail, requireProjectAndUser, requireProject, requireUser,
       requireProjectMembership, ProjectAndUser, Found
  <2>4. ASSUME NEW k, check.out = "ok", GoneOn(c, k, "write", None) PROVE Rests(rest, db, k)
    <3>1. TenancyRests(rest, db, k)
      BY <1>0, <2>4 DEF GoneOn, TenancyRests, in
    <3> QED
      BY <1>0, <2>4, <3>1, RestsOf DEF GoneOn
  <2> HIDE DEF check, rest
  <2>5. Check(c, check, "write", None)
    BY <1>0, <1>1, <2>3 DEF acceptProjectMembershipInvite, At, in, loc
  <2> QED
    BY <2>1, <2>2, <2>4, <2>5, CheckTwins
<1>2. CASE call[c].pc = "write"
  <2> DEFINE w == Pg!acceptProjectMembershipInvite(db, i.project, i.user)
         rest == MemberAudit(w.db, i, "project_member.accepted")
  <2>1. Served(c) = Provided(w, rest)
    BY <1>0, <1>2, <1>R DEF TenancyRests, InviteAccepted
  <2>2. ASSUME NEW k, w.out = "ok", GoneOn(c, k, "audit", None) PROVE Rests(rest, w.db, k)
    <3>1. TenancyRests(rest, w.db, k)
      BY <1>0, <2>2 DEF GoneOn, TenancyRests, in
    <3> QED
      BY <1>0, <2>2, <3>1, RestsOf DEF GoneOn
  <2> HIDE DEF w, rest
  <2>3. Write(c, w, "audit", None)
    BY <1>0, <1>2 DEF w, acceptProjectMembershipInvite, At, in, loc
  <2> QED
    BY <2>1, <2>2, <2>3, WriteTwins
<1>3. CASE call[c].pc = "audit"
  <2>1. Served(c) = MemberAudit(db, i, "project_member.accepted")
    BY <1>0, <1>3, <1>R DEF TenancyRests
  <2>2. Finish(c, MemberAudit(db, i, "project_member.accepted"))
    BY <1>0, <1>3 DEF acceptProjectMembershipInvite, At, in, loc, auditMember, MemberAudit
  <2> QED
    BY <2>1, <2>2, FinishTwins
<1> QED
  BY <1>0, <1>1, <1>2, <1>3 DEF acceptProjectMembershipInvite, At

\* requestProductionQuotaIncrease() reads the readiness after the organization.
LEMMA requestProductionQuotaIncreaseTwins == ASSUME NEW c, Serving(c), requestProductionQuotaIncrease(c) PROVE Twins(c)
<1> DEFINE i == in(c)
<1>0. /\ i = call[c].req /\ i.op = "requestProductionQuotaIncrease" /\ i.op \in TenancyOps
      /\ Sync!Serve(db, i) = Sync!requestProductionQuotaIncrease(db, i)
  <2>1. i = call[c].req /\ i.op = "requestProductionQuotaIncrease"
    BY DEF in, requestProductionQuotaIncrease, At
  <2> QED
    BY <2>1, ServesMethods DEF TenancyOps
<1>R. call[c].pc # "start" => TenancyRests(Served(c), db, call[c])
  BY <1>0, ServingFrom, RestsOf
<1>1. CASE call[c].pc = "start"
  <2> DEFINE check == Provided(Found(db, "organizations", i.org), Provided(Require(db, OptionalKey(db.projects, i.project), "not_found"), Require(db, i.project = None \/ db.projects[i.project].org = i.org, "validation")))
         rest == Provided(Ready(db, i, db.organizations[i.org].payment), Pg!createProductionQuotaIncrease(db, i))
  <2>1. Served(c) = Provided(check, rest)
    <3>1. Sync!requestProductionQuotaIncrease(db, i) =
            Provided(Found(db, "organizations", i.org), Provided(Require(db, OptionalKey(db.projects, i.project), "not_found"),
            Provided(Require(db, i.project = None \/ db.projects[i.project].org = i.org, "validation"),
            Provided(Require(db, Sync!productionQuotaReadinessChecks(db, i.org, i.project), "validation"), Pg!createProductionQuotaIncrease(db, i)))))
      BY requestProductionQuotaIncreaseServed, ServingFrom
    <3> QED
      BY <1>0, <1>1, <3>1, ServingFrom, SameChecks DEF Provided
  <2>2. IsResult(check) /\ check.db = db
    BY DEF Provided, Require, Ok, Fail, IsResult, Found
  <2>3. check = Then(requireOrganization(i.org), LAMBDA e :
             Then(Require(e, OptionalKey(e.projects, i.project), "not_found"), LAMBDA f :
                  Require(f, i.project = None \/ f.projects[i.project].org = i.org, "validation")))
    BY DEF Then, Provided, Require, Ok, Fail, requireOrganization, Found
  <2>4. ASSUME NEW k, check.out = "ok", GoneOn(c, k, "checks", IF Has(db.organizations, i.org) THEN db.organizations[i.org].payment ELSE None) PROVE Rests(rest, db, k)
    <3>1. TenancyRests(rest, db, k)
      BY <1>0, <2>4 DEF GoneOn, TenancyRests, in, Provided, Found, Require, Ok, Fail
    <3> QED
      BY <1>0, <2>4, <3>1, RestsOf DEF GoneOn
  <2> HIDE DEF check, rest
  <2>5. Check(c, check, "checks", IF Has(db.organizations, i.org) THEN db.organizations[i.org].payment ELSE None)
    BY <1>0, <1>1, <2>3 DEF requestProductionQuotaIncrease, At, in, loc
  <2> QED
    BY <2>1, <2>2, <2>4, <2>5, CheckTwins
<1>2. CASE call[c].pc = "checks"
  <2> DEFINE check == Ready(db, i, loc(c))
         rest == Pg!createProductionQuotaIncrease(db, i)
  <2>1. Served(c) = Provided(check, rest)
    BY <1>0, <1>2, <1>R DEF TenancyRests, loc
  <2>2. IsResult(check) /\ check.db = db
    BY DEF Provided, Require, Ok, Fail, IsResult, Ready
  <2>3. check = Require(db, productionQuotaReadinessChecks(i.org, loc(c), i.project), "validation")
    BY SameChecks DEF Then, Provided, Require, Ok, Fail
  <2>4. ASSUME NEW k, check.out = "ok", GoneOn(c, k, "write", None) PROVE Rests(rest, db, k)
    <3>1. TenancyRests(rest, db, k)
      BY <1>0, <2>4 DEF GoneOn, TenancyRests, in
    <3> QED
      BY <1>0, <2>4, <3>1, RestsOf DEF GoneOn
  <2> HIDE DEF check, rest
  <2>5. Check(c, check, "write", None)
    BY <1>0, <1>2, <2>3 DEF requestProductionQuotaIncrease, At, in, loc
  <2> QED
    BY <2>1, <2>2, <2>4, <2>5, CheckTwins
<1>3. CASE call[c].pc = "write"
  <2>1. Served(c) = Pg!createProductionQuotaIncrease(db, i)
    BY <1>0, <1>3, <1>R DEF TenancyRests
  <2>2. Finish(c, Pg!createProductionQuotaIncrease(db, i))
    BY <1>0, <1>3 DEF requestProductionQuotaIncrease, At, in, loc
  <2> QED
    BY <2>1, <2>2, FinishTwins
<1> QED
  BY <1>0, <1>1, <1>2, <1>3 DEF requestProductionQuotaIncrease, At

\* createApiKey() inserts the key and records it.
LEMMA createApiKeyTwins == ASSUME NEW c, Serving(c), createApiKey(c) PROVE Twins(c)
<1> DEFINE i == in(c)
<1>0. /\ i = call[c].req /\ i.op = "createApiKey" /\ i.op \in TenancyOps
      /\ Sync!Serve(db, i) = Sync!createApiKey(db, i)
  <2>1. i = call[c].req /\ i.op = "createApiKey"
    BY DEF in, createApiKey, At
  <2> QED
    BY <2>1, ServesMethods DEF TenancyOps
<1>R. call[c].pc # "start" => TenancyRests(Served(c), db, call[c])
  BY <1>0, ServingFrom, RestsOf
<1>1. CASE call[c].pc = "start"
  <2> DEFINE check == Provided(Require(db, OptionalKey(db.projects, i.project), "not_found"), Provided(Require(db, OptionalKey(db.organizations, OrganizationOf(db, i)), "not_found"), Require(db, OrganizationOf(db, i) # None \/ i.project # None, "validation")))
         rest == KeyIssued(db, i.id, OrganizationOf(db, i), i.project)
  <2>1. Served(c) = Provided(check, rest)
    <3>1. Sync!createApiKey(db, i) =
            Provided(Require(db, OptionalKey(db.projects, i.project), "not_found"), Provided(Require(db, OptionalKey(db.organizations, OrganizationOf(db, i)), "not_found"),
            Provided(Require(db, OrganizationOf(db, i) # None \/ i.project # None, "validation"), KeyIssued(db, i.id, OrganizationOf(db, i), i.project))))
      BY createApiKeyServed, ServingFrom
    <3> QED
      BY <1>0, <1>1, <3>1, ServingFrom DEF Provided
  <2>2. IsResult(check) /\ check.db = db
    BY DEF Provided, Require, Ok, Fail, IsResult
  <2>3. check = Then(Require(db, OptionalKey(db.projects, i.project), "not_found"), LAMBDA e :
             Then(Require(e, OptionalKey(e.organizations, apiKeyOrganization(i)), "not_found"), LAMBDA f :
                  Require(f, apiKeyOrganization(i) # None \/ i.project # None, "validation")))
    BY DEF Then, Provided, Require, Ok, Fail, apiKeyOrganization, OrganizationOf
  <2>4. ASSUME NEW k, check.out = "ok", GoneOn(c, k, "write", apiKeyOrganization(i)) PROVE Rests(rest, db, k)
    <3>1. TenancyRests(rest, db, k)
      BY <1>0, <2>4 DEF GoneOn, TenancyRests, in, apiKeyOrganization, OrganizationOf
    <3> QED
      BY <1>0, <2>4, <3>1, RestsOf DEF GoneOn
  <2> HIDE DEF check, rest
  <2>5. Check(c, check, "write", apiKeyOrganization(i))
    BY <1>0, <1>1, <2>3 DEF createApiKey, At, in, loc
  <2> QED
    BY <2>1, <2>2, <2>4, <2>5, CheckTwins
<1>2. CASE call[c].pc = "write"
  <2> DEFINE w == Pg!createApiKey(db, i.id, loc(c), i.project)
         rest == recordCustomerAuditEvent(w.db, "api_key.created", i.id, loc(c), i.project)
  <2>1. Served(c) = Provided(w, rest)
    BY <1>0, <1>2, <1>R DEF TenancyRests, KeyIssued, loc
  <2>2. ASSUME NEW k, w.out = "ok", GoneOn(c, k, "audit", loc(c)) PROVE Rests(rest, w.db, k)
    <3>1. TenancyRests(rest, w.db, k)
      BY <1>0, <2>2 DEF GoneOn, TenancyRests, in
    <3> QED
      BY <1>0, <2>2, <3>1, RestsOf DEF GoneOn
  <2> HIDE DEF w, rest
  <2>3. Write(c, w, "audit", loc(c))
    BY <1>0, <1>2 DEF w, createApiKey, At, in, loc
  <2> QED
    BY <2>1, <2>2, <2>3, WriteTwins
<1>3. CASE call[c].pc = "audit"
  <2>1. Served(c) = recordCustomerAuditEvent(db, "api_key.created", i.id, loc(c), i.project)
    BY <1>0, <1>3, <1>R DEF TenancyRests, loc
  <2>2. Finish(c, recordCustomerAuditEvent(db, "api_key.created", i.id, loc(c), i.project))
    BY <1>0, <1>3 DEF createApiKey, At, in, loc
  <2> QED
    BY <2>1, <2>2, FinishTwins
<1> QED
  BY <1>0, <1>1, <1>2, <1>3 DEF createApiKey, At

\* revokeApiKey() writes and records it.
LEMMA revokeApiKeyTwins == ASSUME NEW c, Serving(c), revokeApiKey(c) PROVE Twins(c)
<1> DEFINE i == in(c)
<1>0. /\ i = call[c].req /\ i.op = "revokeApiKey" /\ i.op \in TenancyOps
      /\ Sync!Serve(db, i) = Sync!revokeApiKey(db, i)
  <2>1. i = call[c].req /\ i.op = "revokeApiKey"
    BY DEF in, revokeApiKey, At
  <2> QED
    BY <2>1, ServesMethods DEF TenancyOps
<1>R. call[c].pc # "start" => TenancyRests(Served(c), db, call[c])
  BY <1>0, ServingFrom, RestsOf
<1>1. CASE call[c].pc = "start"
  <2> DEFINE w == Pg!revokeApiKey(db, i.id)
         rest == KeyAudit(w.db, i.id, "api_key.revoked")
  <2>1. Served(c) = Provided(w, rest)
    <3>1. Sync!revokeApiKey(db, i) =
            LET v == Pg!revokeApiKey(db, i.id) IN Provided(v, KeyAudit(v.db, i.id, "api_key.revoked"))
      BY revokeApiKeyServed, ServingFrom
    <3> QED
      BY <1>0, <1>1, <3>1, ServingFrom DEF Provided
  <2>2. ASSUME NEW k, w.out = "ok", GoneOn(c, k, "audit", None) PROVE Rests(rest, w.db, k)
    <3>1. TenancyRests(rest, w.db, k)
      BY <1>0, <2>2 DEF GoneOn, TenancyRests, in
    <3> QED
      BY <1>0, <2>2, <3>1, RestsOf DEF GoneOn
  <2> HIDE DEF w, rest
  <2>3. Write(c, w, "audit", None)
    BY <1>0, <1>1 DEF w, revokeApiKey, At, in, loc
  <2> QED
    BY <2>1, <2>2, <2>3, WriteTwins
<1>2. CASE call[c].pc = "audit"
  <2>1. Served(c) = KeyAudit(db, i.id, "api_key.revoked")
    BY <1>0, <1>2, <1>R DEF TenancyRests
  <2>2. Finish(c, KeyAudit(db, i.id, "api_key.revoked"))
    BY <1>0, <1>2 DEF revokeApiKey, At, in, loc, auditKey, KeyAudit
  <2> QED
    BY <2>1, <2>2, FinishTwins
<1> QED
  BY <1>0, <1>1, <1>2 DEF revokeApiKey, At

\* rotateApiKey() writes and records it.
LEMMA rotateApiKeyTwins == ASSUME NEW c, Serving(c), rotateApiKey(c) PROVE Twins(c)
<1> DEFINE i == in(c)
<1>0. /\ i = call[c].req /\ i.op = "rotateApiKey" /\ i.op \in TenancyOps
      /\ Sync!Serve(db, i) = Sync!rotateApiKey(db, i)
  <2>1. i = call[c].req /\ i.op = "rotateApiKey"
    BY DEF in, rotateApiKey, At
  <2> QED
    BY <2>1, ServesMethods DEF TenancyOps
<1>R. call[c].pc # "start" => TenancyRests(Served(c), db, call[c])
  BY <1>0, ServingFrom, RestsOf
<1>1. CASE call[c].pc = "start"
  <2> DEFINE w == Pg!rotateApiKey(db, i.id, i.replacement)
         rest == KeyAudit(w.db, i.id, "api_key.rotated")
  <2>1. Served(c) = Provided(w, rest)
    <3>1. Sync!rotateApiKey(db, i) =
            LET v == Pg!rotateApiKey(db, i.id, i.replacement) IN Provided(v, KeyAudit(v.db, i.id, "api_key.rotated"))
      BY rotateApiKeyServed, ServingFrom
    <3> QED
      BY <1>0, <1>1, <3>1, ServingFrom DEF Provided
  <2>2. ASSUME NEW k, w.out = "ok", GoneOn(c, k, "audit", None) PROVE Rests(rest, w.db, k)
    <3>1. TenancyRests(rest, w.db, k)
      BY <1>0, <2>2 DEF GoneOn, TenancyRests, in
    <3> QED
      BY <1>0, <2>2, <3>1, RestsOf DEF GoneOn
  <2> HIDE DEF w, rest
  <2>3. Write(c, w, "audit", None)
    BY <1>0, <1>1 DEF w, rotateApiKey, At, in, loc
  <2> QED
    BY <2>1, <2>2, <2>3, WriteTwins
<1>2. CASE call[c].pc = "audit"
  <2>1. Served(c) = KeyAudit(db, i.id, "api_key.rotated")
    BY <1>0, <1>2, <1>R DEF TenancyRests
  <2>2. Finish(c, KeyAudit(db, i.id, "api_key.rotated"))
    BY <1>0, <1>2 DEF rotateApiKey, At, in, loc, auditKey, KeyAudit
  <2> QED
    BY <2>1, <2>2, FinishTwins
<1> QED
  BY <1>0, <1>1, <1>2 DEF rotateApiKey, At

\* authenticateApiToken() answers after a write.
LEMMA authenticateApiTokenTwins == ASSUME NEW c, Serving(c), authenticateApiToken(c) PROVE Twins(c)
<1> DEFINE i == in(c)
<1>0. /\ i = call[c].req /\ i.op = "authenticateApiToken" /\ i.op \in TenancyOps
      /\ Sync!Serve(db, i) = Sync!authenticateApiToken(db, i)
  <2>1. i = call[c].req /\ i.op = "authenticateApiToken"
    BY DEF in, authenticateApiToken, At
  <2> QED
    BY <2>1, ServesMethods DEF TenancyOps
<1>R. call[c].pc # "start" => TenancyRests(Served(c), db, call[c])
  BY <1>0, ServingFrom, RestsOf
<1>1. CASE call[c].pc = "start"
  <2> DEFINE check == Require(db, Has(db.apiKeys, i.id) /\ ~db.apiKeys[i.id].revoked, "unauthenticated")
         rest == Pg!updateApiKeyLastUsed(db, i.id)
  <2>1. Served(c) = Provided(check, rest)
    <3>1. Sync!authenticateApiToken(db, i) =
            Provided(Require(db, Has(db.apiKeys, i.id) /\ ~db.apiKeys[i.id].revoked, "unauthenticated"), Pg!updateApiKeyLastUsed(db, i.id))
      BY authenticateApiTokenServed, ServingFrom
    <3> QED
      BY <1>0, <1>1, <3>1, ServingFrom DEF Provided
  <2>2. IsResult(check) /\ check.db = db
    BY DEF Provided, Require, Ok, Fail, IsResult
  <2>3. ASSUME NEW k, check.out = "ok", GoneOn(c, k, "use", None) PROVE Rests(rest, db, k)
    <3>1. TenancyRests(rest, db, k)
      BY <1>0, <2>3 DEF GoneOn, TenancyRests, in
    <3> QED
      BY <1>0, <2>3, <3>1, RestsOf DEF GoneOn
  <2> HIDE DEF check, rest
  <2>4. Check(c, check, "use", None)
    BY <1>0, <1>1 DEF check, authenticateApiToken, At, in, loc
  <2> QED
    BY <2>1, <2>2, <2>3, <2>4, CheckTwins
<1>2. CASE call[c].pc = "use"
  <2>1. Served(c) = Pg!updateApiKeyLastUsed(db, i.id)
    BY <1>0, <1>2, <1>R DEF TenancyRests
  <2>2. Finish(c, Pg!updateApiKeyLastUsed(db, i.id))
    BY <1>0, <1>2 DEF authenticateApiToken, At, in, loc
  <2> QED
    BY <2>1, <2>2, FinishTwins
<1> QED
  BY <1>0, <1>1, <1>2 DEF authenticateApiToken, At

\* createBetaOnboarding() makes its statements one after the other.
LEMMA createBetaOnboardingTwins == ASSUME NEW c, Serving(c), createBetaOnboarding(c), in(c).project # None PROVE Twins(c)
<1> DEFINE i == in(c)
<1>0. /\ i = call[c].req /\ i.op = "createBetaOnboarding" /\ i.op \in TenancyOps
      /\ Sync!Serve(db, i) = Sync!createBetaOnboarding(db, i)
  <2>1. i = call[c].req /\ i.op = "createBetaOnboarding"
    BY DEF in, createBetaOnboarding, At
  <2> QED
    BY <2>1, ServesMethods DEF TenancyOps
<1>R. call[c].pc # "start" => TenancyRests(Served(c), db, call[c])
  BY <1>0, ServingFrom, RestsOf
<1>1. CASE call[c].pc = "start"
  <2> DEFINE w == Pg!createOrganization(db, [id |-> i.org, name |-> i.org, payment |-> "payment_pending", email |-> None])
         rest == OnboardUser(w.db, i)
  <2>1. Served(c) = Provided(w, rest)
    <3>1. Sync!createBetaOnboarding(db, i) =
            Onboarded(db, i)
      BY createBetaOnboardingServed, ServingFrom
    <3> QED
      BY <1>0, <1>1, <3>1, ServingFrom DEF Provided, Onboarded
  <2>2. ASSUME NEW k, w.out = "ok", GoneOn(c, k, "user", None) PROVE Rests(rest, w.db, k)
    <3>1. TenancyRests(rest, w.db, k)
      BY <1>0, <2>2 DEF GoneOn, TenancyRests, in
    <3> QED
      BY <1>0, <2>2, <3>1, RestsOf DEF GoneOn
  <2> HIDE DEF w, rest
  <2>3. Write(c, w, "user", None)
    BY <1>0, <1>1 DEF w, createBetaOnboarding, At, in, loc
  <2> QED
    BY <2>1, <2>2, <2>3, WriteTwins
<1>2. CASE call[c].pc = "user"
  <2> DEFINE w == Pg!createUser(db, [id |-> i.user, email |-> i.user, verified |-> FALSE])
         rest == OnboardProject(w.db, i)
  <2>1. Served(c) = Provided(w, rest)
    BY <1>0, <1>2, <1>R DEF TenancyRests, OnboardUser
  <2>2. ASSUME NEW k, w.out = "ok", GoneOn(c, k, "project", None) PROVE Rests(rest, w.db, k)
    <3>1. TenancyRests(rest, w.db, k)
      BY <1>0, <2>2 DEF GoneOn, TenancyRests, in
    <3> QED
      BY <1>0, <2>2, <3>1, RestsOf DEF GoneOn
  <2> HIDE DEF w, rest
  <2>3. Write(c, w, "project", None)
    BY <1>0, <1>2 DEF w, createBetaOnboarding, At, in, loc
  <2> QED
    BY <2>1, <2>2, <2>3, WriteTwins
<1>3. CASE call[c].pc = "project"
  <2> DEFINE w == Pg!createProject(db, [id |-> i.project, name |-> i.project, org |-> i.org])
         rest == OnboardMember(w.db, i)
  <2>1. Served(c) = Provided(w, rest)
    BY <1>0, <1>3, <1>R DEF TenancyRests, OnboardProject
  <2>2. ASSUME NEW k, w.out = "ok", GoneOn(c, k, "member", None) PROVE Rests(rest, w.db, k)
    <3>1. TenancyRests(rest, w.db, k)
      BY <1>0, <2>2 DEF GoneOn, TenancyRests, in
    <3> QED
      BY <1>0, <2>2, <3>1, RestsOf DEF GoneOn
  <2> HIDE DEF w, rest
  <2>3. Write(c, w, "member", None)
    BY <1>0, <1>3 DEF w, createBetaOnboarding, At, in, loc
  <2> QED
    BY <2>1, <2>2, <2>3, WriteTwins
<1>4. CASE call[c].pc = "member"
  <2> DEFINE w == Pg!createProjectMembership(db, i.project, i.user, "owner")
         rest == OnboardMemberAudit(w.db, i)
  <2>1. Served(c) = Provided(w, rest)
    BY <1>0, <1>4, <1>R DEF TenancyRests, OnboardMember
  <2>2. ASSUME NEW k, w.out = "ok", GoneOn(c, k, "memberAudit", None) PROVE Rests(rest, w.db, k)
    <3>1. TenancyRests(rest, w.db, k)
      BY <1>0, <2>2 DEF GoneOn, TenancyRests, in
    <3> QED
      BY <1>0, <2>2, <3>1, RestsOf DEF GoneOn
  <2> HIDE DEF w, rest
  <2>3. Write(c, w, "memberAudit", None)
    BY <1>0, <1>4 DEF w, createBetaOnboarding, At, in, loc
  <2> QED
    BY <2>1, <2>2, <2>3, WriteTwins
<1>5. CASE call[c].pc = "memberAudit"
  <2> DEFINE w == recordCustomerAuditEvent(db, "project_member.added", i.user, i.org, i.project)
         rest == OnboardKey(w.db, i)
  <2>1. Served(c) = Provided(w, rest)
    BY <1>0, <1>5, <1>R DEF TenancyRests, OnboardMemberAudit
  <2>2. ASSUME NEW k, w.out = "ok", GoneOn(c, k, "key", None) PROVE Rests(rest, w.db, k)
    <3>1. TenancyRests(rest, w.db, k)
      BY <1>0, <2>2 DEF GoneOn, TenancyRests, in
    <3> QED
      BY <1>0, <2>2, <3>1, RestsOf DEF GoneOn
  <2> HIDE DEF w, rest
  <2>3. Write(c, w, "key", None)
    BY <1>0, <1>5 DEF w, createBetaOnboarding, At, in, loc
  <2> QED
    BY <2>1, <2>2, <2>3, WriteTwins
<1>6. CASE call[c].pc = "key"
  <2> DEFINE w == Pg!createApiKey(db, i.key, i.org, i.project)
         rest == recordCustomerAuditEvent(w.db, "api_key.created", i.key, i.org, i.project)
  <2>1. Served(c) = Provided(w, rest)
    BY <1>0, <1>6, <1>R DEF TenancyRests, OnboardKey, KeyIssued
  <2>2. ASSUME NEW k, w.out = "ok", GoneOn(c, k, "keyAudit", None) PROVE Rests(rest, w.db, k)
    <3>1. TenancyRests(rest, w.db, k)
      BY <1>0, <2>2 DEF GoneOn, TenancyRests, in
    <3> QED
      BY <1>0, <2>2, <3>1, RestsOf DEF GoneOn
  <2> HIDE DEF w, rest
  <2>3. Write(c, w, "keyAudit", None)
    BY <1>0, <1>6 DEF w, createBetaOnboarding, At, in, loc
  <2> QED
    BY <2>1, <2>2, <2>3, WriteTwins
<1>7. CASE call[c].pc = "keyAudit"
  <2>1. Served(c) = recordCustomerAuditEvent(db, "api_key.created", i.key, i.org, i.project)
    BY <1>0, <1>7, <1>R DEF TenancyRests
  <2>2. Finish(c, recordCustomerAuditEvent(db, "api_key.created", i.key, i.org, i.project))
    BY <1>0, <1>7 DEF createBetaOnboarding, At, in, loc
  <2> QED
    BY <2>1, <2>2, FinishTwins
<1> QED
  BY <1>0, <1>1, <1>2, <1>3, <1>4, <1>5, <1>6, <1>7 DEF createBetaOnboarding, At

-----------------------------------------------------------------------------
(* Every step of an operation is a step of its twin: resources.            *)

\* createArtifact() counts what the project has and inserts.
LEMMA createArtifactTwins == ASSUME NEW c, Serving(c), createArtifact(c) PROVE Twins(c)
<1> DEFINE i == in(c)
<1>0. /\ i = call[c].req /\ i.op = "createArtifact" /\ i.op \in RoutingOps
      /\ Sync!Serve(db, i) = Sync!createArtifact(db, i)
  <2>1. i = call[c].req /\ i.op = "createArtifact"
    BY DEF in, createArtifact, createWithinQuota, At
  <2> QED
    BY <2>1, ServesMethods DEF RoutingOps
<1>R. call[c].pc # "start" => RoutingRests(Served(c), db, call[c])
  BY <1>0, ServingFrom, RestsOf
<1>1. CASE call[c].pc = "start"
  <2> DEFINE check == Provided(QuotaOf(db, i, "artifacts"), Require(db, enforceArtifactAdmissionPolicy(ArtifactOf(i)), "validation"))
         rest == Pg!createArtifact(db, i.id, ArtifactOf(i))
  <2>1. Served(c) = Provided(check, rest)
    <3>1. Sync!createArtifact(db, i) =
            Provided(QuotaOf(db, i, "artifacts"),
            Provided(Require(db, enforceArtifactAdmissionPolicy(ArtifactOf(i)), "validation"), Pg!createArtifact(db, i.id, ArtifactOf(i))))
      BY createArtifactServed, ServingFrom
    <3> QED
      BY <1>0, <1>1, <3>1, ServingFrom DEF Provided
  <2>2. IsResult(check) /\ check.db = db
    BY DEF Provided, Require, Ok, Fail, IsResult, QuotaOf, Found, enforceProjectQuota, requireProject
  <2>3. check = Then(requireProject(i.project), LAMBDA e :
             Then(enforceProjectQuota(e, i.project, "artifacts"), LAMBDA f : Require(f, enforceArtifactAdmissionPolicy(ArtifactOf(i)), "validation")))
    BY DEF Then, Provided, Require, Ok, Fail, QuotaOf, Found, enforceProjectQuota, requireProject, ArtifactOf
  <2>4. ASSUME NEW k, check.out = "ok", GoneOn(c, k, "write", None) PROVE Rests(rest, db, k)
    <3>1. RoutingRests(rest, db, k)
      BY <1>0, <2>4 DEF GoneOn, RoutingRests, in
    <3> QED
      BY <1>0, <2>4, <3>1, RestsOf DEF GoneOn
  <2> HIDE DEF check, rest
  <2>5. Check(c, check, "write", None)
    BY <1>0, <1>1, <2>3 DEF createArtifact, createWithinQuota, At, in, loc, ArtifactOf
  <2> QED
    BY <2>1, <2>2, <2>4, <2>5, CheckTwins
<1>2. CASE call[c].pc = "write"
  <2>1. Served(c) = Pg!createArtifact(db, i.id, ArtifactOf(i))
    BY <1>0, <1>2, <1>R DEF RoutingRests
  <2>2. Finish(c, Pg!createArtifact(db, i.id, ArtifactOf(i)))
    BY <1>0, <1>2 DEF createArtifact, createWithinQuota, At, in, loc, ArtifactOf
  <2> QED
    BY <2>1, <2>2, FinishTwins
<1> QED
  BY <1>0, <1>1, <1>2 DEF createArtifact, createWithinQuota, At

\* createSecret() counts what the project has and inserts.
LEMMA createSecretTwins == ASSUME NEW c, Serving(c), createSecret(c) PROVE Twins(c)
<1> DEFINE i == in(c)
<1>0. /\ i = call[c].req /\ i.op = "createSecret" /\ i.op \in RoutingOps
      /\ Sync!Serve(db, i) = Sync!createSecret(db, i)
  <2>1. i = call[c].req /\ i.op = "createSecret"
    BY DEF in, createSecret, createWithinQuota, At
  <2> QED
    BY <2>1, ServesMethods DEF RoutingOps
<1>R. call[c].pc # "start" => RoutingRests(Served(c), db, call[c])
  BY <1>0, ServingFrom, RestsOf
<1>1. CASE call[c].pc = "start"
  <2> DEFINE check == QuotaOf(db, i, "secrets")
         rest == Pg!createSecret(db, i)
  <2>1. Served(c) = Provided(check, rest)
    <3>1. Sync!createSecret(db, i) =
            Provided(QuotaOf(db, i, "secrets"), Pg!createSecret(db, i))
      BY SecretsServed, ServingFrom
    <3> QED
      BY <1>0, <1>1, <3>1, ServingFrom DEF Provided
  <2>2. IsResult(check) /\ check.db = db
    BY DEF Provided, Require, Ok, Fail, IsResult, QuotaOf, Found, enforceProjectQuota, requireProject
  <2>3. check = Then(requireProject(i.project), LAMBDA e :
             Then(enforceProjectQuota(e, i.project, "secrets"), LAMBDA f : Require(f, TRUE, "validation")))
    BY DEF Then, Provided, Require, Ok, Fail, QuotaOf, Found, enforceProjectQuota, requireProject
  <2>4. ASSUME NEW k, check.out = "ok", GoneOn(c, k, "write", None) PROVE Rests(rest, db, k)
    <3>1. RoutingRests(rest, db, k)
      BY <1>0, <2>4 DEF GoneOn, RoutingRests, in
    <3> QED
      BY <1>0, <2>4, <3>1, RestsOf DEF GoneOn
  <2> HIDE DEF check, rest
  <2>5. Check(c, check, "write", None)
    BY <1>0, <1>1, <2>3 DEF createSecret, createWithinQuota, At, in, loc
  <2> QED
    BY <2>1, <2>2, <2>4, <2>5, CheckTwins
<1>2. CASE call[c].pc = "write"
  <2>1. Served(c) = Pg!createSecret(db, i)
    BY <1>0, <1>2, <1>R DEF RoutingRests
  <2>2. Finish(c, Pg!createSecret(db, i))
    BY <1>0, <1>2 DEF createSecret, createWithinQuota, At, in, loc
  <2> QED
    BY <2>1, <2>2, FinishTwins
<1> QED
  BY <1>0, <1>1, <1>2 DEF createSecret, createWithinQuota, At

\* updateSecretValue() finds the row and changes it.
LEMMA updateSecretValueTwins == ASSUME NEW c, Serving(c), updateSecretValue(c) PROVE Twins(c)
<1> DEFINE i == in(c)
<1>0. /\ i = call[c].req /\ i.op = "updateSecretValue" /\ i.op \in RoutingOps
      /\ Sync!Serve(db, i) = Sync!updateSecretValue(db, i)
  <2>1. i = call[c].req /\ i.op = "updateSecretValue"
    BY DEF in, updateSecretValue, changeExisting, At
  <2> QED
    BY <2>1, ServesMethods DEF RoutingOps
<1>R. call[c].pc # "start" => RoutingRests(Served(c), db, call[c])
  BY <1>0, ServingFrom, RestsOf
<1>1. CASE call[c].pc = "start"
  <2> DEFINE check == Found(db, "secrets", i.id)
         rest == Pg!updateSecretValue(db, i.id, i.value)
  <2>1. Served(c) = Provided(check, rest)
    <3>1. Sync!updateSecretValue(db, i) =
            Provided(Found(db, "secrets", i.id), Pg!updateSecretValue(db, i.id, i.value))
      BY SecretsServed, ServingFrom
    <3> QED
      BY <1>0, <1>1, <3>1, ServingFrom DEF Provided
  <2>2. IsResult(check) /\ check.db = db
    BY DEF Provided, Require, Ok, Fail, IsResult, Found
  <2>3. ASSUME NEW k, check.out = "ok", GoneOn(c, k, "write", None) PROVE Rests(rest, db, k)
    <3>1. RoutingRests(rest, db, k)
      BY <1>0, <2>3 DEF GoneOn, RoutingRests, in
    <3> QED
      BY <1>0, <2>3, <3>1, RestsOf DEF GoneOn
  <2> HIDE DEF check, rest
  <2>4. Check(c, check, "write", None)
    BY <1>0, <1>1 DEF check, updateSecretValue, changeExisting, At, in, loc, Found
  <2> QED
    BY <2>1, <2>2, <2>3, <2>4, CheckTwins
<1>2. CASE call[c].pc = "write"
  <2>1. Served(c) = Pg!updateSecretValue(db, i.id, i.value)
    BY <1>0, <1>2, <1>R DEF RoutingRests
  <2>2. Finish(c, Pg!updateSecretValue(db, i.id, i.value))
    BY <1>0, <1>2 DEF updateSecretValue, changeExisting, At, in, loc
  <2> QED
    BY <2>1, <2>2, FinishTwins
<1> QED
  BY <1>0, <1>1, <1>2 DEF updateSecretValue, changeExisting, At

\* deleteSecret() finds the row and changes it.
LEMMA deleteSecretTwins == ASSUME NEW c, Serving(c), deleteSecret(c) PROVE Twins(c)
<1> DEFINE i == in(c)
<1>0. /\ i = call[c].req /\ i.op = "deleteSecret" /\ i.op \in RoutingOps
      /\ Sync!Serve(db, i) = Sync!deleteSecret(db, i)
  <2>1. i = call[c].req /\ i.op = "deleteSecret"
    BY DEF in, deleteSecret, changeExisting, At
  <2> QED
    BY <2>1, ServesMethods DEF RoutingOps
<1>R. call[c].pc # "start" => RoutingRests(Served(c), db, call[c])
  BY <1>0, ServingFrom, RestsOf
<1>1. CASE call[c].pc = "start"
  <2> DEFINE check == Found(db, "secrets", i.id)
         rest == Pg!deleteSecret(db, i.id)
  <2>1. Served(c) = Provided(check, rest)
    <3>1. Sync!deleteSecret(db, i) =
            Provided(Found(db, "secrets", i.id), Pg!deleteSecret(db, i.id))
      BY SecretsServed, ServingFrom
    <3> QED
      BY <1>0, <1>1, <3>1, ServingFrom DEF Provided
  <2>2. IsResult(check) /\ check.db = db
    BY DEF Provided, Require, Ok, Fail, IsResult, Found
  <2>3. ASSUME NEW k, check.out = "ok", GoneOn(c, k, "write", None) PROVE Rests(rest, db, k)
    <3>1. RoutingRests(rest, db, k)
      BY <1>0, <2>3 DEF GoneOn, RoutingRests, in
    <3> QED
      BY <1>0, <2>3, <3>1, RestsOf DEF GoneOn
  <2> HIDE DEF check, rest
  <2>4. Check(c, check, "write", None)
    BY <1>0, <1>1 DEF check, deleteSecret, changeExisting, At, in, loc, Found
  <2> QED
    BY <2>1, <2>2, <2>3, <2>4, CheckTwins
<1>2. CASE call[c].pc = "write"
  <2>1. Served(c) = Pg!deleteSecret(db, i.id)
    BY <1>0, <1>2, <1>R DEF RoutingRests
  <2>2. Finish(c, Pg!deleteSecret(db, i.id))
    BY <1>0, <1>2 DEF deleteSecret, changeExisting, At, in, loc
  <2> QED
    BY <2>1, <2>2, FinishTwins
<1> QED
  BY <1>0, <1>1, <1>2 DEF deleteSecret, changeExisting, At

\* createKvNamespace() counts what the project has and inserts.
LEMMA createKvNamespaceTwins == ASSUME NEW c, Serving(c), createKvNamespace(c) PROVE Twins(c)
<1> DEFINE i == in(c)
<1>0. /\ i = call[c].req /\ i.op = "createKvNamespace" /\ i.op \in RoutingOps
      /\ Sync!Serve(db, i) = Sync!createKvNamespace(db, i)
  <2>1. i = call[c].req /\ i.op = "createKvNamespace"
    BY DEF in, createKvNamespace, createWithinQuota, At
  <2> QED
    BY <2>1, ServesMethods DEF RoutingOps
<1>R. call[c].pc # "start" => RoutingRests(Served(c), db, call[c])
  BY <1>0, ServingFrom, RestsOf
<1>1. CASE call[c].pc = "start"
  <2> DEFINE check == QuotaOf(db, i, "kvNamespaces")
         rest == Pg!createKvNamespace(db, i)
  <2>1. Served(c) = Provided(check, rest)
    <3>1. Sync!createKvNamespace(db, i) =
            Provided(QuotaOf(db, i, "kvNamespaces"), Pg!createKvNamespace(db, i))
      BY NamespacesServed, ServingFrom
    <3> QED
      BY <1>0, <1>1, <3>1, ServingFrom DEF Provided
  <2>2. IsResult(check) /\ check.db = db
    BY DEF Provided, Require, Ok, Fail, IsResult, QuotaOf, Found, enforceProjectQuota, requireProject
  <2>3. check = Then(requireProject(i.project), LAMBDA e :
             Then(enforceProjectQuota(e, i.project, "kvNamespaces"), LAMBDA f : Require(f, TRUE, "validation")))
    BY DEF Then, Provided, Require, Ok, Fail, QuotaOf, Found, enforceProjectQuota, requireProject
  <2>4. ASSUME NEW k, check.out = "ok", GoneOn(c, k, "write", None) PROVE Rests(rest, db, k)
    <3>1. RoutingRests(rest, db, k)
      BY <1>0, <2>4 DEF GoneOn, RoutingRests, in
    <3> QED
      BY <1>0, <2>4, <3>1, RestsOf DEF GoneOn
  <2> HIDE DEF check, rest
  <2>5. Check(c, check, "write", None)
    BY <1>0, <1>1, <2>3 DEF createKvNamespace, createWithinQuota, At, in, loc
  <2> QED
    BY <2>1, <2>2, <2>4, <2>5, CheckTwins
<1>2. CASE call[c].pc = "write"
  <2>1. Served(c) = Pg!createKvNamespace(db, i)
    BY <1>0, <1>2, <1>R DEF RoutingRests
  <2>2. Finish(c, Pg!createKvNamespace(db, i))
    BY <1>0, <1>2 DEF createKvNamespace, createWithinQuota, At, in, loc
  <2> QED
    BY <2>1, <2>2, FinishTwins
<1> QED
  BY <1>0, <1>1, <1>2 DEF createKvNamespace, createWithinQuota, At

\* deleteKvNamespace() finds the row and changes it.
LEMMA deleteKvNamespaceTwins == ASSUME NEW c, Serving(c), deleteKvNamespace(c) PROVE Twins(c)
<1> DEFINE i == in(c)
<1>0. /\ i = call[c].req /\ i.op = "deleteKvNamespace" /\ i.op \in RoutingOps
      /\ Sync!Serve(db, i) = Sync!deleteKvNamespace(db, i)
  <2>1. i = call[c].req /\ i.op = "deleteKvNamespace"
    BY DEF in, deleteKvNamespace, changeExisting, At
  <2> QED
    BY <2>1, ServesMethods DEF RoutingOps
<1>R. call[c].pc # "start" => RoutingRests(Served(c), db, call[c])
  BY <1>0, ServingFrom, RestsOf
<1>1. CASE call[c].pc = "start"
  <2> DEFINE check == Found(db, "kvNamespaces", i.id)
         rest == Pg!deleteKvNamespace(db, i.id)
  <2>1. Served(c) = Provided(check, rest)
    <3>1. Sync!deleteKvNamespace(db, i) =
            Provided(Found(db, "kvNamespaces", i.id), Pg!deleteKvNamespace(db, i.id))
      BY NamespacesServed, ServingFrom
    <3> QED
      BY <1>0, <1>1, <3>1, ServingFrom DEF Provided
  <2>2. IsResult(check) /\ check.db = db
    BY DEF Provided, Require, Ok, Fail, IsResult, Found
  <2>3. ASSUME NEW k, check.out = "ok", GoneOn(c, k, "write", None) PROVE Rests(rest, db, k)
    <3>1. RoutingRests(rest, db, k)
      BY <1>0, <2>3 DEF GoneOn, RoutingRests, in
    <3> QED
      BY <1>0, <2>3, <3>1, RestsOf DEF GoneOn
  <2> HIDE DEF check, rest
  <2>4. Check(c, check, "write", None)
    BY <1>0, <1>1 DEF check, deleteKvNamespace, changeExisting, At, in, loc, Found
  <2> QED
    BY <2>1, <2>2, <2>3, <2>4, CheckTwins
<1>2. CASE call[c].pc = "write"
  <2>1. Served(c) = Pg!deleteKvNamespace(db, i.id)
    BY <1>0, <1>2, <1>R DEF RoutingRests
  <2>2. Finish(c, Pg!deleteKvNamespace(db, i.id))
    BY <1>0, <1>2 DEF deleteKvNamespace, changeExisting, At, in, loc
  <2> QED
    BY <2>1, <2>2, FinishTwins
<1> QED
  BY <1>0, <1>1, <1>2 DEF deleteKvNamespace, changeExisting, At

\* createDurableObjectNamespace() counts what the project has and inserts.
LEMMA createDurableObjectNamespaceTwins == ASSUME NEW c, Serving(c), createDurableObjectNamespace(c) PROVE Twins(c)
<1> DEFINE i == in(c)
<1>0. /\ i = call[c].req /\ i.op = "createDurableObjectNamespace" /\ i.op \in RoutingOps
      /\ Sync!Serve(db, i) = Sync!createDurableObjectNamespace(db, i)
  <2>1. i = call[c].req /\ i.op = "createDurableObjectNamespace"
    BY DEF in, createDurableObjectNamespace, createWithinQuota, At
  <2> QED
    BY <2>1, ServesMethods DEF RoutingOps
<1>R. call[c].pc # "start" => RoutingRests(Served(c), db, call[c])
  BY <1>0, ServingFrom, RestsOf
<1>1. CASE call[c].pc = "start"
  <2> DEFINE check == QuotaOf(db, i, "doNamespaces")
         rest == Pg!createDurableObjectNamespace(db, i)
  <2>1. Served(c) = Provided(check, rest)
    <3>1. Sync!createDurableObjectNamespace(db, i) =
            Provided(QuotaOf(db, i, "doNamespaces"), Pg!createDurableObjectNamespace(db, i))
      BY ObjectNamespacesServed, ServingFrom
    <3> QED
      BY <1>0, <1>1, <3>1, ServingFrom DEF Provided
  <2>2. IsResult(check) /\ check.db = db
    BY DEF Provided, Require, Ok, Fail, IsResult, QuotaOf, Found, enforceProjectQuota, requireProject
  <2>3. check = Then(requireProject(i.project), LAMBDA e :
             Then(enforceProjectQuota(e, i.project, "doNamespaces"), LAMBDA f : Require(f, TRUE, "validation")))
    BY DEF Then, Provided, Require, Ok, Fail, QuotaOf, Found, enforceProjectQuota, requireProject
  <2>4. ASSUME NEW k, check.out = "ok", GoneOn(c, k, "write", None) PROVE Rests(rest, db, k)
    <3>1. RoutingRests(rest, db, k)
      BY <1>0, <2>4 DEF GoneOn, RoutingRests, in
    <3> QED
      BY <1>0, <2>4, <3>1, RestsOf DEF GoneOn
  <2> HIDE DEF check, rest
  <2>5. Check(c, check, "write", None)
    BY <1>0, <1>1, <2>3 DEF createDurableObjectNamespace, createWithinQuota, At, in, loc
  <2> QED
    BY <2>1, <2>2, <2>4, <2>5, CheckTwins
<1>2. CASE call[c].pc = "write"
  <2>1. Served(c) = Pg!createDurableObjectNamespace(db, i)
    BY <1>0, <1>2, <1>R DEF RoutingRests
  <2>2. Finish(c, Pg!createDurableObjectNamespace(db, i))
    BY <1>0, <1>2 DEF createDurableObjectNamespace, createWithinQuota, At, in, loc
  <2> QED
    BY <2>1, <2>2, FinishTwins
<1> QED
  BY <1>0, <1>1, <1>2 DEF createDurableObjectNamespace, createWithinQuota, At

\* deleteDurableObjectNamespace() finds the row and changes it.
LEMMA deleteDurableObjectNamespaceTwins == ASSUME NEW c, Serving(c), deleteDurableObjectNamespace(c) PROVE Twins(c)
<1> DEFINE i == in(c)
<1>0. /\ i = call[c].req /\ i.op = "deleteDurableObjectNamespace" /\ i.op \in RoutingOps
      /\ Sync!Serve(db, i) = Sync!deleteDurableObjectNamespace(db, i)
  <2>1. i = call[c].req /\ i.op = "deleteDurableObjectNamespace"
    BY DEF in, deleteDurableObjectNamespace, changeExisting, At
  <2> QED
    BY <2>1, ServesMethods DEF RoutingOps
<1>R. call[c].pc # "start" => RoutingRests(Served(c), db, call[c])
  BY <1>0, ServingFrom, RestsOf
<1>1. CASE call[c].pc = "start"
  <2> DEFINE check == Found(db, "doNamespaces", i.id)
         rest == Pg!deleteDurableObjectNamespace(db, i.id)
  <2>1. Served(c) = Provided(check, rest)
    <3>1. Sync!deleteDurableObjectNamespace(db, i) =
            Provided(Found(db, "doNamespaces", i.id), Pg!deleteDurableObjectNamespace(db, i.id))
      BY ObjectNamespacesServed, ServingFrom
    <3> QED
      BY <1>0, <1>1, <3>1, ServingFrom DEF Provided
  <2>2. IsResult(check) /\ check.db = db
    BY DEF Provided, Require, Ok, Fail, IsResult, Found
  <2>3. ASSUME NEW k, check.out = "ok", GoneOn(c, k, "write", None) PROVE Rests(rest, db, k)
    <3>1. RoutingRests(rest, db, k)
      BY <1>0, <2>3 DEF GoneOn, RoutingRests, in
    <3> QED
      BY <1>0, <2>3, <3>1, RestsOf DEF GoneOn
  <2> HIDE DEF check, rest
  <2>4. Check(c, check, "write", None)
    BY <1>0, <1>1 DEF check, deleteDurableObjectNamespace, changeExisting, At, in, loc, Found
  <2> QED
    BY <2>1, <2>2, <2>3, <2>4, CheckTwins
<1>2. CASE call[c].pc = "write"
  <2>1. Served(c) = Pg!deleteDurableObjectNamespace(db, i.id)
    BY <1>0, <1>2, <1>R DEF RoutingRests
  <2>2. Finish(c, Pg!deleteDurableObjectNamespace(db, i.id))
    BY <1>0, <1>2 DEF deleteDurableObjectNamespace, changeExisting, At, in, loc
  <2> QED
    BY <2>1, <2>2, FinishTwins
<1> QED
  BY <1>0, <1>1, <1>2 DEF deleteDurableObjectNamespace, changeExisting, At

\* createDeployment() checks its bindings, await by await, and inserts.
LEMMA createDeploymentTwins == ASSUME NEW c, Serving(c), createDeployment(c) PROVE Twins(c)
<1> DEFINE i == in(c)
<1>0. /\ i = call[c].req /\ i.op = "createDeployment" /\ i.op \in RoutingOps
      /\ Sync!Serve(db, i) = Sync!createDeployment(db, i)
  <2>1. i = call[c].req /\ i.op = "createDeployment"
    BY DEF in, createDeployment, At
  <2> QED
    BY <2>1, ServesMethods DEF RoutingOps
<1>R. call[c].pc # "start" => RoutingRests(Served(c), db, call[c])
  BY <1>0, ServingFrom, RestsOf
<1>1. CASE call[c].pc = "start"
  <2> DEFINE check == Provided(QuotaOf(db, i, "deployments"), Provided(Found(db, "artifacts", i.artifact), Admitted(db, i)))
         rest == BoundToKv(db, i)
  <2>1. Served(c) = Provided(check, rest)
    <3>1. Sync!createDeployment(db, i) =
            Provided(QuotaOf(db, i, "deployments"), Provided(Found(db, "artifacts", i.artifact),
            Provided(Admitted(db, i), BoundToKv(db, i))))
      BY createDeploymentServed, ServingFrom
    <3> QED
      BY <1>0, <1>1, <3>1, ServingFrom DEF Provided
  <2>2. IsResult(check) /\ check.db = db
    BY DEF Provided, Require, Ok, Fail, IsResult, QuotaOf, Found, enforceProjectQuota, requireProject, Admitted
  <2>3. check = Then(requireProject(i.project), LAMBDA e :
             Then(enforceProjectQuota(e, i.project, "deployments"), LAMBDA f :
             Then(requireArtifact(i.artifact), LAMBDA g :
                  Require(g, /\ db.artifacts[i.artifact].project = i.project
                             /\ SignatureKeys # None => verifyArtifactSignature(db.artifacts[i.artifact])
                             /\ enforceDeploymentAdmissionPolicy(db.artifacts[i.artifact], i.world, i.capabilities),
                          "validation"))))
    BY DEF Then, Provided, Require, Ok, Fail, QuotaOf, Found, enforceProjectQuota, requireProject,
       requireArtifact, Admitted
  <2>4. ASSUME NEW k, check.out = "ok", GoneOn(c, k, "kv", None) PROVE Rests(rest, db, k)
    <3>1. RoutingRests(rest, db, k)
      BY <1>0, <2>4 DEF GoneOn, RoutingRests, in
    <3> QED
      BY <1>0, <2>4, <3>1, RestsOf DEF GoneOn
  <2> HIDE DEF check, rest
  <2>5. Check(c, check, "kv", None)
    BY <1>0, <1>1, <2>3 DEF createDeployment, At, in, loc
  <2> QED
    BY <2>1, <2>2, <2>4, <2>5, CheckTwins
<1>2. CASE call[c].pc = "kv"
  <2> DEFINE check == OwnRows(db, "kvNamespaces", i.capabilities.kv, i.project)
         rest == BoundToObjects(db, i)
  <2>1. Served(c) = Provided(check, rest)
    BY <1>0, <1>2, <1>R DEF RoutingRests, BoundToKv
  <2>2. IsResult(check) /\ check.db = db
    BY DEF Provided, Require, Ok, Fail, IsResult, OwnRows
  <2>3. ASSUME NEW k, check.out = "ok", GoneOn(c, k, "do", None) PROVE Rests(rest, db, k)
    <3>1. RoutingRests(rest, db, k)
      BY <1>0, <2>3 DEF GoneOn, RoutingRests, in
    <3> QED
      BY <1>0, <2>3, <3>1, RestsOf DEF GoneOn
  <2> HIDE DEF check, rest
  <2>4. Check(c, check, "do", None)
    BY <1>0, <1>2 DEF check, createDeployment, At, in, loc, requireDeploymentKvNamespaces, requireOwn, OwnRows
  <2> QED
    BY <2>1, <2>2, <2>3, <2>4, CheckTwins
<1>3. CASE call[c].pc = "do"
  <2> DEFINE check == OwnRows(db, "doNamespaces", i.capabilities.do, i.project)
         rest == BoundToServices(db, i)
  <2>1. Served(c) = Provided(check, rest)
    BY <1>0, <1>3, <1>R DEF RoutingRests, BoundToObjects
  <2>2. IsResult(check) /\ check.db = db
    BY DEF Provided, Require, Ok, Fail, IsResult, OwnRows
  <2>3. ASSUME NEW k, check.out = "ok", GoneOn(c, k, "secrets", None) PROVE Rests(rest, db, k)
    <3>1. RoutingRests(rest, db, k)
      BY <1>0, <2>3 DEF GoneOn, RoutingRests, in
    <3> QED
      BY <1>0, <2>3, <3>1, RestsOf DEF GoneOn
  <2> HIDE DEF check, rest
  <2>4. Check(c, check, "secrets", None)
    BY <1>0, <1>3 DEF check, createDeployment, At, in, loc, requireDeploymentDurableObjectNamespaces, requireOwn,
       OwnRows
  <2> QED
    BY <2>1, <2>2, <2>3, <2>4, CheckTwins
<1>4. CASE call[c].pc = "secrets"
  <2> DEFINE check == Provided(OwnRows(db, "secrets", i.capabilities.secrets, i.project),
                        Require(db, \A s \in i.capabilities.services : Has(db.projects, s.project), "validation"))
         rest == DeploymentMade(db, i)
  <2>1. Served(c) = Provided(check, rest)
    BY <1>0, <1>4, <1>R DEF RoutingRests, BoundToServices, Provided
  <2>2. IsResult(check) /\ check.db = db
    BY DEF Provided, Require, Ok, Fail, IsResult, OwnRows
  <2>3. check = Then(requireDeploymentSecrets(i), LAMBDA e : requireDeploymentServiceBindings(i))
    BY DEF Then, Provided, Require, Ok, Fail, requireDeploymentSecrets, requireDeploymentServiceBindings,
       requireOwn, OwnRows
  <2>4. ASSUME NEW k, check.out = "ok", GoneOn(c, k, "write", None) PROVE Rests(rest, db, k)
    <3>1. RoutingRests(rest, db, k)
      BY <1>0, <2>4 DEF GoneOn, RoutingRests, in
    <3> QED
      BY <1>0, <2>4, <3>1, RestsOf DEF GoneOn
  <2> HIDE DEF check, rest
  <2>5. Check(c, check, "write", None)
    BY <1>0, <1>4, <2>3 DEF createDeployment, At, in, loc
  <2> QED
    BY <2>1, <2>2, <2>4, <2>5, CheckTwins
<1>5. CASE call[c].pc = "write"
  <2> DEFINE w == Pg!createDeployment(db, i.id, [project |-> i.project, artifact |-> i.artifact,
                                       capabilities |-> i.capabilities])
         rest == DeploymentAudit(w.db, i)
  <2>1. Served(c) = Provided(w, rest)
    BY <1>0, <1>5, <1>R DEF RoutingRests, DeploymentMade, DeploymentAudit
  <2>2. ASSUME NEW k, w.out = "ok", GoneOn(c, k, "audit", None) PROVE Rests(rest, w.db, k)
    <3>1. RoutingRests(rest, w.db, k)
      BY <1>0, <2>2 DEF GoneOn, RoutingRests, in
    <3> QED
      BY <1>0, <2>2, <3>1, RestsOf DEF GoneOn
  <2> HIDE DEF w, rest
  <2>3. Write(c, w, "audit", None)
    BY <1>0, <1>5 DEF w, createDeployment, At, in, loc
  <2> QED
    BY <2>1, <2>2, <2>3, WriteTwins
<1>6. CASE call[c].pc = "audit"
  <2>1. Served(c) = DeploymentAudit(db, i)
    BY <1>0, <1>6, <1>R DEF RoutingRests
  <2>2. Finish(c, DeploymentAudit(db, i))
    BY <1>0, <1>6 DEF createDeployment, At, in, loc, DeploymentAudit
  <2> QED
    BY <2>1, <2>2, FinishTwins
<1> QED
  BY <1>0, <1>1, <1>2, <1>3, <1>4, <1>5, <1>6 DEF createDeployment, At
================================================================================
