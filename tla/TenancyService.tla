---------------------------- MODULE TenancyService ----------------------------
(***************************************************************************)
(* service.ts: organizations, users, projects, memberships and API keys    *)
(* of the synchronous control plane.  An operation is a function of the    *)
(* database and the request i: nothing runs between its statements, and an *)
(* error thrown half way keeps what was written before it.                 *)
(***************************************************************************)
EXTENDS ControlPlaneDb

R == INSTANCE SqliteRepository

ProjectRoles == {"owner", "developer", "viewer"}

requireOrganization(d, id) == Require(d, Has(d.organizations, id), "not_found")
requireUser(d, id) == Require(d, Has(d.users, id), "not_found")
requireProject(d, id) == Require(d, Has(d.projects, id), "not_found")
requireProjectMembership(d, p, u) == Require(d, Has(d.memberships, <<p, u>>), "not_found")
normalizeProjectRole(d, role) == Require(d, role \in ProjectRoles, "validation")

recordCustomerAuditEvent(d, action, target, org, project) ==
  Provided(Require(d, OptionalKey(d.projects, project), "not_found"),
    R!createCustomerAuditEvent(d,
      [action |-> action, target |-> target, project |-> project,
       org |-> IF org = None /\ project # None THEN d.projects[project].org ELSE org]))

createOrganization(d, i) == R!createOrganization(d, i)

updateOrganizationBilling(d, i) ==
  LET kept == d.organizations[i.org] IN
  Provided(requireOrganization(d, i.org),
    R!updateOrganizationBilling(d, i.org,
      [payment |-> IF i.payment = None THEN kept.payment ELSE i.payment,
       email |-> IF i.email = None THEN kept.email ELSE i.email]))

createUser(d, i) == R!createUser(d, i)

verifyUserEmail(d, i) ==
  Provided(requireUser(d, i.user), R!updateUserEmailVerification(d, i.user))

createProject(d, i) ==
  Provided(Require(d, OptionalKey(d.organizations, i.org), "not_found"), R!createProject(d, i))

(* The checks every membership operation starts with. *)
requireProjectAndUser(d, i) == Provided(requireProject(d, i.project), requireUser(d, i.user))

auditMember(d, i, action) ==
  recordCustomerAuditEvent(d, action, i.user, d.projects[i.project].org, i.project)

addProjectMembership(d, i) ==
  Provided(requireProjectAndUser(d, i),
  Provided(normalizeProjectRole(d, i.role),
    Then(R!createProjectMembership(d, i.project, i.user, i.role), LAMBDA e :
         auditMember(e, i, "project_member.added"))))

assertProjectKeepsOwner(d, p, u) ==
  LET current == d.memberships[<<p, u>>]
      otherOwners == {k \in DOMAIN d.memberships :
                        k[1] = p /\ k[2] # u /\ d.memberships[k].role = "owner"} IN
  Require(d, \/ current.role # "owner"
             \/ /\ otherOwners # {}
                /\ \/ current.invite # "accepted"
                   \/ \E k \in otherOwners : d.memberships[k].invite = "accepted",
          "validation")

updateProjectMembershipRole(d, i) ==
  Provided(requireProjectAndUser(d, i),
  Provided(normalizeProjectRole(d, i.role),
  Provided(requireProjectMembership(d, i.project, i.user),
  Provided(IF i.role = "owner" THEN Ok(d) ELSE assertProjectKeepsOwner(d, i.project, i.user),
    Then(R!updateProjectMembershipRole(d, i.project, i.user, i.role), LAMBDA e :
         auditMember(e, i, "project_member.role_updated"))))))

removeProjectMembership(d, i) ==
  Provided(requireProjectAndUser(d, i),
  Provided(requireProjectMembership(d, i.project, i.user),
  Provided(assertProjectKeepsOwner(d, i.project, i.user),
    Then(R!deleteProjectMembership(d, i.project, i.user), LAMBDA e :
         auditMember(e, i, "project_member.removed")))))

acceptProjectMembershipInvite(d, i) ==
  Provided(requireProjectAndUser(d, i),
    Then(R!acceptProjectMembershipInvite(d, i.project, i.user), LAMBDA e :
         auditMember(e, i, "project_member.accepted")))

productionQuotaReadinessChecks(d, org, project) ==
  LET owners == {k \in DOMAIN d.memberships :
                   /\ IF project = None THEN d.projects[k[1]].org = org ELSE k[1] = project
                   /\ d.memberships[k].role = "owner"
                   /\ d.memberships[k].invite = "accepted"} IN
  /\ d.organizations[org].payment = "active"
  /\ \E k \in owners : d.users[k[2]].verified

requestProductionQuotaIncrease(d, i) ==
  Provided(requireOrganization(d, i.org),
  Provided(Require(d, OptionalKey(d.projects, i.project), "not_found"),
  Provided(Require(d, i.project = None \/ d.projects[i.project].org = i.org, "validation"),
  Provided(Require(d, productionQuotaReadinessChecks(d, i.org, i.project), "validation"),
    R!createProductionQuotaIncrease(d, i)))))

(* The end of createApiKey: the key, then the audit event. *)
insertApiKey(d, id, org, project) ==
  Then(R!createApiKey(d, id, org, project), LAMBDA e :
       recordCustomerAuditEvent(e, "api_key.created", id, org, project))

createApiKey(d, i) ==
  LET org == IF i.org = None /\ i.project # None THEN d.projects[i.project].org ELSE i.org IN
  Provided(Require(d, OptionalKey(d.projects, i.project), "not_found"),
  Provided(Require(d, OptionalKey(d.organizations, org), "not_found"),
  Provided(Require(d, org # None \/ i.project # None, "validation"),
    insertApiKey(d, i.id, org, i.project))))

(* The audit event of a key carries the key's own organization and project. *)
auditKey(d, id, action) ==
  recordCustomerAuditEvent(d, action, id, d.apiKeys[id].org, d.apiKeys[id].project)

revokeApiKey(d, i) ==
  Then(R!revokeApiKey(d, i.id), LAMBDA e : auditKey(e, i.id, "api_key.revoked"))

rotateApiKey(d, i) ==
  Then(R!rotateApiKey(d, i.id, i.replacement), LAMBDA e : auditKey(e, i.id, "api_key.rotated"))

(* A token stands for the key it was issued with. *)
authenticateApiToken(d, i) ==
  IF Has(d.apiKeys, i.id) /\ ~d.apiKeys[i.id].revoked
  THEN R!updateApiKeyLastUsed(d, i.id) ELSE Fail(d, "unauthenticated")

(* The onboarding, from its last operation to its first. *)
onboardKey(d, i) == createApiKey(d, [id |-> i.key, org |-> None, project |-> i.project])
onboardMember(d, i) ==
  Then(addProjectMembership(d, [project |-> i.project, user |-> i.user, role |-> "owner"]), LAMBDA e :
       onboardKey(e, i))
onboardProject(d, i) ==
  Then(createProject(d, [id |-> i.project, name |-> i.project, org |-> i.org]), LAMBDA e : onboardMember(e, i))
onboardUser(d, i) ==
  Then(createUser(d, [id |-> i.user, email |-> i.user, verified |-> FALSE]), LAMBDA e : onboardProject(e, i))
createBetaOnboarding(d, i) ==
  Then(createOrganization(d, [id |-> i.org, name |-> i.org, payment |-> "payment_pending", email |-> None]), LAMBDA e :
       onboardUser(e, i))
=============================================================================
