-------------------------------- MODULE Tenancy --------------------------------
(***************************************************************************)
(* async-service.ts: organizations, users, projects, memberships and API   *)
(* keys.  One action per operation, one disjunct per await.                *)
(***************************************************************************)
EXTENDS ControlPlaneCalls

createOrganization(c) ==
  /\ At(c, "createOrganization", "start")
  /\ Finish(c, Pg!createOrganization(db, in(c)))

(* The profile written is the one read, with the fields of the request. *)
updateOrganizationBilling(c) ==
  \/ /\ At(c, "updateOrganizationBilling", "start")
     /\ Check(c, requireOrganization(in(c).org), "write",
              IF Has(db.organizations, in(c).org) THEN db.organizations[in(c).org] ELSE None)
  \/ /\ At(c, "updateOrganizationBilling", "write")
     /\ Finish(c, Pg!updateOrganizationBilling(db, in(c).org,
          [payment |-> IF in(c).payment = None THEN loc(c).payment ELSE in(c).payment,
           email |-> IF in(c).email = None THEN loc(c).email ELSE in(c).email]))

createUser(c) ==
  /\ At(c, "createUser", "start")
  /\ Finish(c, Pg!createUser(db, in(c)))

verifyUserEmail(c) ==
  \/ At(c, "verifyUserEmail", "start") /\ Check(c, requireUser(in(c).user), "write", None)
  \/ /\ At(c, "verifyUserEmail", "write")
     /\ Finish(c, Pg!updateUserEmailVerification(db, in(c).user))

createProject(c) ==
  \/ /\ At(c, "createProject", "start")
     /\ Check(c, Require(db, OptionalKey(db.organizations, in(c).org), "not_found"), "write", None)
  \/ At(c, "createProject", "write") /\ Finish(c, Pg!createProject(db, in(c)))

-----------------------------------------------------------------------------
Roles == {"owner", "developer", "viewer"}

requireProjectAndUser(i) == Then(requireProject(i.project), LAMBDA e : requireUser(i.user))

requireProjectMembership(p, u) == Require(db, Has(db.memberships, <<p, u>>), "not_found")

\* MUTANT of assertProjectKeepsOwner: the member itself is among the other owners.
assertProjectKeepsOwnerCountsItself(p, u, current) ==
  Require(db, \/ current.role # "owner"
              \/ \E k \in DOMAIN db.memberships : k[1] = p /\ db.memberships[k].role = "owner", "validation")

(* current is the membership as an earlier await returned it; the owners   *)
(* are listed anew.                                                        *)
assertProjectKeepsOwner(p, u, current) ==
  LET otherOwners == {k \in DOMAIN db.memberships :
                        k[1] = p /\ k[2] # u /\ db.memberships[k].role = "owner"} IN
  Require(db, \/ current.role # "owner"
              \/ /\ otherOwners # {}
                 /\ \/ current.invite # "accepted"
                    \/ \E k \in otherOwners : db.memberships[k].invite = "accepted",
          "validation")

auditMember(c, action) ==
  Finish(c, recordCustomerAuditEvent(db, action, in(c).user, db.projects[in(c).project].org, in(c).project))

addProjectMembership(c) ==
  \/ /\ At(c, "addProjectMembership", "start")
     /\ Check(c, Then(requireProjectAndUser(in(c)),
                      LAMBDA e : Require(e, in(c).role \in Roles, "validation")), "write", None)
  \/ /\ At(c, "addProjectMembership", "write")
     /\ Write(c, Pg!createProjectMembership(db, in(c).project, in(c).user, in(c).role), "audit", None)
  \/ At(c, "addProjectMembership", "audit") /\ auditMember(c, "project_member.added")

currentMembership(i) ==
  IF Has(db.memberships, <<i.project, i.user>>) THEN db.memberships[<<i.project, i.user>>] ELSE None

updateProjectMembershipRole(c) ==
  \/ /\ At(c, "updateProjectMembershipRole", "start")
     /\ Check(c, Then(requireProjectAndUser(in(c)), LAMBDA e :
                 Then(Require(e, in(c).role \in Roles, "validation"), LAMBDA f :
                      requireProjectMembership(in(c).project, in(c).user))),
              "owners", currentMembership(in(c)))
  \/ /\ At(c, "updateProjectMembershipRole", "owners")
     /\ Check(c, IF in(c).role = "owner" THEN Ok(db)
                 ELSE assertProjectKeepsOwner(in(c).project, in(c).user, loc(c)), "write", None)
  \/ /\ At(c, "updateProjectMembershipRole", "write")
     /\ Write(c, Pg!updateProjectMembershipRole(db, in(c).project, in(c).user, in(c).role), "audit", None)
  \/ At(c, "updateProjectMembershipRole", "audit") /\ auditMember(c, "project_member.role_updated")

removeProjectMembership(c) ==
  \/ /\ At(c, "removeProjectMembership", "start")
     /\ Check(c, Then(requireProjectAndUser(in(c)), LAMBDA e :
                      requireProjectMembership(in(c).project, in(c).user)),
              "owners", currentMembership(in(c)))
  \/ /\ At(c, "removeProjectMembership", "owners")
     /\ Check(c, assertProjectKeepsOwner(in(c).project, in(c).user, loc(c)), "write", None)
  \/ /\ At(c, "removeProjectMembership", "write")
     /\ Write(c, Pg!deleteProjectMembership(db, in(c).project, in(c).user), "audit", None)
  \/ At(c, "removeProjectMembership", "audit") /\ auditMember(c, "project_member.removed")

acceptProjectMembershipInvite(c) ==
  \/ /\ At(c, "acceptProjectMembershipInvite", "start")
     /\ Check(c, requireProjectAndUser(in(c)), "write", None)
  \/ /\ At(c, "acceptProjectMembershipInvite", "write")
     /\ Write(c, Pg!acceptProjectMembershipInvite(db, in(c).project, in(c).user), "audit", None)
  \/ At(c, "acceptProjectMembershipInvite", "audit") /\ auditMember(c, "project_member.accepted")

-----------------------------------------------------------------------------
(* payment is the status of the organization when the call read it. *)
productionQuotaReadinessChecks(org, payment, project) ==
  LET owners == {k \in DOMAIN db.memberships :
                   /\ IF project = None THEN db.projects[k[1]].org = org ELSE k[1] = project
                   /\ db.memberships[k].role = "owner"
                   /\ db.memberships[k].invite = "accepted"} IN
  payment = "active" /\ \E k \in owners : db.users[k[2]].verified

requestProductionQuotaIncrease(c) ==
  \/ /\ At(c, "requestProductionQuotaIncrease", "start")
     /\ Check(c, Then(requireOrganization(in(c).org), LAMBDA e :
                 Then(Require(e, OptionalKey(e.projects, in(c).project), "not_found"), LAMBDA f :
                      Require(f, in(c).project = None \/ f.projects[in(c).project].org = in(c).org,
                              "validation"))),
              "checks", IF Has(db.organizations, in(c).org) THEN db.organizations[in(c).org].payment ELSE None)
  \/ /\ At(c, "requestProductionQuotaIncrease", "checks")
     /\ Check(c, Require(db, productionQuotaReadinessChecks(in(c).org, loc(c), in(c).project), "validation"),
              "write", None)
  \/ /\ At(c, "requestProductionQuotaIncrease", "write")
     /\ Finish(c, Pg!createProductionQuotaIncrease(db, in(c)))

-----------------------------------------------------------------------------
apiKeyOrganization(i) ==
  IF i.org = None /\ i.project # None THEN db.projects[i.project].org ELSE i.org

createApiKey(c) ==
  \/ /\ At(c, "createApiKey", "start")
     /\ Check(c, Then(Require(db, OptionalKey(db.projects, in(c).project), "not_found"), LAMBDA e :
                 Then(Require(e, OptionalKey(e.organizations, apiKeyOrganization(in(c))), "not_found"), LAMBDA f :
                      Require(f, apiKeyOrganization(in(c)) # None \/ in(c).project # None, "validation"))),
              "write", apiKeyOrganization(in(c)))
  \/ /\ At(c, "createApiKey", "write")
     /\ Write(c, Pg!createApiKey(db, in(c).id, loc(c), in(c).project), "audit", loc(c))
  \/ /\ At(c, "createApiKey", "audit")
     /\ Finish(c, recordCustomerAuditEvent(db, "api_key.created", in(c).id, loc(c), in(c).project))

auditKey(c, action) ==
  Finish(c, recordCustomerAuditEvent(db, action, in(c).id,
                                     db.apiKeys[in(c).id].org, db.apiKeys[in(c).id].project))

revokeApiKey(c) ==
  \/ At(c, "revokeApiKey", "start") /\ Write(c, Pg!revokeApiKey(db, in(c).id), "audit", None)
  \/ At(c, "revokeApiKey", "audit") /\ auditKey(c, "api_key.revoked")

\* MUTANT of rotateApiKey: the key is read without a lock before it is replaced.
rotateApiKeyUnlocked(c) ==
  \/ /\ At(c, "rotateApiKey", "start")
     /\ Check(c, Require(db, ~db.apiKeys[in(c).id].revoked, "validation"), "replace", db.apiKeys[in(c).id])
  \/ /\ At(c, "rotateApiKey", "replace")
     /\ Finish(c, Then(Pg!createApiKey(db, in(c).replacement, loc(c).org, loc(c).project),
                       LAMBDA e : Pg!revokeApiKey(e, in(c).id)))

rotateApiKey(c) ==
  \/ /\ At(c, "rotateApiKey", "start")
     /\ Write(c, Pg!rotateApiKey(db, in(c).id, in(c).replacement), "audit", None)
  \/ At(c, "rotateApiKey", "audit") /\ auditKey(c, "api_key.rotated")

(* getApiKeyByTokenHash() reads the key, and the answer comes after a write. *)
authenticateApiToken(c) ==
  \/ /\ At(c, "authenticateApiToken", "start")
     /\ Check(c, Require(db, Has(db.apiKeys, in(c).id) /\ ~db.apiKeys[in(c).id].revoked,
                         "unauthenticated"), "use", None)
  \/ At(c, "authenticateApiToken", "use") /\ Finish(c, Pg!updateApiKeyLastUsed(db, in(c).id))

-----------------------------------------------------------------------------
(* Five operations after one another, none of them undone when a later one *)
(* throws.                                                                 *)
createBetaOnboarding(c) ==
  LET i == in(c) IN
  \/ /\ At(c, "createBetaOnboarding", "start")
     /\ Write(c, Pg!createOrganization(db, [id |-> i.org, name |-> i.org,
                                            payment |-> "payment_pending", email |-> None]), "user", None)
  \/ /\ At(c, "createBetaOnboarding", "user")
     /\ Write(c, Pg!createUser(db, [id |-> i.user, email |-> i.user, verified |-> FALSE]), "project", None)
  \/ /\ At(c, "createBetaOnboarding", "project")
     /\ Write(c, Pg!createProject(db, [id |-> i.project, name |-> i.project, org |-> i.org]), "member", None)
  \/ /\ At(c, "createBetaOnboarding", "member")
     /\ Write(c, Pg!createProjectMembership(db, i.project, i.user, "owner"), "memberAudit", None)
  \/ /\ At(c, "createBetaOnboarding", "memberAudit")
     /\ Write(c, recordCustomerAuditEvent(db, "project_member.added", i.user, i.org, i.project), "key", None)
  \/ /\ At(c, "createBetaOnboarding", "key")
     /\ Write(c, Pg!createApiKey(db, i.key, i.org, i.project), "keyAudit", None)
  \/ /\ At(c, "createBetaOnboarding", "keyAudit")
     /\ Finish(c, recordCustomerAuditEvent(db, "api_key.created", i.key, i.org, i.project))

TenancyNext(c) ==
  \/ createOrganization(c) \/ updateOrganizationBilling(c) \/ createUser(c) \/ verifyUserEmail(c)
  \/ createProject(c) \/ addProjectMembership(c) \/ updateProjectMembershipRole(c)
  \/ removeProjectMembership(c) \/ acceptProjectMembershipInvite(c)
  \/ requestProductionQuotaIncrease(c) \/ createApiKey(c) \/ revokeApiKey(c) \/ rotateApiKey(c)
  \/ authenticateApiToken(c) \/ createBetaOnboarding(c)
=============================================================================
