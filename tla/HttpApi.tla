------------------------------- MODULE HttpApi -------------------------------
(***************************************************************************)
(* The HTTP server of the control plane (http/app.ts): authorization,      *)
(* dispatch, the audit hook and the upload of artifacts.  Requests run     *)
(* concurrently, each from one await to the next; a client may go away at  *)
(* any time.  What an operation does to the database is the subject of     *)
(* ControlPlane; here it succeeds or throws.                               *)
(***************************************************************************)
EXTENDS HttpRoutes, TLC

CONSTANTS Clients,       \* the connections, one request each
          ApiWorkloads,  \* configuration and requests of a run
          Millis         \* Date.now() of an upload

(* The secrets of the database keys are generated: none of them is a token *)
(* that the operator configured, or that of the webhook.                   *)
ASSUME TokensAssumption ==
  \A w \in ApiWorkloads : /\ DOMAIN w.config.tokens \intersect DOMAIN w.config.keys = {}
                          /\ w.config.webhook \notin DOMAIN w.config.keys

VARIABLES api,        \* the configuration: static tokens, sink, artifact store and validator
          conns,      \* the request of each connection and how far it is
          revoked,    \* the database API keys that are revoked
          auditLog,   \* what the audit sink recorded
          ran,        \* the operations that ran, and by which right
          files,      \* the digests the artifact store holds
          temps,      \* temporary files of uploads
          artifacts   \* the registered artifacts, <<project, digest>>

apiVars == <<api, conns, revoked, auditLog, ran, files, temps, artifacts>>

NoRequest == [method |-> "GET", path |-> <<>>, body |-> "json", token |-> "none", project |-> "none", digest |-> "none"]
NewConn(r) == [req |-> r, pc |-> IF r = NoRequest THEN "done" ELSE "new", scopes |-> {}, hook |-> FALSE, gone |-> FALSE,
               stale |-> FALSE, status |-> 0, at |-> 0, flaked |-> FALSE]

ApiInit ==
  \E w \in ApiWorkloads :
    /\ api = w.config
    /\ conns = [c \in Clients |-> NewConn(IF c \in DOMAIN w.requests THEN w.requests[c] ELSE NoRequest)]
    /\ revoked = {} /\ auditLog = {} /\ ran = {} /\ files = {} /\ temps = {} /\ artifacts = {}

-----------------------------------------------------------------------------
(* authorization *)

(* A token is the string a client presents; the configured ones have their *)
(* scopes in api.tokens, the keys of the database theirs in api.keys.      *)
configuredApiTokens == DOMAIN api.tokens

tokenAllows(scopes, requiredScope) == "*" \in scopes \/ requiredScope \in scopes

bodyHasMode(body, mode) == body = mode

\* MUTANT of requiredScopeFor: deleting a release is an ordinary write.
requiredScopeForWrites(r) ==
  CASE Is(r, "POST", <<"edge-workers", "releases">>) /\ bodyHasMode(r.body, "api") -> "publish"
    [] Is(r, "POST", <<"edge-workers", "releases", "operations", "deliver">>) -> "publish"
    [] r.method = "GET" -> "read"
    [] OTHER -> "write"

requiredScopeFor(r) ==
  CASE Is(r, "POST", <<"edge-workers", "releases">>) /\ bodyHasMode(r.body, "api") -> "publish"
    [] On(r, {"DELETE"}, <<"edge-workers", "releases", ":">>) -> "publish"
    [] Is(r, "POST", <<"edge-workers", "releases", "operations", "deliver">>) -> "publish"
    [] \/ Is(r, "POST", <<"snapshots", "routes", "publish">>)
       \/ Is(r, "PUT", <<"replication", "snapshots", "routes">>) -> "publish"
    [] r.method = "GET" -> "read"
    [] OTHER -> "write"

authorizeAlarmDemoWebhook(r) == api.webhook # "none" /\ r.token = api.webhook

IsWebhook(r) == Is(r, "POST", <<"alarm-demo", "webhook">>)
IsPublic(r) == Is(r, "GET", <<"healthz">>) \/ IsWebhook(r) \/ localArtifactMatch(r)

-----------------------------------------------------------------------------
(* the steps of a request *)

Move(c, pc) == conns' = [conns EXCEPT ![c].pc = pc]
Respond(c, status) == conns' = [conns EXCEPT ![c].pc = "ending", ![c].status = status]
At(c, pc) == conns[c].pc = pc
Req(c) == conns[c].req

Run(c, op, scopes) ==
  ran' = ran \union {[client |-> c, op |-> op, body |-> Req(c).body, scopes |-> scopes, stale |-> conns[c].stale]}

Begin(c) ==
  /\ At(c, "new")
  /\ conns' = [conns EXCEPT
       ![c].stale = Req(c).token \in revoked,
       ![c].pc = IF IsPublic(Req(c)) THEN "public"
                 ELSE IF Is(Req(c), "POST", <<"edge-workers", "releases">>) THEN "body" ELSE "authorize"]
  /\ UNCHANGED <<api, revoked, auditLog, ran, files, temps, artifacts>>

(* Before any authorization: liveness, the webhook with a token of its own *)
(* and the artifacts, which everyone may read by their digest.             *)
ServePublic(c) ==
  /\ At(c, "public")
  /\ \/ Is(Req(c), "GET", <<"healthz">>) /\ Respond(c, 200) /\ UNCHANGED ran
     \/ /\ IsWebhook(Req(c))
        /\ IF authorizeAlarmDemoWebhook(Req(c))
           THEN Run(c, "handleAlarmDemoWebhook", {"webhook"}) /\ \E s \in {200, 400} : Respond(c, s)
           ELSE Respond(c, 401) /\ UNCHANGED ran
     \/ /\ localArtifactMatch(Req(c))
        /\ Respond(c, IF api.store # "file" THEN 400
                      ELSE IF Req(c).path[3] \in files THEN 200 ELSE 404)
        /\ UNCHANGED ran
  /\ UNCHANGED <<api, revoked, auditLog, files, temps, artifacts>>

(* A body that is no JSON, or whose client went away, is an internal error. *)
Readable(c) == Req(c).body # "broken" /\ ~conns[c].gone

(* The body of a release is read first: the scope depends on it. *)
ReadBody(c) ==
  /\ At(c, "body")
  /\ IF Readable(c) THEN Move(c, "authorize") ELSE Respond(c, 500)
  /\ UNCHANGED <<api, revoked, auditLog, ran, files, temps, artifacts>>

\* MUTANT of installAuditHook: what only publishes is not audited.
installAuditHookWritesOnly(c, byToken) ==
  api.sink /\ byToken /\ Req(c).method # "GET" /\ requiredScopeFor(Req(c)) = "write"

installAuditHook(c, byToken) == api.sink /\ byToken /\ Req(c).method # "GET"

Admit(c, scopes, byToken) ==
  IF tokenAllows(scopes, requiredScopeFor(Req(c)))
  THEN conns' = [conns EXCEPT ![c].pc = "dispatch", ![c].scopes = scopes, ![c].hook = installAuditHook(c, byToken)]
  ELSE Respond(c, 403)

authenticateDbApiToken(c) == Req(c).token \in DOMAIN api.keys /\ Req(c).token \notin revoked

authorizeRequest(c) ==
  /\ At(c, "authorize")
  /\ LET token == Req(c).token IN
     IF configuredApiTokens = {} THEN Admit(c, {"*"}, FALSE)
     ELSE IF token \in configuredApiTokens THEN Admit(c, api.tokens[token], TRUE)
     ELSE IF authenticateDbApiToken(c) THEN Move(c, "used")
     ELSE Respond(c, 401)
  /\ UNCHANGED <<api, revoked, auditLog, ran, files, temps, artifacts>>

(* The key was read; its last use is written before the scopes are looked at. *)
RecordUse(c) ==
  /\ At(c, "used")
  /\ Admit(c, api.keys[Req(c).token], TRUE)
  /\ UNCHANGED <<api, revoked, auditLog, ran, files, temps, artifacts>>

-----------------------------------------------------------------------------
NoBody == {"revokeApiKey", "verifyUserEmail", "acceptProjectMembershipInvite", "publishCurrentRouteSnapshot"}

(* The handlers that parse a JSON body (the forms of /admin are not JSON). *)
ReadsJson(r) ==
  /\ r.method \in {"POST", "PUT", "PATCH"}
  /\ r.path[1] # "admin"
  /\ Dispatch(r).op \notin NoBody \union {"none"}

(* An operation runs to its end, or throws a ControlPlaneError. *)
Handle(c) ==
  LET h == Dispatch(Req(c)) IN
  /\ At(c, "dispatch")
  /\ h.op # "uploadArtifact"
  /\ \/ /\ h.op # "none"
        /\ ReadsJson(Req(c)) => Readable(c)
        /\ Run(c, h.op, conns[c].scopes)
        /\ \/ /\ Respond(c, h.status)
              /\ revoked' = IF h.op = "revokeApiKey" THEN revoked \union ({Req(c).path[2]} \intersect DOMAIN api.keys)
                            ELSE revoked
           \/ Respond(c, 400) /\ UNCHANGED revoked
     \/ ReadsJson(Req(c)) /\ ~Readable(c) /\ Respond(c, 500) /\ UNCHANGED <<ran, revoked>>
     \/ h.op = "none" /\ Respond(c, 404) /\ UNCHANGED <<ran, revoked>>
  /\ UNCHANGED <<api, auditLog, files, temps, artifacts>>

-----------------------------------------------------------------------------
(* POST /artifacts/local.  The digest is the artifact's content; here it   *)
(* is the id of the request's project and content.                         *)
Project(c) == Req(c).project
Digest(c) == Req(c).digest

decodeLocalArtifactBytes(c) == Digest(c) # "empty"

Upload(c) ==
  /\ At(c, "dispatch")
  /\ Dispatch(Req(c)).op = "uploadArtifact"
  /\ IF api.store = "none" THEN Respond(c, 400) /\ UNCHANGED ran
     ELSE IF ~Readable(c) THEN Respond(c, 500) /\ UNCHANGED ran
     ELSE IF ~decodeLocalArtifactBytes(c) THEN Respond(c, 400) /\ UNCHANGED ran
     ELSE /\ Run(c, "uploadArtifact", conns[c].scopes)
          /\ IF <<Project(c), Digest(c)>> \in artifacts THEN Respond(c, 200)
             ELSE Move(c, IF api.store = "file" THEN "write" ELSE IF api.validator THEN "validate" ELSE "put")
  /\ UNCHANGED <<api, revoked, auditLog, files, temps, artifacts>>

(* The temporary file is named after the digest and the millisecond. *)
Temp(c) == <<Digest(c), conns[c].at>>

WriteTemp(c) ==
  /\ At(c, "write")
  /\ \E ms \in Millis :
       /\ conns' = [conns EXCEPT ![c].at = ms, ![c].pc = "rename"]
       /\ temps' = temps \union {<<Digest(c), ms>>}
  /\ UNCHANGED <<api, revoked, auditLog, ran, files, artifacts>>

Rename(c) ==
  /\ At(c, "rename")
  /\ IF Temp(c) \in temps
     THEN /\ files' = files \union {Digest(c)}
          /\ temps' = temps \ {Temp(c)}
          /\ Move(c, IF api.validator THEN "validate" ELSE "register")
     ELSE Respond(c, 400) /\ UNCHANGED <<files, temps>>
  /\ UNCHANGED <<api, revoked, auditLog, ran, artifacts>>

(* The validator is another program, which may fail on good bytes too. *)
putValidatedArtifact(c) ==
  /\ At(c, "validate")
  /\ \/ Move(c, IF api.store = "file" THEN "register" ELSE "put")
     \/ /\ api.store = "file"
        /\ conns' = [conns EXCEPT ![c].pc = "unlink", ![c].flaked = TRUE]
     \/ api.store # "file" /\ Respond(c, 400)
  /\ UNCHANGED <<api, revoked, auditLog, ran, files, temps, artifacts>>

Unlink(c) ==
  /\ At(c, "unlink")
  /\ files' = files \ {Digest(c)}
  /\ Respond(c, 400)
  /\ UNCHANGED <<api, revoked, auditLog, ran, temps, artifacts>>

\* MUTANT of PutObject: the status of the object store is not looked at.
PutObjectUnchecked(c) ==
  /\ At(c, "put")
  /\ \E stored \in BOOLEAN : files' = IF stored THEN files \union {Digest(c)} ELSE files
  /\ Move(c, "register")
  /\ UNCHANGED <<api, revoked, auditLog, ran, temps, artifacts>>

PutObject(c) ==
  /\ At(c, "put")
  /\ \/ files' = files \union {Digest(c)} /\ Move(c, "register")
     \/ UNCHANGED files /\ Respond(c, 400)
  /\ UNCHANGED <<api, revoked, auditLog, ran, temps, artifacts>>

(* createArtifact(): a digest is registered once. *)
Register(c) ==
  /\ At(c, "register")
  /\ IF \E a \in artifacts : a[2] = Digest(c)
     THEN Respond(c, 409) /\ UNCHANGED artifacts
     ELSE artifacts' = artifacts \union {<<Project(c), Digest(c)>>} /\ Respond(c, 201)
  /\ UNCHANGED <<api, revoked, auditLog, ran, files, temps>>

-----------------------------------------------------------------------------
(* The response ends.  A response whose client went away may be closed     *)
(* without "finish", and then the hook does not run.                       *)
AuditRecord(c) == [client |-> c, scope |-> requiredScopeFor(Req(c)), status |-> conns[c].status]

End(c) ==
  /\ At(c, "ending")
  /\ Move(c, "done")
  /\ \/ auditLog' = IF conns[c].hook THEN auditLog \union {AuditRecord(c)} ELSE auditLog
     \/ conns[c].gone /\ UNCHANGED auditLog
  /\ UNCHANGED <<api, revoked, ran, files, temps, artifacts>>

(* The client of a request goes away. *)
Leave(c) ==
  /\ ~At(c, "done") /\ ~conns[c].gone
  /\ conns' = [conns EXCEPT ![c].gone = TRUE]
  /\ UNCHANGED <<api, revoked, auditLog, ran, files, temps, artifacts>>

ServeStep(c) ==
  \/ Begin(c) \/ ServePublic(c) \/ ReadBody(c) \/ authorizeRequest(c) \/ RecordUse(c) \/ Handle(c)
  \/ Upload(c) \/ WriteTemp(c) \/ Rename(c) \/ putValidatedArtifact(c) \/ Unlink(c) \/ PutObject(c)
  \/ Register(c) \/ End(c)

ApiDone == \A c \in Clients : At(c, "done")

ApiNext == \E c \in Clients : ServeStep(c) \/ Leave(c)

ApiSpec == ApiInit /\ [][ApiNext]_apiVars

-----------------------------------------------------------------------------
Reads == {
  "operationalConfig", "renderAdminPage", "renderProjectSettingsPage", "listProjectCustomerAuditEvents",
  "getOrganizationBillingStatement", "listOrganizationCustomerAuditEvents", "listOrganizationBillingInvoices",
  "listProjectCustomDomains", "listProjectDeployPreviews", "listProjectEdgeWorkerReleases",
  "getEdgeWorkerRelease", "listEdgeWorkerReleaseOperations", "listProjectMemberships", "listProjectApiKeys",
  "listDatabases", "listBackups", "getDatabase", "getProjectUsage", "getProjectUsageSummary",
  "getProjectEnforcementReport", "getProjectUsageQuotaReport", "getProjectBillingStatement",
  "getProjectBillingBudgetReport", "getBillingInvoiceRetentionPolicy", "getBillingInvoice",
  "exportBillingInvoice", "listProjectSecrets", "getSecret", "listProjectKvNamespaces", "getKvNamespace",
  "readAlarmDemoStatus", "listProjectDurableObjectNamespaces", "getDurableObjectNamespace",
  "listCanaryDecisions", "listRuntimeNodes", "runtimeSaturationSignals", "readRuntimeNodeLogs",
  "createRouteSnapshot", "listRouteSnapshotPublications", "readReplicatedRouteSnapshot"}

(* What changes something outside the control plane. *)
Publishes == {"publishCurrentRouteSnapshot", "applyReplicatedRouteSnapshot", "deleteEdgeWorkerRelease",
              "deliverPendingEdgeWorkerReleaseOperations"}

(* The right an operation needs, from what it does and not from the method *)
(* and path that lead to it.                                               *)
Needed(x) ==
  CASE x.op = "handleAlarmDemoWebhook" -> "webhook"
    [] x.op \in Publishes \/ (x.op = "createEdgeWorkerRelease" /\ x.body = "api") -> "publish"
    [] x.op \in Reads -> "read"
    [] OTHER -> "write"

(* No operation runs without the right it needs: a request that writes, or *)
(* that reaches a provider or the runtime nodes, had a token for it; no    *)
(* request that arrives fits two handlers, whose order would then decide;  *)
(* and one that arrives after its key was revoked runs nothing, whatever   *)
(* requests of the key are still in flight, unless the API is open, with   *)
(* no token configured.                                                    *)
HandlersAreGuarded ==
  /\ \A x \in ran : tokenAllows(x.scopes, Needed(x)) /\ (x.stale => configuredApiTokens = {})
  /\ \A c \in Clients : conns[c].pc = "new" => \A m, n \in Fits(Req(c)) : m = n

(* Once every response has ended, the audit log has the status of each     *)
(* request that a token was let in with and that was no GET, and of no     *)
(* other, but for the clients that went away before their answer.          *)
AuditIsComplete ==
  ApiDone =>
    LET audited == {c \in Clients : /\ api.sink
                                    /\ configuredApiTokens # {}
                                    /\ conns[c].scopes # {}
                                    /\ Req(c).method # "GET"} IN
    /\ {AuditRecord(c) : c \in {x \in audited : ~conns[x].gone}} \subseteq auditLog
    /\ auditLog \subseteq {AuditRecord(c) : c \in audited}

(* The bytes of a registered artifact are in the store, however uploads of *)
(* the same bytes overlap, unless the validator failed one of them: that   *)
(* upload unlinks the file of the others too.                              *)
RegisteredIsStored ==
  \A a \in artifacts : a[2] \in files \/ \E c \in Clients : conns[c].flaked /\ Digest(c) = a[2]
=============================================================================
