---------------------------- MODULE MCControlPlane ----------------------------
(***************************************************************************)
(* Workloads for the control plane.  Each domain has a database, built by  *)
(* requests of the synchronous service, and a set of requests.  A serial   *)
(* workload is every pair of them after one another, a concurrent one      *)
(* every pair at once.                                                     *)
(***************************************************************************)
EXTENDS ControlPlane

CONSTANTS c1, c2

(* The database after the requests q of an empty one. *)
SetUp(q) == LET f[n \in 0..Len(q)] == IF n = 0 THEN EmptyDb ELSE Sync!Serve(f[n - 1], q[n]).db
            IN  f[Len(q)]

Org(o) == [op |-> "createOrganization", id |-> o, name |-> o, payment |-> "active", email |-> None]
User(u) == [op |-> "createUser", id |-> u, email |-> u, verified |-> TRUE]
Project(p, o) == [op |-> "createProject", id |-> p, name |-> p, org |-> o]
Member(op, u, role) == [op |-> op, project |-> "p1", user |-> u, role |-> role]
OneMember(op, u) == [op |-> op, project |-> "p1", user |-> u]
Key(op, k) == [op |-> op, id |-> k]

Tenants == SetUp(<<Org("o1"), User("u1"), User("u2"), Project("p1", "o1"),
  Member("addProjectMembership", "u1", "owner"), OneMember("acceptProjectMembershipInvite", "u1"),
  Member("addProjectMembership", "u2", "owner"), OneMember("acceptProjectMembershipInvite", "u2"),
  [op |-> "createApiKey", id |-> "k1", org |-> None, project |-> "p1"]>>)

TenancyRequests ==
  {Org("o1"), Org("o2"), User("u3"), Project("p2", "o1"), Project("p3", "o9"),
   [op |-> "updateOrganizationBilling", org |-> "o1", payment |-> "suspended", email |-> None],
   [op |-> "updateOrganizationBilling", org |-> "o1", payment |-> None, email |-> "billing"],
   [op |-> "verifyUserEmail", user |-> "u1"],
   Member("addProjectMembership", "u1", "viewer"), Member("addProjectMembership", "u9", "viewer"),
   OneMember("acceptProjectMembershipInvite", "u1"),
   Member("updateProjectMembershipRole", "u1", "viewer"), Member("updateProjectMembershipRole", "u2", "developer"),
   Member("updateProjectMembershipRole", "u2", "king"),
   OneMember("removeProjectMembership", "u1"), OneMember("removeProjectMembership", "u2"),
   [op |-> "requestProductionQuotaIncrease", id |-> "q1", org |-> "o1", project |-> "p1"],
   [op |-> "requestProductionQuotaIncrease", id |-> "q2", org |-> "o1", project |-> None],
   [op |-> "createApiKey", id |-> "k2", org |-> None, project |-> "p1"],
   [op |-> "createApiKey", id |-> "k1", org |-> "o1", project |-> None],
   Key("revokeApiKey", "k1"), Key("authenticateApiToken", "k1"),
   [op |-> "rotateApiKey", id |-> "k1", replacement |-> "k2"],
   [op |-> "rotateApiKey", id |-> "k1", replacement |-> "k3"],
   [op |-> "createBetaOnboarding", org |-> "o2", user |-> "u3", project |-> "p2", key |-> "k4"]}

Use(e, n) == [op |-> "recordUsageEvent", id |-> e, project |-> "p1", quantity |-> n, at |-> 1]
Invoice(v) == [op |-> "issueOrganizationBillingInvoice", id |-> v, org |-> "o1", at |-> 1]
Policy(v, until, hold, reason) ==
  [op |-> "setBillingInvoiceRetentionPolicy", invoice |-> v, until |-> until, hold |-> hold, reason |-> reason]
Deliver(now, reply) == [op |-> "deliverPendingBillingWebhooks", now |-> now, reply |-> reply]

Metered == SetUp(<<Org("o1"), Project("p1", "o1"), Use("e1", 1)>>)

MeteringRequests ==
  {Use("e1", 1), Use("e1", 2), Use("e2", 1), Use("e3", 2), Invoice("v1"), Invoice("v2"),
   Deliver(0, "accepted"), Deliver(0, "unavailable"), Deliver(1, "unavailable"), Deliver(1, "refused")}

Invoiced == SetUp(<<Org("o1"), Project("p1", "o1"), Use("e1", 1), Invoice("v1"), Policy("v1", 1, FALSE, FALSE)>>)

InvoiceRequests ==
  {Invoice("v2"), Deliver(0, "accepted"), Deliver(0, "unavailable"), Deliver(1, "unavailable"), Deliver(1, "refused"),
   [op |-> "createBillingInvoiceAdjustment", id |-> "a1", invoice |-> "v1", amount |-> 1],
   [op |-> "createBillingInvoiceAdjustment", id |-> "a2", invoice |-> "v1", amount |-> 0],
   Policy("v1", 0, TRUE, TRUE), Policy("v1", 0, TRUE, FALSE), Policy("v1", 2, FALSE, FALSE),
   [op |-> "pruneBillingInvoices", org |-> "o1", now |-> 1]}

Artifact(a, p, digest, size) ==
  [op |-> "createArtifact", id |-> a, project |-> p, digest |-> digest, size |-> size,
   signature |-> [key |-> "key", over |-> digest]]
NoCapabilities == [outbound |-> {}, kv |-> {}, do |-> {}, secrets |-> {}, services |-> {}]
Deployment(x, p, a, caps) ==
  [op |-> "createDeployment", id |-> x, project |-> p, artifact |-> a, world |-> "w", capabilities |-> caps]
Target(x, w) == [deployment |-> x, weight |-> w]
Point(p, h, targets) == [op |-> "pointRoute", project |-> p, host |-> h, targets |-> targets]
Secret(s) == [op |-> "createSecret", id |-> s, project |-> "p1", name |-> s, value |-> "x"]
Kv(k) == [op |-> "createKvNamespace", id |-> k, project |-> "p1", name |-> k]
Do(n) == [op |-> "createDurableObjectNamespace", id |-> n, project |-> "p1", name |-> n]
ById(op, x) == [op |-> op, id |-> x]
Url(path) == [origin |-> "https", path |-> path]

MCPolicy == [requireSignature |-> TRUE, keyIds |-> {"key"}, maxSize |-> 2, worlds |-> {"w"},
             outbound |-> {Url(<<"a">>)}, kv |-> None, do |-> None, secrets |-> None,
             services |-> None, serviceUrls |-> {Url(<<>>)}]
MCKeys == {"key"}

Projects == <<Org("o1"), Project("p1", "o1"), Project("p2", "o1"), Artifact("a1", "p1", "d1", 1)>>

Resourced == SetUp(Projects \o <<Secret("s1"), Kv("n1"), Do("m1"), Artifact("a2", "p2", "d2", 1),
                             Deployment("x0", "p1", "a1", NoCapabilities)>>)

ResourceRequests ==
  {Secret("s1"), Secret("s2"), Secret("s3"), ById("deleteSecret", "s1"),
   [op |-> "updateSecretValue", id |-> "s1", value |-> "y"],
   Kv("n1"), Kv("n2"), ById("deleteKvNamespace", "n1"), Do("m2"), ById("deleteDurableObjectNamespace", "m1"),
   Artifact("a3", "p1", "d1", 1), Artifact("a3", "p1", "d3", 1), Artifact("a4", "p1", "d4", 3),
   Deployment("x1", "p1", "a1", [NoCapabilities EXCEPT !.secrets = {"s1"}, !.kv = {"n1"}, !.do = {"m1"}]),
   Deployment("x2", "p1", "a2", NoCapabilities), Deployment("x3", "p1", "a9", NoCapabilities),
   Deployment("x4", "p1", "a1", [NoCapabilities EXCEPT !.outbound = {Url(<<"b">>)}]),
   Deployment("x5", "p1", "a1", [NoCapabilities EXCEPT !.outbound = {Url(<<"a", "b">>)},
                                 !.services = {[project |-> "p2", url |-> Url(<<"c">>)]}])}

Preview(v, x, h) ==
  [op |-> "createDeployPreview", id |-> v, project |-> "p1", deployment |-> x, host |-> h]
Canary(x, w) == [op |-> "startRouteCanary", project |-> "p1", host |-> "h1", deployment |-> x, weight |-> w]
Event(x, status) == [deployment |-> x, status |-> status, duration |-> 1, error |-> None]
Analyze(x, status) ==
  [op |-> "analyzeRouteCanary", project |-> "p1", host |-> "h1", deployment |-> x,
   events |-> <<Event(x, status), Event(x, 200), Event("x1", 200)>>,
   thresholds |-> [minRequests |-> 2, rejects |-> None, errorRate |-> 10, p95 |-> 5]]
Domain(x, h) == [op |-> "createCustomDomain", id |-> x, project |-> "p1", host |-> h]
Tls(x, ok) == [op |-> "completeCustomDomainTlsProvisioning", id |-> x, ok |-> ok]
Verify(x, txt) == [op |-> "verifyCustomDomainOwnership", id |-> x, txt |-> txt]

Deployed == Projects \o <<Deployment("x1", "p1", "a1", NoCapabilities), Deployment("x2", "p1", "a1", NoCapabilities)>>

Routed == SetUp(Deployed \o <<Point("p1", "h1", <<Target("x1", 100)>>), Preview("v0", "x2", "h1"),
                               Point("p1", "h1", <<Target("x1", 90), Target("x2", 10)>>)>>)

RouteRequests ==
  {Point("p1", "h1", <<Target("x2", 100)>>), Point("p1", "h2", <<Target("x1", 50), Target("x2", 50)>>),
   Point("p1", "h3", <<Target("x1", 1)>>), Point("p1", "h2", <<Target("x1", 1), Target("x1", 1)>>),
   Point("p2", "h2", <<Target("x1", 1)>>), Point("p1", "h2", <<Target("x9", 1)>>),
   Canary("x2", 20), Canary("x1", 20), Canary("x2", 100),
   [op |-> "rollbackRoute", project |-> "p1", host |-> "h1", deployment |-> None],
   [op |-> "rollbackRoute", project |-> "p1", host |-> "h1", deployment |-> "x2"],
   Analyze("x2", 500), Analyze("x2", 200),
   Preview("v1", "x2", "h1"), Preview("v2", "x1", "h2"), ById("rollbackDeployPreview", "v0"),
   ById("rollbackDeployPreview", "v1"), [op |-> "createRouteSnapshot"]}

Domained == SetUp(Deployed \o <<Domain("m1", "h1"), Verify("m1", TRUE), Tls("m1", TRUE), Preview("v1", "x1", "h2")>>)

DomainRequests ==
  {Domain("m1", "h1"), Domain("m2", "h3"), ById("deleteCustomDomain", "m1"), Verify("m1", TRUE), Verify("m1", FALSE),
   [op |-> "requestCustomDomainTlsProvisioning", id |-> "m1"], Tls("m1", TRUE), Tls("m1", FALSE),
   Point("p1", "h1", <<Target("x1", 100)>>), Point("p2", "h1", <<Target("x1", 100)>>),
   ById("rollbackDeployPreview", "v1"), [op |-> "createRouteSnapshot"]}

Node(n, status, now) == [op |-> "registerRuntimeNode", id |-> n, url |-> n, status |-> status, now |-> now]
Heartbeat(n, status, now) ==
  [op |-> "recordRuntimeNodeHeartbeat", id |-> n, status |-> status, now |-> now, capacity |-> 1, load |-> now - 2]
Status(n, status) == [op |-> "updateRuntimeNodeStatus", id |-> n, status |-> status]
Cleanup(now, statuses) ==
  [op |-> "cleanupRuntimeNodes", now |-> now, olderThan |-> 1, statuses |-> statuses]

Nodes == SetUp(<<Node("n1", None, 0), Node("n2", "offline", 0), Node("n3", "offline", 1)>>)

NodeRequests ==
  {Node("n1", None, 1), Node("n4", "draining", 2), Heartbeat("n1", None, 2), Heartbeat("n2", None, 2),
   Heartbeat("n2", None, 3), Heartbeat("n2", "draining", 1), Status("n1", "draining"), Status("n2", "offline"), Status("n9", None),
   Cleanup(3, None), Cleanup(2, {"offline", "draining"}), [Cleanup(2, None) EXCEPT !.olderThan = 0],
   [op |-> "listActiveRuntimeNodes", id |-> "n1", now |-> 3, ttl |-> 1], [op |-> "listActiveRuntimeNodes", id |-> "n2", now |-> 3, ttl |-> None],
   [op |-> "recordRouteSnapshotPublication", snapshot |-> "s1", ok |-> TRUE]}

Release(x, reply) ==
  [op |-> "createEdgeWorkerRelease", id |-> x, project |-> "p1", deployment |-> "x1", script |-> "w", reply |-> reply]
DeleteRelease(x, provider, reply) ==
  [op |-> "deleteEdgeWorkerRelease", id |-> x, deleteProvider |-> provider, reply |-> reply, now |-> 0]
DeliverOperations(now, reply) ==
  [op |-> "deliverPendingEdgeWorkerReleaseOperations", now |-> now, reply |-> reply]

Released == SetUp(Deployed \o <<Release("r1", "done"), DeleteRelease("r1", TRUE, "error")>>)

ReleaseRequests ==
  {Release("r1", "done"), Release("r2", "done"), Release("r2", "lost"), Release("r3", "error"),
   [Release("r2", "done") EXCEPT !.deployment = "x9"]}
  \union {DeleteRelease("r1", provider, reply) : provider \in BOOLEAN, reply \in {"done", "error", "lost"}}
  \union {DeliverOperations(now, reply) : now \in 0..1, reply \in {"done", "error", "lost"}}

Workload(d, Q) ==
  {[db |-> d, calls |-> (c1 :> <<a, b>>) @@ (c2 :> <<>>)] : a, b \in Q}
    \union {[db |-> d, calls |-> (c1 :> <<a>>) @@ (c2 :> <<b>>)] : a, b \in Q}

MCRequests == TenancyRequests \union MeteringRequests \union InvoiceRequests
  \union ResourceRequests \union RouteRequests \union DomainRequests
  \union NodeRequests \union ReleaseRequests

MCWorkloads ==
  Workload(Tenants, TenancyRequests) \union Workload(Metered, MeteringRequests)
    \union Workload(Invoiced, InvoiceRequests) \union Workload(Resourced, ResourceRequests)
    \union Workload(Routed, RouteRequests) \union Workload(Domained, DomainRequests)
    \union Workload(Nodes, NodeRequests) \union Workload(Released, ReleaseRequests)

=============================================================================
