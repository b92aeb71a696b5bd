----------------------------- MODULE ControlPlane -----------------------------
(***************************************************************************)
(* The asynchronous control plane (async-service.ts over PostgreSQL):      *)
(* every operation of every handler, interleaved at its awaits.            *)
(***************************************************************************)
EXTENDS Tenancy, Billing, Routing, Fleet

CONSTANTS Workloads,  \* initial database and requests of each caller
          Requests    \* every request of some workload

vars == callVars

(* What the requests before a workload left: a whole database, as EmptyDb  *)
(* is, in which what the properties below promise holds so far.            *)
OwnDeployment(d, p, x) == Has(d.deployments, x) /\ d.deployments[x].project = p

OwnTargets(d, p, targets) ==
  1 \in DOMAIN targets /\ \A n \in DOMAIN targets : OwnDeployment(d, p, targets[n].deployment)

RoutesOwn(d) ==
  /\ \A r \in DOMAIN d.routes : OwnTargets(d, r[1], d.routes[r].targets)
  /\ \A v \in DOMAIN d.previews :
       d.previews[v].previous # None => OwnTargets(d, d.previews[v].project, d.previews[v].previous)

HonestDeliveries(d) ==
  \A k \in DOMAIN d.webhooks :
    /\ d.webhooks[k].status = "delivered" => k \in d.received
    /\ d.webhooks[k].status = "pending" => d.webhooks[k].attempts < MaxAttempts

OperationsOf(d, x) == {o \in DOMAIN d.operations : d.operations[o].release = x}

(* Releases and their operations are rows of those columns, and the        *)
(* operations of a release are numbered in the order of their creation.    *)
OperationsInOrder(d) ==
  /\ \A x \in DOMAIN d.releases : DOMAIN d.releases[x] = {"project", "deployment", "script", "status"}
  /\ IsFiniteSet(DOMAIN d.operations)
  /\ \A o \in DOMAIN d.operations :
       LET row == d.operations[o] IN
       /\ DOMAIN row = {"release", "status", "attempts", "next"}
       /\ Has(d.releases, row.release)
       /\ \E n \in 0..Cardinality(OperationsOf(d, row.release)) - 1 : o = <<row.release, n>>

(* Its deletion failed, its script is still there, and nothing retries. *)
Forgotten(d, x) ==
  /\ d.releases[x].status = "failed" /\ d.releases[x].script \in d.scripts
  /\ \A o \in OperationsOf(d, x) : d.operations[o].status # "pending"

(* A route is found by its project and host, and every project is within   *)
(* its quotas.                                                             *)
WithinQuota(d) ==
  /\ \A r \in DOMAIN d.routes : d.routes[r].project = r[1]
  /\ \A resource \in Resources :
       /\ IsFiniteSet(DOMAIN d[resource])
       /\ \A x \in DOMAIN d[resource] :
            /\ "project" \in DOMAIN d[resource][x]
            /\ getProjectUsage(d, d[resource][x].project, resource) <= Quota
  /\ IsFiniteSet(DOMAIN d.usage)
  /\ \A e \in DOMAIN d.usage :
       /\ d.usage[e].quantity \in Nat
       /\ getProjectUsageSummary(d, d.usage[e].project, d.usage[e].at) <= UsageLimit

(* No other invoice is issued for the period of one. *)
OneInvoicePerPeriod(d) ==
  \A v, w \in DOMAIN d.invoices :
    d.invoices[v].org = d.invoices[w].org /\ d.invoices[v].period = d.invoices[w].period => v = w

SoundDb(d) ==
  /\ DOMAIN d = DOMAIN EmptyDb
  /\ \A k \in DOMAIN d.apiKeys : "revoked" \in DOMAIN d.apiKeys[k]
  /\ \A m \in DOMAIN d.memberships : DOMAIN d.memberships[m] = {"project", "user", "role", "invite"}
  /\ RoutesOwn(d)
  /\ HonestDeliveries(d)
  /\ OperationsInOrder(d)
  /\ \A x \in DOMAIN d.releases : ~Forgotten(d, x)
  /\ WithinQuota(d)
  /\ OneInvoicePerPeriod(d)
  /\ IsFiniteSet(DOMAIN d.invoices) /\ IsFiniteSet(DOMAIN d.nodes)

ASSUME WorkloadsAssumption ==
  /\ \A w \in Workloads : SoundDb(w.db) /\ w.calls \in [Callers -> Seq(Requests)]
  /\ \A r \in Requests :
       /\ r.op = "pointRoute" => r.targets \in Seq(Range(r.targets))
       /\ r.op = "recordUsageEvent" => r.quantity \in Nat
       /\ r.op = "createBetaOnboarding" => r.project # None

Init == \E w \in Workloads : CallsInit(w.db, w.calls)

Step(c) == TenancyNext(c) \/ BillingNext(c) \/ RoutingNext(c) \/ FleetNext(c)

(* Every request of the workload has been answered. *)
Quiet == \A c \in Callers : call[c].pc = "idle"

Next == (\E c \in Callers : Step(c) \/ Retry(c)) \/ (Quiet /\ UNCHANGED vars)

(* Node keeps running the continuations of the awaits that have settled. *)
Fairness == \A c \in Callers : WF_vars(Step(c))

Spec == Init /\ [][Next]_vars /\ Fairness

-----------------------------------------------------------------------------
(* The synchronous control plane, whose database is base. *)
Sync == INSTANCE ControlPlaneService
          WITH db <- base, answered <- IF serial THEN answered ELSE {}

(* With a single caller the asynchronous control plane over PostgreSQL     *)
(* implements the synchronous one over SQLite: every request of            *)
(* async-service.ts has the outcome and the effect of its twin in          *)
(* service.ts, however many awaits it takes.                               *)
Twin == Sync!Spec

(* The database and the outcomes when the requests of q are served one     *)
(* after the other.                                                        *)
InTurn(q) ==
  LET s[n \in 0..Len(q)] ==
        IF n = 0 THEN [db |-> base, answered |-> {}]
        ELSE LET r == Sync!Serve(s[n - 1].db, q[n]) IN
             [db |-> r.db, answered |-> s[n - 1].answered \union {[req |-> q[n], out |-> r.out]}]
  IN  s[Len(q)]

Asked == {x.req : x \in answered}
AskedOps == {r.op : r \in Asked}
InFlight == {in(c).op : c \in {x \in Callers : call[x].pc # "idle"}}
Answered(op, out) == {x.req : x \in {y \in answered : y.req.op = op /\ y.out = out}}

(* The operations that write back what they read before an await, or that  *)
(* insert what they counted before one, with those they may do it to:      *)
(* nothing in async-service.ts or PostgreSQL makes them wait.              *)
PairsOf(A, B) == {{a, b} : a \in A, b \in B}
RouteWriters == {"pointRoute", "startRouteCanary", "rollbackRoute", "analyzeRouteCanary",
                 "createDeployPreview", "rollbackDeployPreview"}
DomainWriters == {"verifyCustomDomainOwnership", "requestCustomDomainTlsProvisioning",
                  "completeCustomDomainTlsProvisioning"}
OwnerWriters == {"updateProjectMembershipRole", "removeProjectMembership"}
ReleaseWriters == {"deleteEdgeWorkerRelease", "deliverPendingEdgeWorkerReleaseOperations"}
InvoiceWriters == {"issueOrganizationBillingInvoice", "createBillingInvoiceAdjustment", "pruneBillingInvoices",
                   "setBillingInvoiceRetentionPolicy", "deliverPendingBillingWebhooks"}
CountedCreations == {"createArtifact", "createSecret", "createKvNamespace", "createDurableObjectNamespace",
                     "createDeployment", "recordUsageEvent"}
RacyPairs ==
  PairsOf(RouteWriters, RouteWriters) \union PairsOf(DomainWriters, DomainWriters)
    \union PairsOf(OwnerWriters, OwnerWriters) \union PairsOf(ReleaseWriters, ReleaseWriters)
    \union PairsOf({"pruneBillingInvoices"}, InvoiceWriters)
    \union PairsOf({"cleanupRuntimeNodes"}, {"cleanupRuntimeNodes", "recordRuntimeNodeHeartbeat"})
    \union {{op} : op \in CountedCreations \union {"updateOrganizationBilling", "deliverPendingBillingWebhooks"}}

(* Two requests at once have the outcomes and leave the database of the    *)
(* two in one order or the other, unless they are a pair of operations     *)
(* that are known to race: between any others the awaits of                *)
(* async-service.ts do not show.                                           *)
SerializableOutsideRaces ==
  (Quiet /\ ~serial /\ retries = 0 /\ AskedOps \notin RacyPairs) =>
    \E a, b \in Asked : Asked = {a, b} /\ InTurn(<<a, b>>) = [db |-> db, answered |-> answered]

(* A retry finds the rows of the attempt that died: the onboarding throws  *)
(* a conflict on its own organization, and the preview takes the route it  *)
(* pointed itself for the previous one.                                    *)
NotRetrySafe == {"createBetaOnboarding", "createDeployPreview"}

(* A process dies under one of two requests, at any await, and the client  *)
(* asks again.  Outside the races the answers and the database, but for    *)
(* the audit events of the dead attempt, are those of the requests served  *)
(* in some order, the one that died once or twice.                         *)
RetriesConverge ==
  (Quiet /\ ~serial /\ retries = 1 /\ AskedOps \notin RacyPairs /\ AskedOps \intersect NotRetrySafe = {}) =>
    \E a, b \in Asked :
       /\ Asked = {a, b}
       /\ \E q \in {<<a, b>>, <<a, a, b>>, <<a, b, a>>, <<a, b, b>>} :
            LET s == InTurn(q) IN
            /\ [s.db EXCEPT !.audit = {}] = [db EXCEPT !.audit = {}]
            /\ answered \subseteq s.answered
-----------------------------------------------------------------------------
(* What holds in spite of the races.                                       *)

(* A usage event that was acknowledged, first, as a replay or after losing *)
(* the insert to another attempt, is stored as the client sent it.         *)
AcknowledgedUsageIsStored ==
  \A i \in Answered("recordUsageEvent", "ok") : Has(db.usage, i.id) /\ sameUsageEvent(i, db.usage[i.id])

(* How many calls may have passed a check that another one passes. *)
Others == IF serial THEN 0 ELSE Cardinality(Callers) - 1

(* The rollback of a preview writes the route it replaced back, or deletes *)
(* one that another call found, and counts neither.                        *)
Counted ==
  IF "rollbackDeployPreview" \in AskedOps \union InFlight THEN Resources \ {"routes"} ELSE Resources

(* The check of a quota and the insert are two statements: each caller     *)
(* that is not the last may exceed the limit, by no more than one request. *)
RowsWithinQuota ==
  \A p \in DOMAIN db.projects, resource \in Counted : getProjectUsage(db, p, resource) <= Quota + Others

UsageWithinQuota ==
  \A p \in DOMAIN db.projects, period \in {db.usage[e].at : e \in DOMAIN db.usage} :
    getProjectUsageSummary(db, p, period) <= UsageLimit * (Others + 1)

(* However many creations and usage events of a project are in flight, its *)
(* rows and its metered units exceed their quotas by what the other calls  *)
(* may add after they were counted, and never by more.                     *)
QuotaOvershootIsBounded == RowsWithinQuota /\ UsageWithinQuota

(* Issuing an invoice is answered when its webhook is enqueued, by this    *)
(* call or by another that issued the invoice of the period, unless a      *)
(* prune may have removed it.                                              *)
IssuedIsEnqueued ==
  "pruneBillingInvoices" \notin AskedOps \union InFlight =>
    \A i \in Answered("issueOrganizationBillingInvoice", "ok") :
      \E v \in DOMAIN db.invoices :
        /\ db.invoices[v].org = i.org
        /\ db.invoices[v].period = i.at
        /\ Has(db.webhooks, billingInvoiceIssuedIdempotencyKey(v, db.invoices[v]))

(* A delivery marked delivered was accepted by the endpoint, and one that  *)
(* is still to be sent has attempts left: two deliverers of one row may    *)
(* forget an attempt, but never invent an answer or exceed the limit.      *)
DeliveriesAreHonest == HonestDeliveries(db)

(* A call deployed the release's script, and it was not the one that made  *)
(* the release: another release shares the script, or the call failed.     *)
Redeployed(x) ==
  \E y \in answered :
    /\ y.req.op = "createEdgeWorkerRelease" /\ y.req.script = db.releases[x].script
    /\ ~(y.req.id = x /\ y.out = "ok")

(* A release the provider may still run is not forgotten: once no call is  *)
(* in flight, one whose deletion failed and whose script is still there    *)
(* has an operation that retries it, whoever else deleted or retried,      *)
(* unless the script was deployed again meanwhile.                         *)
UndeletedIsRetried ==
  Quiet => \A x \in DOMAIN db.releases : Forgotten(db, x) => Redeployed(x)

(* What customers and the operator of edge workers can rely on whatever    *)
(* runs at the same time: an acknowledged event is stored, an issued       *)
(* invoice has its webhook, a webhook that is marked delivered was         *)
(* accepted, and an edge worker that could not be deleted is retried.      *)
OutboxesSurviveRaces ==
  AcknowledgedUsageIsStored /\ IssuedIsEnqueued /\ DeliveriesAreHonest /\ UndeletedIsRetried

Owners(d, p) == {k \in DOMAIN d.memberships :
                   k[1] = p /\ d.memberships[k].role = "owner" /\ d.memberships[k].invite = "accepted"}

(* Served one after the other, changing a role and removing a member never *)
(* take a project's last accepted owner: only inviting the member again,   *)
(* which takes the acceptance back, does.                                  *)
LastOwnerStays ==
  [][\A p \in DOMAIN base.projects :
       (Owners(base, p) # {} /\ Owners(base', p) = {}) =>
         \E c \in Callers : At(c, "addProjectMembership", "audit")]_vars

\* Of the rotations of one API key at most one succeeds, and the key is then revoked.
OneRotation ==
  \A i, j \in Answered("rotateApiKey", "ok") :
    i.id = j.id => (i = j /\ db.apiKeys[i.id].revoked)

\* Every route, and every route a preview would restore, sends its traffic to deployments of its own project.
RoutesStayInProject ==
  LET own(p, targets) == \A n \in DOMAIN targets : db.deployments[targets[n].deployment].project = p IN
  /\ \A r \in DOMAIN db.routes : own(r[1], db.routes[r].targets)
  /\ \A v \in DOMAIN db.previews :
       db.previews[v].previous # None => own(db.previews[v].project, db.previews[v].previous)

(* What authorises and what is reached survive the races: the row lock of  *)
(* rotateApiKey() leaves one successor of a key, and no interleaving of    *)
(* route, canary and preview calls sends a project's traffic elsewhere.    *)
KeysAndRoutesHold == OneRotation /\ RoutesStayInProject

(* Every call is answered: no await waits for another call. *)
EveryCallIsAnswered == <>Quiet
=============================================================================
