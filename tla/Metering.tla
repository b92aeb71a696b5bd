------------------------------- MODULE Metering -------------------------------
(***************************************************************************)
(* The pure parts of metering and billing, which both control planes       *)
(* share: quotas.ts, usage-quota.ts, billing-budget.ts,                    *)
(* billing-statement.ts, billing-webhook.ts and billing-retention.ts.  One *)
(* metric is modelled; a period is a number, and a unit costs one.         *)
(***************************************************************************)
EXTENDS ControlPlaneDb, FiniteSetsExt

(* The resources of a project a quota limits, each by its table. *)
Resources == {"artifacts", "deployments", "routes", "secrets", "kvNamespaces", "doNamespaces"}

(* getProjectUsage(): how many rows of a table are the project's. *)
getProjectUsage(d, project, resource) ==
  Cardinality({x \in DOMAIN d[resource] : d[resource][x].project = project})

\* MUTANT of enforceProjectQuota: off by one.
enforceProjectQuotaReached(d, project, resource) ==
  Require(d, getProjectUsage(d, project, resource) <= Quota, "validation")

enforceProjectQuota(d, project, resource) ==
  Require(d, getProjectUsage(d, project, resource) < Quota, "validation")

(* getProjectUsageSummary(): the units recorded in a period. *)
getProjectUsageSummary(d, project, period) ==
  SumFunctionOnSet([e \in DOMAIN d.usage |-> d.usage[e].quantity],
                   {e \in DOMAIN d.usage : d.usage[e].project = project /\ d.usage[e].at = period})

enforceProjectUsageQuota(d, i) ==
  Require(d, getProjectUsageSummary(d, i.project, i.at) + i.quantity <= UsageLimit, "validation")

createProjectBillingStatement(units) == units

enforceProjectBillingBudget(d, i) ==
  Require(d, createProjectBillingStatement(getProjectUsageSummary(d, i.project, i.at) + i.quantity)
               <= BudgetLimit, "validation")

(* The sum over the projects of the organization. *)
createOrganizationBillingStatement(d, org, period) ==
  MapThenSumSet(LAMBDA p : createProjectBillingStatement(getProjectUsageSummary(d, p, period)),
                {p \in DOMAIN d.projects : d.projects[p].org = org})

sameUsageEvent(event, existing) ==
  /\ event.project = existing.project
  /\ event.quantity = existing.quantity
  /\ event.at = existing.at

(* A replay of an event is answered like the event, or is a conflict. *)
resolveUsageEventReplay(event, existing) ==
  IF sameUsageEvent(event, existing) THEN "ok" ELSE "conflict"

-----------------------------------------------------------------------------
createOrganizationBillingInvoice(i, total) == [org |-> i.org, period |-> i.at, total |-> total]

billingInvoiceIssuedIdempotencyKey(id, invoice) == <<id, invoice.total>>

RetryDelay == 1

\* MUTANT of failedOrPendingDelivery: the attempt just made does not count.
failedOrPendingDeliveryOnceMore(delivery, retryable, now) ==
  LET canRetry == retryable /\ delivery.attempts < MaxAttempts IN
  [status |-> IF canRetry THEN "pending" ELSE "failed", attempts |-> delivery.attempts + 1,
   next |-> IF canRetry THEN now + RetryDelay ELSE 0]

failedOrPendingDelivery(delivery, retryable, now) ==
  LET attempts == delivery.attempts + 1
      canRetry == retryable /\ attempts < MaxAttempts IN
  [status |-> IF canRetry THEN "pending" ELSE "failed", attempts |-> attempts,
   next |-> IF canRetry THEN now + RetryDelay ELSE 0]

(* reply is what the endpoint did: it accepted, refused for good, or gave  *)
(* an error worth a retry (a status of retryOnStatuses, or no answer).     *)
attemptBillingWebhookDelivery(delivery, reply, now) ==
  IF reply = "accepted"
  THEN [status |-> "delivered", attempts |-> delivery.attempts + 1, next |-> 0]
  ELSE failedOrPendingDelivery(delivery, reply = "unavailable", now)

dueDeliveries(d, now) ==
  {k \in DOMAIN d.webhooks : d.webhooks[k].status = "pending" /\ d.webhooks[k].next <= now}

decideBillingInvoiceRetention(policies, invoice, at) ==
  IF /\ Has(policies, invoice)
     /\ ~policies[invoice].hold
     /\ policies[invoice].until <= at
  THEN "delete" ELSE "retain"

(* The policy a request sets: a legal hold needs its reason. *)
normalizeBillingInvoiceRetentionPolicyInput(d, i) == Require(d, i.hold => i.reason, "validation")

normalizeBillingInvoiceAdjustmentInput(d, i) == Require(d, i.amount > 0, "validation")
=============================================================================
