---------------------------- MODULE BillingService ----------------------------
(***************************************************************************)
(* service.ts: usage metering, invoices, webhooks and retention of the     *)
(* synchronous control plane, each operation a function of the database.   *)
(***************************************************************************)
EXTENDS TenancyService, Metering

recordUsageEvent(d, i) ==
  Provided(requireProject(d, i.project),
    IF Has(d.usage, i.id) THEN [out |-> resolveUsageEventReplay(i, d.usage[i.id]), db |-> d]
    ELSE Provided(enforceProjectUsageQuota(d, i),
         Provided(enforceProjectBillingBudget(d, i), R!createUsageEvent(d, i))))

invoicesOfPeriod(d, org, period) ==
  {v \in DOMAIN d.invoices : d.invoices[v].org = org /\ d.invoices[v].period = period}

enqueueBillingInvoiceWebhook(d, id) ==
  LET key == billingInvoiceIssuedIdempotencyKey(id, d.invoices[id]) IN
  IF Has(d.webhooks, key) THEN Ok(d) ELSE R!createBillingWebhookDelivery(d, key)

(* What a new invoice is followed by. *)
announceInvoice(d, i) ==
  Then(recordCustomerAuditEvent(d, "billing_invoice.issued", i.id, i.org, None), LAMBDA e :
       enqueueBillingInvoiceWebhook(e, i.id))

issueOrganizationBillingInvoice(d, i) ==
  Provided(requireOrganization(d, i.org),
    IF invoicesOfPeriod(d, i.org, i.at) # {}
    THEN enqueueBillingInvoiceWebhook(d, CHOOSE v \in invoicesOfPeriod(d, i.org, i.at) : TRUE)
    ELSE Then(R!createBillingInvoice(d, i.id,
                createOrganizationBillingInvoice(i, createOrganizationBillingStatement(d, i.org, i.at))), LAMBDA e :
              announceInvoice(e, i)))

(* Every delivery of due is sent, one after the other. *)
attemptDeliveries(d, i, due) ==
  [d EXCEPT
    !.webhooks = [k \in DOMAIN @ |-> IF k \in due
                                     THEN attemptBillingWebhookDelivery(@[k], i.reply, i.now) ELSE @[k]],
    !.received = IF i.reply = "accepted" THEN @ \union due ELSE @]

deliverPendingBillingWebhooks(d, i) ==
  LET due == dueDeliveries(d, i.now) IN IF due = {} THEN Ok(d) ELSE Ok(attemptDeliveries(d, i, due))

getBillingInvoice(d, id) == Require(d, Has(d.invoices, id), "not_found")

createBillingInvoiceAdjustment(d, i) ==
  Provided(getBillingInvoice(d, i.invoice),
  Provided(normalizeBillingInvoiceAdjustmentInput(d, i),
    R!createBillingInvoiceAdjustment(d, i.id, i.invoice)))

setBillingInvoiceRetentionPolicy(d, i) ==
  Provided(getBillingInvoice(d, i.invoice),
  Provided(normalizeBillingInvoiceRetentionPolicyInput(d, i),
    R!upsertBillingInvoiceRetentionPolicy(d, i)))

expiredInvoices(d, i) ==
  {v \in DOMAIN d.invoices : /\ d.invoices[v].org = i.org
                             /\ decideBillingInvoiceRetention(d.policies, v, i.now) = "delete"}

pruneBillingInvoices(d, i) ==
  Provided(requireOrganization(d, i.org),
    FoldSet(LAMBDA v, r : R!deleteBillingInvoice(r.db, v), Ok(d), expiredInvoices(d, i)))
=============================================================================
