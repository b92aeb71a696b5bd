-------------------------------- MODULE Billing --------------------------------
(***************************************************************************)
(* async-service.ts: usage metering, invoices, webhooks and retention, one *)
(* disjunct per await.                                                     *)
(***************************************************************************)
EXTENDS ControlPlaneCalls, Metering

(* A conflict of the insert is another attempt of the same event. *)
recordUsageEvent(c) ==
  LET i == in(c) IN
  \/ /\ At(c, "recordUsageEvent", "start")
     /\ IF Has(db.projects, i.project) /\ Has(db.usage, i.id)
        THEN Reply(c, resolveUsageEventReplay(i, db.usage[i.id]))
        ELSE Check(c, requireProject(i.project), "quota", None)
  \/ /\ At(c, "recordUsageEvent", "quota")
     /\ Check(c, enforceProjectUsageQuota(db, i), "budget", None)
  \/ /\ At(c, "recordUsageEvent", "budget")
     /\ Check(c, enforceProjectBillingBudget(db, i), "insert", None)
  \/ /\ At(c, "recordUsageEvent", "insert")
     /\ LET r == Pg!createUsageEvent(db, i) IN
        IF r.out = "conflict" THEN Await(c, "raced", None) ELSE Finish(c, r)
  \/ /\ At(c, "recordUsageEvent", "raced")
     /\ Reply(c, resolveUsageEventReplay(i, db.usage[i.id]))

-----------------------------------------------------------------------------
getOrganizationBillingInvoiceByPeriod(org, period) ==
  {v \in DOMAIN db.invoices : db.invoices[v].org = org /\ db.invoices[v].period = period}

(* The invoice as the call read or made it; own: the call inserted it. *)
heldInvoice(id, invoice, own) == [id |-> id, invoice |-> invoice, own |-> own]

\* MUTANT of issuedBefore: the invoice is there, so everything is done.
issuedBeforeSkipsWebhook(c, v) == Reply(c, "ok")

issuedBefore(c, v) == Await(c, "enqueue", heldInvoice(v, db.invoices[v], FALSE))

issueOrganizationBillingInvoice(c) ==
  LET i == in(c)
      ofPeriod == getOrganizationBillingInvoiceByPeriod(i.org, i.at)
      insert == Pg!createBillingInvoice(db, i.id, createOrganizationBillingInvoice(i, loc(c))) IN
  \/ /\ At(c, "issueOrganizationBillingInvoice", "start")
     /\ IF Has(db.organizations, i.org) /\ ofPeriod # {}
        THEN \E v \in ofPeriod : issuedBefore(c, v)
        ELSE Check(c, requireOrganization(i.org), "summaries", None)
  \/ /\ At(c, "issueOrganizationBillingInvoice", "summaries")
     /\ Await(c, "insert", createOrganizationBillingStatement(db, i.org, i.at))
  \/ /\ At(c, "issueOrganizationBillingInvoice", "insert")
     /\ IF insert.out = "conflict" THEN Await(c, "raced", None)
        ELSE Write(c, insert, "audit", heldInvoice(i.id, createOrganizationBillingInvoice(i, loc(c)), TRUE))
  \/ /\ At(c, "issueOrganizationBillingInvoice", "audit")
     /\ Write(c, recordCustomerAuditEvent(db, "billing_invoice.issued", i.id, i.org, None), "enqueue", loc(c))
  \/ /\ At(c, "issueOrganizationBillingInvoice", "raced")
     /\ IF ofPeriod = {} THEN Reply(c, "conflict")
        ELSE \E v \in ofPeriod : issuedBefore(c, v)

(* The end of issueOrganizationBillingInvoice, whatever branch it took.  A *)
(* delivery that vanished again under the insert is a conflict, which the  *)
(* caller that made the invoice catches and the others do not.             *)
enqueueBillingInvoiceWebhook(c) ==
  LET key == billingInvoiceIssuedIdempotencyKey(loc(c).id, loc(c).invoice) IN
  \/ /\ At(c, "issueOrganizationBillingInvoice", "enqueue")
     /\ IF Has(db.webhooks, key) THEN Reply(c, "ok") ELSE Await(c, "enqueueInsert", loc(c))
  \/ /\ At(c, "issueOrganizationBillingInvoice", "enqueueInsert")
     /\ LET r == Pg!createBillingWebhookDelivery(db, key) IN
        IF r.out = "conflict" THEN Await(c, "enqueueRaced", loc(c)) ELSE Finish(c, r)
  \/ /\ At(c, "issueOrganizationBillingInvoice", "enqueueRaced")
     /\ IF Has(db.webhooks, key) THEN Reply(c, "ok")
        ELSE IF loc(c).own THEN Await(c, "raced", None) ELSE Reply(c, "conflict")

-----------------------------------------------------------------------------
\* MUTANT of leftToSend: the row stays in the list.
leftToSendAgain(rows, k) == rows

leftToSend(rows, k) == Drop(rows, k)

(* loc is what the listing returned and is not attempted yet: the rows as  *)
(* they were then.  Nothing claims a delivery before it is sent.           *)
deliverPendingBillingWebhooks(c) ==
  LET i == in(c) IN
  \/ /\ At(c, "deliverPendingBillingWebhooks", "start")
     /\ Await(c, "send", [k \in dueDeliveries(db, i.now) |-> db.webhooks[k]])
  \/ /\ At(c, "deliverPendingBillingWebhooks", "send")
     /\ IF loc(c) = NoRows THEN Reply(c, "ok")
        ELSE \E k \in DOMAIN loc(c) :
               /\ db' = [db EXCEPT !.received = IF i.reply = "accepted" THEN @ \union {k} ELSE @]
               /\ Goto(c, "record", [sent |-> k, rows |-> loc(c)])
  \/ /\ At(c, "deliverPendingBillingWebhooks", "record")
     /\ LET k == loc(c).sent IN
        Write(c, Pg!updateBillingWebhookDelivery(db, k,
                   attemptBillingWebhookDelivery(loc(c).rows[k], i.reply, i.now)),
              "send", leftToSend(loc(c).rows, k))

-----------------------------------------------------------------------------
getBillingInvoice(id) == Require(db, Has(db.invoices, id), "not_found")

createBillingInvoiceAdjustment(c) ==
  \/ /\ At(c, "createBillingInvoiceAdjustment", "start")
     /\ Check(c, Then(getBillingInvoice(in(c).invoice),
                      LAMBDA e : normalizeBillingInvoiceAdjustmentInput(e, in(c))), "write", None)
  \/ /\ At(c, "createBillingInvoiceAdjustment", "write")
     /\ Finish(c, Pg!createBillingInvoiceAdjustment(db, in(c).id, in(c).invoice))

setBillingInvoiceRetentionPolicy(c) ==
  \/ /\ At(c, "setBillingInvoiceRetentionPolicy", "start")
     /\ Check(c, Then(getBillingInvoice(in(c).invoice),
                      LAMBDA e : normalizeBillingInvoiceRetentionPolicyInput(e, in(c))), "write", None)
  \/ /\ At(c, "setBillingInvoiceRetentionPolicy", "write")
     /\ Finish(c, Pg!upsertBillingInvoiceRetentionPolicy(db, in(c)))

(* loc is the invoices listed and not decided yet.  The policy that decides *)
(* is read one await before the invoice is deleted.                        *)
pruneBillingInvoices(c) ==
  LET i == in(c) IN
  \/ /\ At(c, "pruneBillingInvoices", "start")
     /\ Check(c, requireOrganization(i.org), "policy",
              {v \in DOMAIN db.invoices : db.invoices[v].org = i.org})
  \/ /\ At(c, "pruneBillingInvoices", "policy")
     /\ IF loc(c) = {} THEN Reply(c, "ok")
        ELSE \E v \in loc(c) :
               IF decideBillingInvoiceRetention(db.policies, v, i.now) = "retain"
               THEN Await(c, "policy", loc(c) \ {v})
               ELSE Await(c, "delete", [expired |-> v, left |-> loc(c) \ {v}])
  \/ /\ At(c, "pruneBillingInvoices", "delete")
     /\ Write(c, Pg!deleteBillingInvoice(db, loc(c).expired), "policy", loc(c).left)

BillingNext(c) ==
  \/ recordUsageEvent(c) \/ issueOrganizationBillingInvoice(c) \/ enqueueBillingInvoiceWebhook(c)
  \/ deliverPendingBillingWebhooks(c) \/ createBillingInvoiceAdjustment(c)
  \/ setBillingInvoiceRetentionPolicy(c) \/ pruneBillingInvoices(c)
=============================================================================
