---------------------------- MODULE ControlPlaneDb ----------------------------
(***************************************************************************)
(* The control plane's database as a value: one record d with a field per  *)
(* table, a table being a function from primary keys to rows.  The         *)
(* repository methods of PostgresRepository and SqliteRepository are       *)
(* operators that take a database and return the result of one statement   *)
(* or transaction: its outcome (an error code of errors.ts or "ok") and    *)
(* the database after it.                                                  *)
(*                                                                         *)
(* Rows keep what some guard, constraint or property looks at.  Names,     *)
(* timestamps that are only displayed, dimensions, labels and JSON layout  *)
(* are left out; a path prefix is always "/", so a route is identified by  *)
(* its project and host.  Identifiers are given by the request (the code   *)
(* takes input.id before it generates one).                                *)
(***************************************************************************)
EXTENDS Integers, Sequences, FiniteSets, TLC

CONSTANTS None,         \* the value of an optional field that is absent
          Quota,        \* projectQuotas: the limit of every resource
          UsageLimit,   \* projectUsageQuotas: units of a metric per period
          BudgetLimit,  \* projectBillingBudgets: spending per period
          MaxAttempts   \* billingWebhookMaxAttempts

ASSUME LimitsAssumption ==
  /\ Quota \in Nat
  /\ UsageLimit \in Nat
  /\ BudgetLimit \in Nat
  /\ MaxAttempts \in Nat \ {0}

NoRows == [x \in {} |-> x]

(* A database with every table empty.  received, scripts and snapshots are *)
(* not tables but what other systems hold: the webhooks a billing endpoint *)
(* accepted, the scripts an edge provider runs, and the route snapshots    *)
(* made so far, in the order of their generatedAt.                         *)
EmptyDb ==
  [organizations |-> NoRows, users |-> NoRows, projects |-> NoRows,
   memberships |-> NoRows, apiKeys |-> NoRows, increases |-> NoRows,
   audit |-> {}, usage |-> NoRows, invoices |-> NoRows, webhooks |-> NoRows,
   adjustments |-> NoRows, policies |-> NoRows, domains |-> NoRows,
   previews |-> NoRows, artifacts |-> NoRows, secrets |-> NoRows,
   kvNamespaces |-> NoRows, doNamespaces |-> NoRows, deployments |-> NoRows,
   routes |-> NoRows, decisions |-> {}, nodes |-> NoRows,
   publications |-> {}, releases |-> NoRows, operations |-> NoRows,
   received |-> {}, scripts |-> {}, snapshots |-> <<>>]

-----------------------------------------------------------------------------
(* Results, and the sequencing of two of them: what a thrown error skips.  *)

Ok(d) == [out |-> "ok", db |-> d]
Fail(d, code) == [out |-> code, db |-> d]
Then(r, F(_)) == IF r.out = "ok" THEN F(r.db) ELSE r
Require(d, cond, code) == IF cond THEN Ok(d) ELSE Fail(d, code)

(* r, unless the check of the same database threw before it. *)
Provided(check, r) == IF check.out = "ok" THEN r ELSE check

-----------------------------------------------------------------------------
(* The constraints of the schema: <<table, columns>> for each unique key,  *)
(* <<table, column, referenced table>> for each foreign key.               *)

TenancySchema ==
  [unique |-> {<<"organizations", {"name"}>>, <<"users", {"email"}>>, <<"projects", {"name"}>>},
   references |-> {<<"projects", "org", "organizations">>,
     <<"memberships", "project", "projects">>, <<"memberships", "user", "users">>,
     <<"increases", "org", "organizations">>, <<"increases", "project", "projects">>,
     <<"apiKeys", "org", "organizations">>, <<"apiKeys", "project", "projects">>,
     <<"usage", "project", "projects">>}]

BillingSchema ==
  [unique |-> {<<"invoices", {"org", "period"}>>},
   references |-> {<<"invoices", "org", "organizations">>, <<"adjustments", "invoice", "invoices">>,
     <<"policies", "invoice", "invoices">>}]

RoutingSchema ==
  [unique |-> {<<"domains", {"host"}>>, <<"artifacts", {"digest"}>>, <<"secrets", {"project", "name"}>>,
     <<"kvNamespaces", {"project", "name"}>>, <<"doNamespaces", {"project", "name"}>>},
   references |-> {<<"domains", "project", "projects">>, <<"artifacts", "project", "projects">>,
     <<"secrets", "project", "projects">>, <<"kvNamespaces", "project", "projects">>,
     <<"doNamespaces", "project", "projects">>, <<"deployments", "project", "projects">>,
     <<"deployments", "artifact", "artifacts">>, <<"routes", "project", "projects">>,
     <<"routes", "deployment", "deployments">>, <<"previews", "project", "projects">>,
     <<"previews", "deployment", "deployments">>}]

FleetSchema ==
  [unique |-> {<<"nodes", {"url"}>>},
   references |-> {<<"releases", "project", "projects">>, <<"releases", "deployment", "deployments">>,
     <<"operations", "release", "releases">>}]

Schemas == {TenancySchema, BillingSchema, RoutingSchema, FleetSchema}
UniqueKeys == UNION {s.unique : s \in Schemas}
ForeignKeys == UNION {s.references : s \in Schemas}

-----------------------------------------------------------------------------
(* SQL statements.  A primary or unique key that is taken is found before  *)
(* a foreign key that is missing.                                          *)

Put(t, k, row) == [x \in DOMAIN t \union {k} |-> IF x = k THEN row ELSE t[x]]
Drop(t, k) == [x \in DOMAIN t \ {k} |-> t[x]]
Has(t, k) == k \in DOMAIN t
OptionalKey(t, k) == k = None \/ Has(t, k)

SatisfiesUnique(d, t, row) ==
  \A key \in UniqueKeys : key[1] = t =>
    \A x \in DOMAIN d[t] : \E column \in key[2] : d[t][x][column] # row[column]

SatisfiesReferences(d, t, row) ==
  \A key \in ForeignKeys : key[1] = t => OptionalKey(d[key[3]], row[key[2]])

(* insert into t values (k, row) *)
Insert(d, t, k, row) ==
  IF Has(d[t], k) \/ ~SatisfiesUnique(d, t, row) THEN Fail(d, "conflict")
  ELSE IF ~SatisfiesReferences(d, t, row) THEN Fail(d, "validation")
  ELSE Ok([d EXCEPT ![t] = Put(@, k, row)])

(* insert ... on conflict (k) do update *)
Upsert(d, t, k, row) ==
  IF SatisfiesReferences(d, t, row) THEN Ok([d EXCEPT ![t] = Put(@, k, row)]) ELSE Fail(d, "validation")

(* update t set column = value where id = k *)
SetColumn(d, t, k, column, value) ==
  IF Has(d[t], k) THEN Ok([d EXCEPT ![t][k][column] = value]) ELSE Fail(d, "not_found")

(* update t set row where id = k; no row changed is "not_found" *)
Update(d, t, k, row) ==
  IF Has(d[t], k) THEN Ok([d EXCEPT ![t][k] = row]) ELSE Fail(d, "not_found")

(* delete from t where id = k *)
Delete(d, t, k) ==
  IF Has(d[t], k) THEN Ok([d EXCEPT ![t] = Drop(@, k)]) ELSE Fail(d, "not_found")

=============================================================================
