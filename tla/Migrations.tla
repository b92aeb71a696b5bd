----------------------------- MODULE Migrations -----------------------------
(***************************************************************************)
(* How a control plane opens its database: control-plane/migrations.ts,   *)
(* the SQLite catalogue of control-plane/repository.ts and the Postgres    *)
(* script db/postgres/001_init.sql.                                        *)
(*                                                                         *)
(* The SQLite repository runs its whole schema (create ... if not exists)  *)
(* and then every migration the database does not record, with no          *)
(* transaction around any of it: a process may die, or meet a busy         *)
(* database, after any statement, and two processes may open one file at   *)
(* once.  Postgres runs one script in one transaction.  The database an    *)
(* opener finds is new, or was left by an earlier release.                 *)
(*                                                                         *)
(* A table is the set of its columns; the columns it has had since the     *)
(* release that introduced it stand as one, "base".  Of the rows only      *)
(* those are kept that a new column left blank and a migration must fill.  *)
(***************************************************************************)
EXTENDS Naturals, Sequences, FiniteSets, SequencesExt

CONSTANTS
    Openers,      \* the processes that may open the database
    Openings      \* the cases of the instance: the database system, the release whose database is opened
                  \* (none: a new one), the processes that open it and how often they start, all together

VARIABLES
    opening,      \* the case being run
    schemaDb,     \* the database: tables, indexes, recorded migrations
    populated,    \* the tables that hold rows of an earlier release
    opener,       \* where each process is in opening it
    starts,       \* how many processes have been started
    mishaps       \* the errors statements have raised

migrationVars == <<opening, schemaDb, populated, opener, starts, mishaps>>

(***************************************************************************)
(* Statements.                                                             *)
(***************************************************************************)
Table(t, cols) == [op |-> "table", on |-> t, cols |-> {"base"} \cup cols, col |-> "base", blank |-> FALSE]

Index(i, t) == [op |-> "index", on |-> t, cols |-> {i}, col |-> "base", blank |-> FALSE]

Column(t, c) == [op |-> "column", on |-> t, cols |-> {}, col |-> c, blank |-> FALSE]

\* A column whose default is the empty string: the rows there are hold ''.
BlankColumn(t, c) == [Column(t, c) EXCEPT !.blank = TRUE]

Fill(t, c) == [op |-> "fill", on |-> t, cols |-> {}, col |-> c, blank |-> FALSE]

Columns(t, cs) == [i \in DOMAIN cs |-> Column(t, cs[i])]

(***************************************************************************)
(* The schema every SQLite repository runs when it is constructed.         *)
(***************************************************************************)
schemaTenancy == <<
    Table("schema_migrations", {}),
    Table("organizations", {"billing_provider", "billing_customer_id", "payment_status", "billing_email",
                            "payment_status_updated_at"}),
    Table("users", {"email_verified_at"}),
    Table("projects", {"organization_id"}),
    Table("project_memberships", {"invite_status", "invited_at", "accepted_at"}),
    Table("production_quota_increases", {}), Index("org_idx", "production_quota_increases"),
    Table("api_keys", {}) >>

schemaMetering == <<
    Table("usage_events", {}), Index("project_time_idx", "usage_events"), Index("org_time_idx", "usage_events"),
    Table("customer_audit_events", {}), Index("project_idx", "customer_audit_events"),
    Index("org_idx", "customer_audit_events") >>

schemaBilling == <<
    Table("billing_invoices", {"content_digest"}), Index("org_issued_idx", "billing_invoices"),
    Table("billing_webhook_deliveries", {}), Index("status_next_idx", "billing_webhook_deliveries"),
    Table("billing_invoice_adjustments", {}), Index("invoice_idx", "billing_invoice_adjustments"),
    Table("billing_invoice_retention_policies", {}), Index("org_idx", "billing_invoice_retention_policies") >>

schemaResources == <<
    Table("custom_domains", {}), Index("project_idx", "custom_domains"),
    Table("artifacts", {"signature_json", "provenance_json"}),
    Table("secrets", {}), Table("kv_namespaces", {}), Table("durable_object_namespaces", {}),
    Table("deployments", {"wasi_version", "world_version"}) >>

schemaRouting == <<
    Table("routes", {"targets_json"}),
    Table("deploy_previews", {}), Index("project_idx", "deploy_previews"),
    Table("edge_worker_releases", {"status", "updated_at", "deleted_at", "last_error"}),
    Index("project_idx", "edge_worker_releases"),
    Table("edge_worker_release_operations", {}), Index("pending_idx", "edge_worker_release_operations"),
    Index("release_idx", "edge_worker_release_operations") >>

schemaFleet == <<
    Table("runtime_nodes", {"status", "last_seen_at", "version", "capacity_json", "region", "labels_json",
                            "load_json", "identity_json", "host_json"}),
    Table("route_snapshot_publications", {"snapshot_id"}),
    Table("canary_decisions", {}),
    Table("fly_autoscaler_coordination", {}) >>

schema == FlattenSeq(<<schemaTenancy, schemaMetering, schemaBilling, schemaResources, schemaRouting, schemaFleet>>)

(***************************************************************************)
(* The migrations, oldest first: each a sequence of steps, a step being    *)
(* one db.exec() (a sequence of statements) or one ensureColumn().         *)
(***************************************************************************)
Step(statements) == [exec |-> statements, ensure |-> <<>>]

ensure(columns) == [i \in DOMAIN columns |-> [exec |-> <<>>, ensure |-> <<columns[i]>>]]

wasip3_alias == <<Step(<<Fill("deployments", "wasi_version")>>)>>

route_targets == ensure(Columns("routes", <<"targets_json">>))

runtime_node_health == ensure(Columns("runtime_nodes", <<"status", "last_seen_at", "version", "capacity_json">>))

snapshot_publications == <<Step(<<Table("route_snapshot_publications", {"snapshot_id"})>>)>>

secret_registry == <<Step(<<Table("secrets", {})>>)>>

kv_namespace_registry == <<Step(<<Table("kv_namespaces", {})>>)>>

durable_object_registry == <<Step(<<Table("durable_object_namespaces", {})>>)>>

route_snapshot_id == ensure(Columns("route_snapshot_publications", <<"snapshot_id">>))

runtime_node_placement == ensure(Columns("runtime_nodes", <<"region", "labels_json", "load_json">>))

canary_decisions == <<Step(<<Table("canary_decisions", {})>>)>>

worker_world_version ==
    ensure(Columns("deployments", <<"world_version">>)) \o <<Step(<<Fill("deployments", "world_version")>>)>>

artifact_metadata == ensure(Columns("artifacts", <<"signature_json", "provenance_json">>))

runtime_node_identity == ensure(Columns("runtime_nodes", <<"identity_json">>))

runtime_node_host_info == ensure(Columns("runtime_nodes", <<"host_json">>))

fly_coordination == <<Step(<<Table("fly_autoscaler_coordination", {})>>)>>

\* The organizations of this migration lack the billing columns, which a later one adds.
tenant_identity ==
    << Step(<< Table("organizations", {}), Table("users", {"email_verified_at"}),
               Table("project_memberships", {"invite_status", "invited_at", "accepted_at"}),
               Table("api_keys", {}) >>) >>
    \o ensure(Columns("projects", <<"organization_id">>))

usage_metering ==
    << Step(<< Table("usage_events", {}), Index("project_time_idx", "usage_events"),
               Index("org_time_idx", "usage_events") >>) >>

custom_domain_registry == <<Step(<<Table("custom_domains", {}), Index("project_idx", "custom_domains")>>)>>

preview_registry == <<Step(<<Table("deploy_previews", {}), Index("project_idx", "deploy_previews")>>)>>

invoice_registry ==
    <<Step(<<Table("billing_invoices", {"content_digest"}), Index("org_issued_idx", "billing_invoices")>>)>>

billing_invoice_digest == ensure(<<BlankColumn("billing_invoices", "content_digest")>>)

webhook_deliveries ==
    <<Step(<<Table("billing_webhook_deliveries", {}), Index("status_next_idx", "billing_webhook_deliveries")>>)>>

invoice_adjustments ==
    <<Step(<<Table("billing_invoice_adjustments", {}), Index("invoice_idx", "billing_invoice_adjustments")>>)>>

invoice_retention_policies ==
    << Step(<< Table("billing_invoice_retention_policies", {}),
               Index("org_idx", "billing_invoice_retention_policies") >>) >>

edge_worker_registry ==
    << Step(<< Table("edge_worker_releases", {"status", "updated_at", "deleted_at", "last_error"}),
               Index("project_idx", "edge_worker_releases") >>) >>

edge_worker_release_lifecycle == ensure(Columns("edge_worker_releases", <<"status", "deleted_at">>))

edge_worker_operations ==
    ensure(<<BlankColumn("edge_worker_releases", "updated_at"), Column("edge_worker_releases", "last_error")>>)
    \o << Step(<< Fill("edge_worker_releases", "updated_at"), Table("edge_worker_release_operations", {}),
                  Index("pending_idx", "edge_worker_release_operations"),
                  Index("release_idx", "edge_worker_release_operations") >>) >>

organization_billing_profile ==
    ensure(Columns("organizations", <<"billing_provider", "billing_customer_id", "payment_status",
                                      "billing_email">>)
           \o <<BlankColumn("organizations", "payment_status_updated_at")>>)
    \o <<Step(<<Fill("organizations", "payment_status_updated_at")>>)>>

invite_email_quota_gate ==
    ensure(<< Column("users", "email_verified_at"), Column("project_memberships", "invite_status"),
              BlankColumn("project_memberships", "invited_at"), Column("project_memberships", "accepted_at") >>)
    \o << Step(<< Fill("project_memberships", "invited_at"), Table("production_quota_increases", {}),
                  Index("org_idx", "production_quota_increases") >>) >>

audit_events ==
    << Step(<< Table("customer_audit_events", {}), Index("project_idx", "customer_audit_events"),
               Index("org_idx", "customer_audit_events") >>) >>

migrations == <<
    wasip3_alias, route_targets, runtime_node_health, snapshot_publications, secret_registry,
    kv_namespace_registry, durable_object_registry, route_snapshot_id, runtime_node_placement, canary_decisions,
    worker_world_version, artifact_metadata, runtime_node_identity, runtime_node_host_info, fly_coordination,
    tenant_identity, usage_metering, custom_domain_registry, preview_registry, invoice_registry,
    billing_invoice_digest, webhook_deliveries, invoice_adjustments, invoice_retention_policies,
    edge_worker_registry, edge_worker_release_lifecycle, edge_worker_operations, organization_billing_profile,
    invite_email_quota_gate, audit_events >>

\* A migration's id is its place in the list; 0 is the one id of the Postgres script.
SQLITE_SCHEMA_MIGRATION_IDS == DOMAIN migrations

POSTGRES_SCHEMA_MIGRATION_IDS == {0}

expectedControlPlaneMigrationIds == 
    IF opening.backend = "sqlite" THEN SQLITE_SCHEMA_MIGRATION_IDS ELSE POSTGRES_SCHEMA_MIGRATION_IDS

(***************************************************************************)
(* What a statement does to a database.                                    *)
(***************************************************************************)
\* The columns of a table, none if there is no such table.
table_info(d, t) == IF t \in DOMAIN d.tables THEN d.tables[t] ELSE {}

\* A statement that names a table or a column the database does not have raises an error.
Missing(d, q) ==
    CASE q.op = "index"  -> "base" \notin table_info(d, q.on)
      [] q.op = "column" -> "base" \notin table_info(d, q.on)
      [] q.op = "fill"   -> q.col \notin table_info(d, q.on)
      [] OTHER           -> FALSE

AddColumn(d, q) ==
    [d EXCEPT !.tables[q.on] = @ \cup {q.col},
              !.blank = IF q.blank /\ q.on \in populated THEN @ \cup {<<q.on, q.col>>} ELSE @]

exec(d, q) ==
    CASE q.op = "table" /\ q.on \notin DOMAIN d.tables ->
            [d EXCEPT !.tables = [t \in DOMAIN @ \cup {q.on} |-> IF t = q.on THEN q.cols ELSE @[t]]]
      [] q.op = "index"  -> [d EXCEPT !.indexes = @ \cup {<<q.on, i>> : i \in q.cols}]
      [] q.op = "column" /\ q.col \notin table_info(d, q.on) -> AddColumn(d, q)
      [] q.op = "fill"   -> [d EXCEPT !.blank = @ \ {<<q.on, q.col>>}]
      [] OTHER           -> d

\* The database after a sequence of statements, and whether one of them raised an error.
ExecAll(d, qs) ==
    FoldLeft(LAMBDA r, q : IF r.error \/ Missing(r.db, q) THEN [r EXCEPT !.error = TRUE]
                           ELSE [r EXCEPT !.db = exec(@, q)],
             [db |-> d, error |-> FALSE], qs)

(***************************************************************************)
(* Databases: a new one, the current schema, and what earlier releases     *)
(* left, read off the migrations that came after them.                     *)
(***************************************************************************)
NewDb == [tables |-> [t \in {} |-> {}], indexes |-> {}, recorded |-> {}, blank |-> {}]

Statements == [m \in DOMAIN migrations |->
    Range(FlattenSeq([i \in DOMAIN migrations[m] |-> migrations[m][i].exec \o migrations[m][i].ensure]))]

SchemaTables == [t \in {schema[i].on : i \in DOMAIN schema} |->
                    UNION {schema[i].cols : i \in {j \in DOMAIN schema : schema[j].op = "table" /\ schema[j].on = t}}]

SchemaIndexes == UNION {{<<schema[i].on, x>> : x \in schema[i].cols} :
                            i \in {j \in DOMAIN schema : schema[j].op = "index"}}

\* The statements of one kind in the migrations after release k, and up to it.
Later(k, op) == UNION {{q \in Statements[m] : q.op = op} : m \in {n \in DOMAIN migrations : n > k}}

Until(k, op) == UNION {{q \in Statements[m] : q.op = op} : m \in {n \in DOMAIN migrations : n <= k}}

\* The database of the release with the first k migrations; a release to come has one more than there are.
ReleaseDb(k) ==
    LET absent == {q.on : q \in Later(k, "table")} \ {q.on : q \in Until(k, "table")}
    IN  [ tables   |-> [t \in DOMAIN SchemaTables \ absent |->
                            SchemaTables[t] \ {q.col : q \in {c \in Later(k, "column") : c.on = t}}],
          indexes  |-> {x \in SchemaIndexes : x[1] \notin absent},
          recorded |-> IF opening.backend = "sqlite" THEN 1..k ELSE POSTGRES_SCHEMA_MIGRATION_IDS,
          blank    |-> IF k = 0 THEN {<<"deployments", "wasi_version">>} ELSE {} ]

(***************************************************************************)
(* The Postgres script: tables, then the columns older databases lack,     *)
(* then the indexes.  Of edge_worker_releases it adds updated_at and       *)
(* last_error and expects status to be there.                              *)
(***************************************************************************)
postgresTables == SelectSeq(schema, LAMBDA q : q.op = "table")

postgresColumns ==
    << BlankColumn("edge_worker_releases", "updated_at"), Fill("edge_worker_releases", "updated_at"),
       Column("edge_worker_releases", "last_error"), Fill("edge_worker_releases", "status"),
       Column("route_snapshot_publications", "snapshot_id"), Column("projects", "organization_id") >>
    \o Columns("organizations", <<"billing_provider", "billing_customer_id", "payment_status", "billing_email">>)
    \o << BlankColumn("organizations", "payment_status_updated_at"),
          Fill("organizations", "payment_status_updated_at"), Column("users", "email_verified_at"),
          Column("project_memberships", "invite_status"), BlankColumn("project_memberships", "invited_at"),
          Column("project_memberships", "accepted_at"), Fill("project_memberships", "invited_at"),
          Column("deployments", "world_version") >>
    \o Columns("artifacts", <<"signature_json", "provenance_json">>)
    \o Columns("runtime_nodes", <<"region", "labels_json", "load_json", "identity_json", "host_json">>)
    \o << BlankColumn("billing_invoices", "content_digest") >>

postgresScript == postgresTables \o postgresColumns \o SelectSeq(schema, LAMBDA q : q.op = "index")

(***************************************************************************)
(* migrations.ts: what `migrate check` and the start-up check report.      *)
(***************************************************************************)
migrationStatus(applied, expected) ==
    [ok         |-> expected \subseteq applied /\ applied \subseteq expected,
     current    |-> {id \in expected \cap applied : \A o \in expected \cap applied : o <= id},
     pending    |-> expected \ applied,
     unexpected |-> applied \ expected]

checkControlPlaneMigrations ==
    migrationStatus(IF "schema_migrations" \in DOMAIN schemaDb.tables THEN schemaDb.recorded ELSE {},
                    expectedControlPlaneMigrationIds)

(***************************************************************************)
(* Opening.                                                                *)
(***************************************************************************)
Down == [at |-> "down", m |-> 0, s |-> 0, tx |-> NewDb]

OpenInit ==
    /\ opening \in Openings
    /\ schemaDb = IF opening.release = <<>> THEN NewDb ELSE ReleaseDb(opening.release[1])
    /\ populated = DOMAIN schemaDb.tables
    /\ opener = [p \in Openers |-> Down]
    /\ starts = 0
    /\ mishaps = {}

Moves(p, r) == opener' = [opener EXCEPT ![p] = r]

Start(p) ==
    /\ opener[p].at = "down" /\ p \in opening.openers /\ starts < opening.starts
    /\ Moves(p, [Down EXCEPT !.at = IF opening.backend = "sqlite" THEN "schema" ELSE "begin"])
    /\ starts' = starts + 1
    /\ UNCHANGED <<opening, schemaDb, populated, mishaps>>

\* The constructor of the SQLite repository: this.db.exec(schema).
execSchema(p) ==
    /\ opener[p].at = "schema"
    /\ LET r == ExecAll(schemaDb, schema)
       IN  /\ schemaDb' = r.db
           /\ mishaps' = IF r.error THEN mishaps \cup {"missing"} ELSE mishaps
           /\ Moves(p, IF r.error THEN Down ELSE [opener[p] EXCEPT !.at = "select", !.m = 1])
    /\ UNCHANGED <<opening, populated, starts>>

\* MUTANT of runMigrations: a migration whose table is already there is taken for applied.
runMigrationsGuessing(p) ==
    LET o == opener[p]
    IN  /\ o.at = "select"
        /\ Moves(p, CASE o.m > Len(migrations)        -> [o EXCEPT !.at = "check"]
                      [] o.m \in schemaDb.recorded    -> [o EXCEPT !.m = @ + 1]
                      [] migrations[o.m][1].ensure # <<>> -> [o EXCEPT !.at = "record"]
                      [] OTHER                        -> [o EXCEPT !.at = "apply", !.s = 1])
        /\ UNCHANGED <<opening, schemaDb, populated, starts, mishaps>>

\* The loop of runMigrations(): the next migration, skipped if it is recorded.
runMigrations(p) ==
    LET o == opener[p]
    IN  /\ o.at = "select"
        /\ Moves(p, CASE o.m > Len(migrations)     -> [o EXCEPT !.at = "check"]
                      [] o.m \in schemaDb.recorded -> [o EXCEPT !.m = @ + 1]
                      [] OTHER                     -> [o EXCEPT !.at = "apply", !.s = 1])
        /\ UNCHANGED <<opening, schemaDb, populated, starts, mishaps>>

\* One step of migration.apply(db): an exec, or the look ensureColumn() takes at the table.
apply(p) ==
    LET o == opener[p]
        done == o.s > Len(migrations[o.m])
        step == migrations[o.m][o.s]
        r == ExecAll(schemaDb, step.exec)
        ensured == step.ensure # <<>> /\ step.ensure[1].col \notin table_info(schemaDb, step.ensure[1].on)
    IN  /\ o.at = "apply"
        /\ schemaDb' = IF done THEN schemaDb ELSE r.db
        /\ mishaps' = IF ~done /\ r.error THEN mishaps \cup {"missing"} ELSE mishaps
        /\ Moves(p, CASE done    -> [o EXCEPT !.at = "record"]
                      [] r.error -> Down
                      [] ensured -> [o EXCEPT !.at = "alter"]
                      [] OTHER   -> [o EXCEPT !.s = @ + 1])
        /\ UNCHANGED <<opening, populated, starts>>

\* The alter of ensureColumn(): an error if another opener has added the column in between.
ensureColumn(p) ==
    LET o == opener[p]
        q == migrations[o.m][o.s].ensure[1]
        twice == q.col \in table_info(schemaDb, q.on)
        error == twice \/ Missing(schemaDb, q)
    IN  /\ o.at = "alter"
        /\ schemaDb' = IF error THEN schemaDb ELSE AddColumn(schemaDb, q)
        /\ mishaps' = IF error THEN mishaps \cup {IF twice THEN "twice" ELSE "missing"} ELSE mishaps
        /\ Moves(p, IF error THEN Down ELSE [o EXCEPT !.at = "apply", !.s = @ + 1])
        /\ UNCHANGED <<opening, populated, starts>>

\* The row of an applied migration: an error if another opener has recorded it.
recordMigration(p) ==
    LET o == opener[p]
        twice == o.m \in schemaDb.recorded
    IN  /\ o.at = "record"
        /\ schemaDb' = [schemaDb EXCEPT !.recorded = @ \cup {o.m}]
        /\ mishaps' = IF twice THEN mishaps \cup {"twice"} ELSE mishaps
        /\ Moves(p, IF twice THEN Down ELSE [o EXCEPT !.at = "select", !.m = @ + 1])
        /\ UNCHANGED <<opening, populated, starts>>

\* assertMigrationStatus(await checkControlPlaneMigrations(config)): the last thing before serving.
assertMigrationStatus(p) ==
    /\ opener[p].at = "check"
    /\ Moves(p, [opener[p] EXCEPT !.at = IF checkControlPlaneMigrations.ok THEN "serving" ELSE "refused"])
    /\ UNCHANGED <<opening, schemaDb, populated, starts, mishaps>>

\* Postgres: begin and the script, once no other transaction holds its locks, on a copy of the database.
migrate(p) ==
    /\ opener[p].at = "begin"
    /\ \A o \in Openers : opener[o].at # "commit"
    /\ LET r == ExecAll(schemaDb, postgresScript)
       IN  /\ mishaps' = IF r.error THEN mishaps \cup {"missing"} ELSE mishaps
           /\ Moves(p, IF r.error THEN Down                                       \* rollback, and the error
                       ELSE [opener[p] EXCEPT !.at = "commit",
                                 !.tx = [r.db EXCEPT !.recorded = @ \cup POSTGRES_SCHEMA_MIGRATION_IDS]])
    /\ UNCHANGED <<opening, schemaDb, populated, starts>>

commitMigrate(p) ==
    /\ opener[p].at = "commit"
    /\ schemaDb' = opener[p].tx
    /\ Moves(p, [Down EXCEPT !.at = "check"])
    /\ UNCHANGED <<opening, populated, starts, mishaps>>

\* A process dies, or a statement of its meets a busy database: of an exec, any prefix has run.
Die(p) ==
    LET o == opener[p]
        running == CASE o.at = "schema" -> schema
                     [] o.at = "apply" /\ o.s <= Len(migrations[o.m]) -> migrations[o.m][o.s].exec
                     [] OTHER -> <<>>
    IN  /\ o.at \notin {"down", "refused"}
        /\ \E n \in 0..Len(running) : schemaDb' = ExecAll(schemaDb, SubSeq(running, 1, n)).db
        /\ Moves(p, Down)
        /\ UNCHANGED <<opening, populated, starts, mishaps>>

Settled(p) ==
    \/ opener[p].at \in {"serving", "refused"}
    \/ opener[p].at = "down" /\ (p \in opening.openers => starts = opening.starts)

AllOpened ==
    /\ \A p \in Openers : Settled(p)
    /\ UNCHANGED migrationVars

OpenNext ==
    \/ \E p \in Openers :
         \/ Start(p) \/ execSchema(p) \/ runMigrations(p) \/ apply(p) \/ ensureColumn(p)
         \/ recordMigration(p) \/ assertMigrationStatus(p) \/ migrate(p) \/ commitMigrate(p) \/ Die(p)
    \/ AllOpened

(***************************************************************************)
(* Properties.                                                             *)
(***************************************************************************)
\* Blank values the rows' reader fills in itself: billingInvoiceFromRow() computes a missing digest.
ReaderFills == {<<"billing_invoices", "content_digest">>}

Current(d) ==
    /\ DOMAIN SchemaTables = DOMAIN d.tables
    /\ \A t \in DOMAIN SchemaTables : d.tables[t] = SchemaTables[t]
    /\ SchemaIndexes \subseteq d.indexes
    /\ d.blank \subseteq ReaderFills

\* Whatever release the database comes from, wherever earlier openers died in it and whoever opens it at the
\* same time: a control plane that serves has every table, column and index the repository uses and no row a
\* migration forgot to fill; a database the check calls current is; a SQLite migration is recorded only after
\* all of it has run, in the order of the list, and no statement ever meets a missing table or column; and a
\* database of a newer release is never served.
MigrationsComplete ==
    /\ \A p \in Openers : opener[p].at = "serving" =>
          Current(schemaDb) /\ Len(migrations) + 1 \notin schemaDb.recorded
    /\ checkControlPlaneMigrations.ok /\ opening.backend = "sqlite" => Current(schemaDb)
    /\ opening.backend = "sqlite" =>
          /\ "missing" \notin mishaps
          /\ \A m \in schemaDb.recorded : \A n \in 1..m : n \in schemaDb.recorded
          /\ \A m \in schemaDb.recorded \cap DOMAIN migrations : \A q \in Statements[m] :
                /\ q.op \in {"column", "fill"} => q.col \in table_info(schemaDb, q.on)
                /\ q.op = "fill" => <<q.on, q.col>> \notin schemaDb.blank
                /\ q.op = "table" => q.on \in DOMAIN schemaDb.tables
=============================================================================
