---------------------------- MODULE VolumeSqlite ----------------------------
(***************************************************************************)
(* The SQLite databases on a volume (volume-sqlite.ts): the catalog, the   *)
(* pool of open handles, the writer queue of each database, backups and    *)
(* restores.  Every method runs to its end at once but writeDatabase(),    *)
(* whose operation may await: meanwhile its handle can be evicted from the *)
(* pool, or its database restored.  A method may also stop on the way: it  *)
(* throws, or the process dies.                                            *)
(*                                                                         *)
(* A database file is what its transactions left: the writes in order, the *)
(* alarm of the durable object that owns it and its user_version.          *)
(***************************************************************************)
EXTENDS Integers, Sequences, FiniteSets, FiniteSetsExt, SequencesExt

CONSTANTS VolumeDbs,      \* database ids
          Keyrings,       \* the backup keys a process may be configured with, the primary one first
          NoCipher,
          MaxOpen, MaxPending,
          KeepLatest,     \* maxBackupsPerDatabase, -1 if undefined
          RetentionMs,    \* backupRetentionMs, -1 if undefined
          VolumeScripts   \* what is called in a run: [calls, dispatches, torn]

ASSUME VolumeAssumption ==
  /\ MaxOpen \in Nat \ {0} /\ MaxPending \in Nat \ {0}
  /\ KeepLatest \in Int /\ RetentionMs \in Int
  /\ \A s \in VolumeScripts : \A k \in DOMAIN s.calls : s.calls[k].do = "export" => s.calls[k].arg \in Nat

VARIABLES catalog,    \* volume_sqlite_databases: id -> [schema]
          dbFiles,    \* the files: id -> [log, alarm, version, ok]
          pool,       \* open handles, least recently used first
          wq,         \* the writer queues: id -> [tail, active, pending]
          jobs,       \* every operation ever enqueued, in order; out is what getAlarm() read
          backups,    \* volume_sqlite_backups: id -> [db, file, created, seal], with what was exported
          backupDir,  \* the backup files: id -> [file, seal], under a key and an IV, or <<>>
          cipher,     \* the configured cipher
          kept,       \* history: what each database must hold, by its callers
          volTime,    \* Date.now()
          script,     \* the calls of the run
          called      \* how many have been made

storeVars == <<catalog, dbFiles, pool, wq, jobs, backups, backupDir, cipher, kept>>
volumeVars == <<storeVars, volTime, script, called>>

EmptyFile == [log |-> <<>>, alarm |-> 0, version |-> 0, ok |-> TRUE]
Nothing == [log |-> <<>>, alarm |-> 0]

(* New backups are under the primary key; the others open old ones. *)
createConfiguredVolumeSqliteBackupCipher(keys) ==
  IF keys = <<>> THEN NoCipher ELSE [primary |-> Head(keys), keys |-> ToSet(keys)]

VolumeInit ==
  /\ catalog = <<>> /\ dbFiles = <<>> /\ pool = <<>> /\ wq = <<>> /\ jobs = <<>>
  /\ backups = <<>> /\ backupDir = <<>>
  /\ \E keys \in Keyrings : cipher = createConfiguredVolumeSqliteBackupCipher(keys)
  /\ kept = [d \in VolumeDbs |-> Nothing]
  /\ volTime = 0 /\ script \in VolumeScripts /\ called = 0

With(f, x, v) == [y \in DOMAIN f \union {x} |-> IF y = x THEN v ELSE f[y]]
Without(f, s) == [y \in DOMAIN f \ s |-> f[y]]

-----------------------------------------------------------------------------
(* the pool of handles *)

evictOverflow(p) == SubSeq(p, Max({1, Len(p) - MaxOpen + 1}), Len(p))

poolClose(p, d) ==
  LET at == {i \in DOMAIN p : p[i] = d}
  IN IF at = {} THEN p ELSE RemoveAt(p, CHOOSE i \in at : TRUE)

poolOpen(p, d) == evictOverflow(Append(poolClose(p, d), d))

(* Operations under way on a database whose handle was closed. *)
Cut(js, closed) ==
  [j \in DOMAIN js |-> IF js[j].st = "running" /\ js[j].db \in closed THEN [js[j] EXCEPT !.alive = FALSE] ELSE js[j]]

Opened(js, d) == Cut(js, ToSet(pool) \ ToSet(poolOpen(pool, d)))

(* Opening creates the file; a file that is no database does not open. *)
FileOf(d) == IF d \in DOMAIN dbFiles THEN dbFiles[d] ELSE EmptyFile

-----------------------------------------------------------------------------
(* the writer queue *)

Waiting(d) == IF d \in DOMAIN wq THEN wq[d].pending ELSE 0

stateFor(d) == IF d \in DOMAIN wq THEN wq[d] ELSE [tail |-> 0, active |-> FALSE, pending |-> 0]

QueueFull(d) == Waiting(d) >= MaxPending

(* The operation waits for the queue's tail, and becomes it. *)
enqueue(js, d, op) ==
  /\ jobs' = Append(js, [db |-> d, op |-> op, after |-> stateFor(d).tail, st |-> "queued", alive |-> TRUE,
                         local |-> <<>>, out |-> <<>>])
  /\ wq' = With(wq, d, [stateFor(d) EXCEPT !.tail = Len(js) + 1, !.pending = @ + 1])

(* finally: a queue that nothing is left in is forgotten. *)
finished(d) ==
  IF d \notin DOMAIN wq THEN wq
  ELSE IF wq[d].pending = 1 THEN Without(wq, {d})
  ELSE [wq EXCEPT ![d].active = FALSE, ![d].pending = @ - 1]

Unfinished == {j \in DOMAIN jobs : jobs[j].st \in {"queued", "running"}}

Ready(j) == jobs[j].st = "queued" /\ jobs[j].after \notin Unfinished

Done(js, j, st, out) == [js EXCEPT ![j].st = st, ![j].out = out, ![j].local = <<>>]

(* What a synchronous operation leaves in the file, under begin immediate  *)
(* and commit.                                                             *)
Applied(f, op) ==
  CASE op.kind = "put" -> [f EXCEPT !.log = Append(@, op.arg)]
    [] op.kind = "setAlarm" -> [f EXCEPT !.alarm = op.arg]
    [] op.kind = "deleteAlarm" -> [f EXCEPT !.alarm = 0]
    [] OTHER -> f

(* What the callers of a database may count on once an operation is done. *)
Acknowledged(d, op) ==
  CASE op.kind \in {"put", "transaction"} -> [kept EXCEPT ![d].log = Append(@, op.arg)]
    [] op.kind = "setAlarm" -> [kept EXCEPT ![d].alarm = op.arg]
    [] op.kind = "deleteAlarm" /\ op.arg = 0 -> [kept EXCEPT ![d].alarm = 0]
    [] OTHER -> kept

(* withDatabase() under the queue: a synchronous operation is done, or     *)
(* throws and is rolled back; a transaction begins and awaits its callback. *)
RunJob(j) ==
  LET d == jobs[j].db
      op == jobs[j].op
  IN /\ Ready(j)
     /\ IF d \notin DOMAIN catalog \/ ~FileOf(d).ok
        THEN /\ jobs' = Done(jobs, j, "failed", <<>>)
             /\ wq' = finished(d)
             /\ UNCHANGED <<dbFiles, pool, kept>>
        ELSE /\ pool' = poolOpen(pool, d)
             /\ \/ /\ op.kind = "transaction"
                   /\ jobs' = [Opened(jobs, d) EXCEPT ![j].st = "running", ![j].local = FileOf(d).log]
                   /\ wq' = [wq EXCEPT ![d].active = TRUE]
                   /\ UNCHANGED <<dbFiles, kept>>
                \/ /\ op.kind # "transaction"
                   /\ jobs' = Done(Opened(jobs, d), j, "done", <<FileOf(d).alarm>>)
                   /\ dbFiles' = With(dbFiles, d, Applied(FileOf(d), op))
                   /\ kept' = Acknowledged(d, op)
                   /\ wq' = finished(d)
     /\ UNCHANGED <<catalog, backups, backupDir, cipher>>

(* The callback of a transaction has ended: commit, unless it threw or its *)
(* handle was closed.                                                      *)
EndTransaction(j) ==
  LET d == jobs[j].db IN
  /\ jobs[j].st = "running"
  /\ \/ /\ jobs[j].alive
        /\ dbFiles' = [dbFiles EXCEPT ![d].log = Append(jobs[j].local, jobs[j].op.arg)]
        /\ kept' = Acknowledged(d, jobs[j].op)
        /\ jobs' = Done(jobs, j, "done", <<>>)
     \/ UNCHANGED <<dbFiles, kept>> /\ jobs' = Done(jobs, j, "failed", <<>>)
  /\ wq' = finished(d)
  /\ UNCHANGED <<catalog, pool, backups, backupDir, cipher>>

-----------------------------------------------------------------------------
(* the catalog *)

(* A row is made or updated, then the file is opened and its user_version  *)
(* raised.                                                                 *)
Ensured(d, schema) == With(catalog, d, [schema |-> IF d \in DOMAIN catalog THEN Max({catalog[d].schema, schema}) ELSE schema])

initializeDatabaseFile(f, schema) == [f EXCEPT !.version = Max({@, schema})]

ensureDatabase(d, schema) ==
  /\ catalog' = Ensured(d, schema)
  /\ IF FileOf(d).ok
     THEN /\ pool' = poolOpen(pool, d)
          /\ dbFiles' = With(dbFiles, d, initializeDatabaseFile(FileOf(d), catalog'[d].schema))
     ELSE UNCHANGED <<pool, dbFiles>>
  /\ UNCHANGED <<backups, backupDir, cipher, kept>>

-----------------------------------------------------------------------------
(* backups *)

newer(rows, c, b) ==
  /\ rows[c].db = rows[b].db
  /\ rows[c].created > rows[b].created \/ (rows[c].created = rows[b].created /\ c > b)

(* The place of a backup among those of its database, newest first. *)
rankOf(rows, b) == Cardinality({c \in DOMAIN rows : newer(rows, c, b)})

backupCreatedBefore(row, cutoff) == row.created < cutoff

(* Beyond the newest ones; or old, when no number of them is kept. *)
prunedBackups(rows, dbs, keepLatest, olderThan) ==
  {b \in DOMAIN rows :
     /\ rows[b].db \in dbs
     /\ \/ keepLatest >= 0 /\ rankOf(rows, b) >= keepLatest
        \/ keepLatest < 0 /\ olderThan >= 0 /\ backupCreatedBefore(rows[b], volTime - olderThan)}

(* One after the other, those of a database from the newest on: the file,  *)
(* then the row.  It may stop between two of them, or within one.          *)
deleteBackups(rows, dir, gone) ==
  \E done \in SUBSET gone :
    /\ \A b \in done, c \in gone : newer(rows, c, b) => c \in done
    /\ backups' = Without(rows, done)
    /\ \/ backupDir' = Without(dir, done)
       \/ \E b \in gone \ done :
            /\ \A c \in gone : newer(rows, c, b) => c \in done
            /\ backupDir' = Without(dir, done \union {b})

pruneBackups(dbs) ==
  /\ deleteBackups(backups, backupDir, prunedBackups(backups, dbs, KeepLatest, RetentionMs))
  /\ UNCHANGED <<catalog, dbFiles, pool, wq, jobs, cipher, kept>>

(* Every encryption takes an IV of its own. *)
encryptBackupIfConfigured == IF cipher = NoCipher THEN <<>> ELSE <<cipher.primary, called>>

InTransaction(d) == \E j \in DOMAIN jobs : jobs[j].db = d /\ jobs[j].st = "running" /\ jobs[j].alive

(* vacuum into a new file, which fails within a transaction of the handle; *)
(* the file, then the row, then what is beyond the retention goes.  A row  *)
(* of that id refuses the new one and stays, beside the new file.          *)
exportDatabase(d, b) ==
  /\ d \in DOMAIN catalog /\ FileOf(d).ok /\ b \notin DOMAIN backupDir
  /\ pool' = poolOpen(pool, d)
  /\ jobs' = Opened(jobs, d)
  /\ dbFiles' = With(dbFiles, d, FileOf(d))
  /\ LET dir == With(backupDir, b, [file |-> FileOf(d), seal |-> encryptBackupIfConfigured])
         rows == With(backups, b, [db |-> d, file |-> FileOf(d), created |-> volTime, seal |-> encryptBackupIfConfigured])
     IN \/ /\ ~InTransaction(d) /\ b \notin DOMAIN backups
           /\ deleteBackups(rows, dir, prunedBackups(rows, {d}, KeepLatest, RetentionMs))
        \/ ~InTransaction(d) /\ backupDir' = dir /\ UNCHANGED backups  \* the row is not written
        \/ InTransaction(d) /\ UNCHANGED <<backups, backupDir>>
  /\ UNCHANGED <<catalog, wq, cipher, kept>>

(* AES-GCM: a file opens under the key and the IV it was sealed with. *)
decrypts(seal) == IF seal = <<>> THEN TRUE ELSE cipher # NoCipher /\ seal[1] \in cipher.keys

decryptBackupIfNeeded(b) ==
  b \in DOMAIN backupDir /\ backupDir[b].seal = backups[b].seal /\ decrypts(backups[b].seal)

(* A backup by its id, or a file by its path. *)
restoreSource(b, byPath) ==
  IF byPath THEN b \in DOMAIN backupDir /\ backupDir[b].seal = <<>>
  ELSE b \in DOMAIN backups /\ decryptBackupIfNeeded(b)

\* MUTANT of restoreDatabase: the handle of the database stays open.
restoreDatabaseOpen(d, b, byPath) ==
  /\ restoreSource(b, byPath)
  /\ dbFiles' = With(dbFiles, d, backupDir[b].file)
  /\ catalog' = With(catalog, d, [schema |-> backupDir[b].file.version])
  /\ pool' = poolOpen(pool, d)
  /\ jobs' = Opened(jobs, d)
  /\ kept' = [kept EXCEPT ![d] = [log |-> backupDir[b].file.log, alarm |-> backupDir[b].file.alarm]]
  /\ UNCHANGED <<wq, backups, backupDir, cipher>>

(* The handle is closed, the file replaced, the row written and the file   *)
(* opened again.                                                           *)
restoreDatabase(d, b, byPath) ==
  /\ restoreSource(b, byPath)
  /\ dbFiles' = With(dbFiles, d, backupDir[b].file)
  /\ catalog' = With(catalog, d, [schema |-> backupDir[b].file.version])
  /\ pool' = poolOpen(poolClose(pool, d), d)
  /\ jobs' = Cut(jobs, {d} \union (ToSet(pool) \ ToSet(poolOpen(poolClose(pool, d), d))))
  /\ kept' = [kept EXCEPT ![d] = [log |-> backupDir[b].file.log, alarm |-> backupDir[b].file.alarm]]
  /\ UNCHANGED <<wq, backups, backupDir, cipher>>

(* The restore drill decrypts and opens a copy, and reports. *)
verifyBackupRestore(b) == decryptBackupIfNeeded(b) /\ backupDir[b].file.ok

-----------------------------------------------------------------------------
(* The process ends, in a restore after its copy began too, and is started *)
(* again, perhaps with other keys: handles, queues and what was not        *)
(* committed are gone.                                                     *)
RestartVolume ==
  /\ pool' = <<>>
  /\ wq' = <<>>
  /\ jobs' = [j \in DOMAIN jobs |-> IF jobs[j].st \in {"queued", "running"} THEN [jobs[j] EXCEPT !.st = "lost", !.local = <<>>] ELSE jobs[j]]
  /\ \E keys \in Keyrings : cipher' = createConfiguredVolumeSqliteBackupCipher(keys)
  /\ \/ UNCHANGED dbFiles
     \/ \E d \in DOMAIN dbFiles : script.torn /\ dbFiles' = [dbFiles EXCEPT ![d].ok = FALSE]
  /\ UNCHANGED <<catalog, backups, backupDir, kept>>

-----------------------------------------------------------------------------
Of(d, states) == {j \in DOMAIN jobs : jobs[j].db = d /\ jobs[j].st \in states}

(* One operation of a database at a time, in the order they were enqueued, *)
(* even while queues are forgotten and made anew; the counts that bound    *)
(* the queues are exact and the pool keeps its limit.  A database holds    *)
(* what the operations that succeeded wrote, since its last restore, and   *)
(* nothing of one that was rolled back, evicted from the pool or cut off   *)
(* by the restore.  However often deletions stop between a file and its    *)
(* row and exports between a file and its, every row that the retention    *)
(* keeps can be restored, if its key is configured, to what was exported.  *)
VolumeIsSerial ==
  /\ \A d \in VolumeDbs :
       /\ Cardinality(Of(d, {"running"})) <= 1
       /\ \A i \in Of(d, {"queued", "running"}), j \in Of(d, {"running", "done", "failed"}) : i >= j
       /\ Waiting(d) = Cardinality(Of(d, {"queued", "running"})) /\ Waiting(d) <= MaxPending
       /\ d \in DOMAIN dbFiles /\ dbFiles[d].ok => dbFiles[d].log = kept[d].log
  /\ Len(pool) <= MaxOpen
  /\ \A b \in DOMAIN backups \ prunedBackups(backups, VolumeDbs, KeepLatest, RetentionMs) :
       decrypts(backups[b].seal) => verifyBackupRestore(b) /\ backupDir[b].file = backups[b].file
=============================================================================
