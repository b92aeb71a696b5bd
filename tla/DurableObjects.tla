--------------------------- MODULE DurableObjects ---------------------------
(***************************************************************************)
(* Durable objects (durable-object-storage.ts), each with a database of    *)
(* the volume, and the dispatcher of their alarms                          *)
(* (durable-object-alarm-dispatcher.ts, durable-object-alarm-runtime.ts).  *)
(* An object's operations and the dispatcher's share the writer queues.    *)
(***************************************************************************)
EXTENDS VolumeSqlite

CONSTANTS AlarmTimes,   \* times an alarm may be set to
          AlarmLimit    \* ODENCTL_DURABLE_OBJECT_ALARM_LIMIT

VolumeCalls == [do : STRING, db : VolumeDbs, arg : Nat, byPath : BOOLEAN]

(* deleteAlarm() of an object deletes whatever alarm there is. *)
ASSUME ObjectAssumption ==
  /\ AlarmTimes \subseteq Nat \ {0} /\ AlarmLimit \in Nat
  /\ \A s \in VolumeScripts :
        /\ s.calls \in Seq(VolumeCalls)
        /\ \A i \in DOMAIN s.calls : s.calls[i].do = "deleteAlarm" => s.calls[i].arg = 0

VARIABLES dsp,     \* the dispatcher: its step, time, what is left to look at and what is due
          raced    \* history: databases whose alarm was set again before it was deleted, unnoticed

objectVars == <<volumeVars, dsp, raced>>

Sleeping == [pc |-> "idle", runs |-> 0, now |-> 0, todo |-> {}, due |-> {}, job |-> 0, cur |-> <<>>]

ObjectInit == VolumeInit /\ dsp = Sleeping /\ raced = {}

Op(kind, arg) == [kind |-> kind, arg |-> arg]

-----------------------------------------------------------------------------
(* The database is ensured at once, even while others are under way; the   *)
(* operation is enqueued, unless the queue is full.                        *)
runExclusive(d, op) ==
  /\ ensureDatabase(d, 1)
  /\ IF QueueFull(d) \/ ~FileOf(d).ok
     THEN jobs' = (IF FileOf(d).ok THEN Opened(jobs, d) ELSE jobs) /\ UNCHANGED wq
     ELSE enqueue(Opened(jobs, d), d, op)

(* A write of an object is known by its place in the script. *)
ObjectCall(c) ==
  CASE c.do \in {"put", "transaction"} -> runExclusive(c.db, Op(c.do, called + 1))
    [] c.do \in {"setAlarm", "deleteAlarm"} -> runExclusive(c.db, Op(c.do, c.arg))

-----------------------------------------------------------------------------
Rested == [Sleeping EXCEPT !.runs = dsp.runs]

(* A tick finds the last one still in flight, or starts a dispatch. *)
AlarmTick ==
  /\ dsp.pc = "idle"
  /\ dsp.runs < script.dispatches
  /\ dsp' = [Sleeping EXCEPT !.pc = "list", !.runs = dsp.runs + 1, !.now = volTime, !.todo = DOMAIN catalog]
  /\ UNCHANGED <<storeVars, raced>>

(* listDueAlarms(): each database in turn, through its queue; a full queue *)
(* fails the whole dispatch.                                               *)
listDueAlarms ==
  /\ dsp.pc = "list" /\ dsp.todo # {}
  /\ \E d \in dsp.todo :
       IF QueueFull(d) THEN dsp' = Rested /\ UNCHANGED <<jobs, wq>>
       ELSE /\ enqueue(jobs, d, Op("getAlarm", 0))
            /\ dsp' = [dsp EXCEPT !.pc = "listing", !.todo = @ \ {d}, !.job = Len(jobs) + 1]
  /\ UNCHANGED <<catalog, dbFiles, pool, backups, backupDir, cipher, kept, raced>>

DueNow(out) == {t \in AlarmTimes : out = <<t>> /\ t <= dsp.now}

AlarmRead ==
  LET job == jobs[dsp.job] IN
  /\ dsp.pc = "listing" /\ job.st \in {"done", "failed"}
  /\ dsp' = IF job.st = "failed" THEN Rested
            ELSE [dsp EXCEPT !.pc = "list", !.due = @ \union {<<job.db, t>> : t \in DueNow(job.out)}]
  /\ UNCHANGED <<storeVars, raced>>

(* In the order of their times, at most the limit. *)
FirstDue ==
  LET Earlier(x) == Cardinality({y \in dsp.due : y[2] < x[2]})
  IN {x \in dsp.due : Earlier(x) < AlarmLimit}

StartHandling ==
  /\ dsp.pc = "list" /\ dsp.todo = {}
  /\ dsp' = [dsp EXCEPT !.pc = "handle", !.due = FirstDue]
  /\ UNCHANGED <<storeVars, raced>>

(* The webhook accepts the alarm; or it refuses, times out or is not there. *)
createDurableObjectAlarmWebhookHandler == {"handled", "failed"}

(* An alarm whose handler failed stays for the next tick. *)
dispatchDurableObjectAlarms ==
  /\ dsp.pc = "handle"
  /\ IF dsp.due = {} THEN dsp' = Rested /\ UNCHANGED kept
     ELSE \E x \in dsp.due, outcome \in createDurableObjectAlarmWebhookHandler :
            \/ /\ outcome = "handled"
               /\ dsp' = [dsp EXCEPT !.pc = "get", !.cur = x, !.due = @ \ {x}]
               /\ kept' = IF kept[x[1]].alarm = x[2] THEN [kept EXCEPT ![x[1]].alarm = 0] ELSE kept
            \/ outcome = "failed" /\ dsp' = [dsp EXCEPT !.due = @ \ {x}] /\ UNCHANGED kept
  /\ UNCHANGED <<catalog, dbFiles, pool, wq, jobs, backups, backupDir, cipher, raced>>

\* MUTANT of clearHandledAlarm: the alarm is deleted whatever it is now.
clearHandledAlarmAlways ==
  /\ dsp.pc = "get"
  /\ runExclusive(dsp.cur[1], Op("deleteAlarm", dsp.cur[2]))
  /\ dsp' = [dsp EXCEPT !.pc = "handle"]
  /\ UNCHANGED raced

(* clearHandledAlarm(): getAlarm() and deleteAlarm() are two operations,   *)
(* and the object may set its alarm between them.                          *)
clearHandledAlarm ==
  /\ dsp.pc = "get"
  /\ runExclusive(dsp.cur[1], Op("getAlarm", 0))
  /\ dsp' = IF Len(jobs') = Len(jobs) THEN [dsp EXCEPT !.pc = "handle"]
            ELSE [dsp EXCEPT !.pc = "check", !.job = Len(jobs')]
  /\ UNCHANGED raced

CheckAlarm ==
  LET job == jobs[dsp.job] IN
  /\ dsp.pc = "check" /\ job.st \in {"done", "failed"}
  /\ IF job.st = "done" /\ job.out = <<dsp.cur[2]>>
     THEN /\ runExclusive(dsp.cur[1], Op("deleteAlarm", dsp.cur[2]))
          /\ dsp' = IF Len(jobs') = Len(jobs) THEN [dsp EXCEPT !.pc = "handle"]
                    ELSE [dsp EXCEPT !.pc = "clear", !.job = Len(jobs')]
     ELSE dsp' = [dsp EXCEPT !.pc = "handle"] /\ UNCHANGED storeVars
  /\ UNCHANGED raced

(* A deletion that is done deleted another alarm than the one handled, or  *)
(* one set to the same time again.                                         *)
DeletedAnother ==
  /\ dsp.pc = "clear" /\ jobs[dsp.job].st = "done"
  /\ jobs[dsp.job].out # <<dsp.cur[2]>> \/ kept[dsp.cur[1]].alarm = dsp.cur[2]

RacedSoFar == IF DeletedAnother THEN raced \union {dsp.cur[1]} ELSE raced

AlarmCleared ==
  /\ dsp.pc = "clear" /\ jobs[dsp.job].st \in {"done", "failed"}
  /\ dsp' = [dsp EXCEPT !.pc = "handle"]
  /\ raced' = RacedSoFar
  /\ UNCHANGED storeVars

DispatchStep ==
  \/ AlarmTick \/ listDueAlarms \/ AlarmRead \/ StartHandling \/ dispatchDurableObjectAlarms
  \/ clearHandledAlarm \/ CheckAlarm \/ AlarmCleared

-----------------------------------------------------------------------------
VolumeCall(c) ==
  \/ c.do \in {"put", "transaction", "setAlarm", "deleteAlarm"} /\ ObjectCall(c)
  \/ c.do = "export" /\ exportDatabase(c.db, c.arg)
  \/ c.do = "export" /\ (c.db \notin DOMAIN catalog \/ ~FileOf(c.db).ok \/ c.arg \in DOMAIN backupDir) /\ UNCHANGED storeVars
  \/ c.do = "restore" /\ restoreDatabase(c.db, c.arg, c.byPath)
  \/ c.do = "restore" /\ ~restoreSource(c.arg, c.byPath) /\ UNCHANGED storeVars
  \/ c.do = "prune" /\ pruneBackups(VolumeDbs)
  \/ c.do = "tick" /\ UNCHANGED storeVars

(* The next call of the script. *)
Call ==
  /\ called < Len(script.calls)
  /\ called' = called + 1
  /\ LET c == script.calls[called + 1] IN
     \/ VolumeCall(c) /\ UNCHANGED <<dsp, raced>>
     \/ c.do = "restart" /\ RestartVolume /\ dsp' = Rested /\ raced' = RacedSoFar
  /\ volTime' = IF script.calls[called + 1].do = "tick" THEN volTime + 1 ELSE volTime
  /\ UNCHANGED script

ObjectNext ==
  \/ Call
  \/ UNCHANGED <<volTime, script, called, dsp, raced>> /\ \E j \in DOMAIN jobs : RunJob(j) \/ EndTransaction(j)
  \/ UNCHANGED <<volTime, script, called>> /\ DispatchStep

ObjectSpec == ObjectInit /\ [][ObjectNext]_objectVars

-----------------------------------------------------------------------------
(* An alarm that was set stays until the object deletes or replaces it, a  *)
(* restore brings another back, or its handler has succeeded: neither a    *)
(* handler that fails, a full queue, a crash between the handler and the   *)
(* deletion nor the clearing of an earlier alarm loses it.  Two cases are  *)
(* lost: an alarm set between the check and the deletion, and one set, to  *)
(* the same time again, after its handler was called.                      *)
AlarmsAreKept ==
  \A d \in VolumeDbs :
    kept[d].alarm # 0 /\ d \in DOMAIN dbFiles /\ dbFiles[d].ok =>
      \/ dbFiles[d].alarm = kept[d].alarm
      \/ d \in raced
      \/ dsp.pc = "clear" /\ dsp.cur[1] = d /\ jobs[dsp.job].st = "done"
=============================================================================
