---------------------------- MODULE FlyAutoscaler ----------------------------
(***************************************************************************)
(* The controllers that add and stop Fly machines (fly-autoscaler.ts), and *)
(* the decision they act on (autoscaling.ts).                              *)
(* Several controllers may run at once; a lease and a cooldown in a shared *)
(* coordination store keep them apart.  A controller runs from one await   *)
(* to the next, with the clock as it is then; it may crash, and leave      *)
(* its lease to expire.  The stores (in memory, SQLite, Postgres) differ   *)
(* in how a lease is acquired and released, not in what for.               *)
(***************************************************************************)
EXTENDS Integers, Sequences, FiniteSets, FiniteSetsExt, SequencesExt

CONSTANTS Controllers,
          FlyPolicy,     \* the autoscaling policy
          FlySetups,     \* [store, lease, cooldown, shared]: coordination of a run; shared if no controllerId is set
          LeaseTtl, CooldownMs,
          MaxFlyTime,    \* the clock's last value
          MaxMachines,   \* machines ever created
          MaxRounds,     \* reconciliations begun
          Nobody

ASSUME FlyAssumption ==
  /\ FlySetups \subseteq [store : {"memory", "sqlite", "postgres"}, lease : BOOLEAN, cooldown : BOOLEAN, shared : BOOLEAN]
  /\ LeaseTtl \in Int /\ CooldownMs \in Int
  /\ Nobody \notin Controllers

VARIABLES fly,        \* the setup
          flyClock,   \* Date.now()
          coord,      \* the row of fly_autoscaler_coordination
          machines,   \* the Fly machines: sequence of "started" | "stopped"
          ctl,        \* where each controller is
          rounds      \* what each reconciliation begun has done to the machines

flyVars == <<fly, flyClock, coord, machines, ctl, rounds>>

(* now is the clock as last read for the store, from as read before acting. *)
Resting == [pc |-> "idle", now |-> 0, locked |-> FALSE, from |-> 0, until |-> 0, todo |-> <<>>,
            changed |-> FALSE, round |-> 0]

(* Whether machines changed, from when to when; whether the cooldown was   *)
(* written after it, and whether any of it was after the lease ran out.    *)
Untouched == [changed |-> FALSE, from |-> 0, last |-> 0, cooled |-> FALSE, lapsed |-> FALSE]

FlyInit ==
  /\ fly \in FlySetups
  /\ flyClock = 0
  /\ coord = [holder |-> Nobody, expires |-> 0, cooldown |-> 0]
  /\ machines = <<"started">>
  /\ ctl = [c \in Controllers |-> Resting]
  /\ rounds = <<>>

holderOf(c) == IF fly.shared THEN "default-controller" ELSE c

-----------------------------------------------------------------------------
(* The decision to add or remove runtime nodes (autoscaling.ts), a pure    *)
(* function of the registered nodes and the policy.  Ratios are in         *)
(* thousandths, as round3() keeps them; a node is [id, status, active,     *)
(* concurrent], a policy [minNodes, maxNodes, up, down, upStep, downStep]. *)

(* The nearest number of thousandths to a / b. *)
round3(a, b) == (2 * a + b) \div (2 * b)

SignalRatio(n) == IF n.concurrent > 0 THEN round3(1000 * n.active, n.concurrent) ELSE 0

runtimeSaturationSignals(nodes) ==
  {[id |-> n.id, loadRatio |-> SignalRatio(n), saturated |-> n.concurrent > 0 /\ n.active >= n.concurrent] : n \in nodes}

averageSignalLoad(signals) ==
  IF signals = {} THEN 0
  ELSE round3(MapThenSumSet(LAMBDA s : s.loadRatio, signals), Cardinality(signals))

(* Exact ratios decide between candidates, then the ids. *)
ratioLess(n, m) ==
  LET a == IF n.concurrent <= 0 THEN <<0, 1>> ELSE <<n.active, n.concurrent>>
      b == IF m.concurrent <= 0 THEN <<0, 1>> ELSE <<m.active, m.concurrent>>
  IN a[1] * b[2] < b[1] * a[2] \/ (a[1] * b[2] = b[1] * a[2] /\ n.id < m.id)

scaleDownCandidates(nodes, count) ==
  LET sorted == SetToSortSeq(nodes, ratioLess)
  IN {sorted[k].id : k \in {j \in DOMAIN sorted : j <= count}}

decision(action, current, desired, candidates) ==
  [action |-> action, add |-> Max({0, desired - current}), remove |-> Max({0, current - desired}),
   candidates |-> candidates]

decideRuntimeAutoscaling(nodes, policy) ==
  LET activeNodes == {n \in nodes : n.status = "active"}
      current == Cardinality(activeNodes)
      average == averageSignalLoad(runtimeSaturationSignals(activeNodes))
      minNodes == Max({0, policy.minNodes})
      maxNodes == Max({minNodes, policy.maxNodes})
      fewer == Max({minNodes, current - Max({1, policy.downStep})})
  IN CASE current < minNodes -> decision("scale_up", current, minNodes, {})
       [] current > maxNodes -> decision("scale_down", current, maxNodes, scaleDownCandidates(activeNodes, current - maxNodes))
       [] current \in minNodes..(maxNodes - 1) /\ average >= policy.up ->
            decision("scale_up", current, Min({maxNodes, current + Max({1, policy.upStep})}), {})
       [] /\ current \in (minNodes + 1)..maxNodes
          /\ average <= policy.down
          /\ ~(current < maxNodes /\ average >= policy.up) ->
            decision("scale_down", current, fewer, scaleDownCandidates(activeNodes, current - fewer))
       [] OTHER -> decision("none", current, current, {})

-----------------------------------------------------------------------------
(* the coordination stores *)

LeaseRow(holder, nowMs) ==
  [coord EXCEPT !.holder = holder, !.expires = nowMs + Max({1, LeaseTtl})]

memoryAcquires(holder, nowMs) ==
  coord.holder = Nobody \/ coord.expires <= nowMs \/ coord.holder = holder

(* One statement: an insert, or an update under its where clause. *)
sqliteAcquires(holder, nowMs) ==
  coord.holder = holder \/ coord.holder = Nobody \/ coord.expires <= nowMs

postgresAcquires(holder, nowMs) ==
  coord.holder = holder \/ coord.holder = Nobody \/ coord.expires <= nowMs

acquires(holder, nowMs) ==
  CASE fly.store = "memory" -> memoryAcquires(holder, nowMs)
    [] fly.store = "sqlite" -> sqliteAcquires(holder, nowMs)
    [] fly.store = "postgres" -> postgresAcquires(holder, nowMs)

releaseLease(holder) == IF coord.holder = holder THEN [coord EXCEPT !.holder = Nobody, !.expires = 0] ELSE coord

cooldownActive(nowMs) == fly.cooldown /\ coord.cooldown > nowMs

-----------------------------------------------------------------------------
Goto(c, pc) == ctl' = [ctl EXCEPT ![c].pc = pc]

(* The nodes of the machines that run, each busy or not. *)
NodesSeen(busy) ==
  {[id |-> m, status |-> "active", active |-> IF m \in busy THEN 1 ELSE 0, concurrent |-> 1] :
     m \in {k \in DOMAIN machines : machines[k] = "started"}}

(* selectMachinesToStop() *)
selectMachinesToStop(candidates, count) ==
  LET matching == {m \in DOMAIN machines : machines[m] # "stopped" /\ (candidates = {} \/ m \in candidates)}
      sorted == SetToSortSeq(matching, <)
  IN SubSeq(sorted, 1, Min({Len(sorted), Max({0, count})}))

(* What a decision does: a creation is 0, a machine to stop its number. *)
Work(d) == IF d.action = "scale_up" THEN [k \in 1..d.add |-> 0] ELSE selectMachinesToStop(d.candidates, d.remove)

(* The caller decides, and the reconciliation reads the clock. *)
reconcileFlyMachinesAutoscaling(c) ==
  /\ ctl[c].pc = "idle"
  /\ Len(rounds) < MaxRounds
  /\ rounds' = Append(rounds, Untouched)
  /\ \E busy \in {{}, DOMAIN machines} :
       LET d == decideRuntimeAutoscaling(NodesSeen(busy), FlyPolicy) IN
       /\ d.action # "none"
       /\ ctl' = [ctl EXCEPT ![c] = [Resting EXCEPT !.pc = "cooldown", !.now = flyClock,
                                                    !.todo = Work(d), !.round = Len(rounds) + 1]]
  /\ UNCHANGED <<fly, flyClock, coord, machines>>

currentCooldownReport(c) ==
  /\ ctl[c].pc = "cooldown"
  /\ Goto(c, IF cooldownActive(ctl[c].now) THEN "idle" ELSE IF fly.lease THEN "lease" ELSE "act")
  /\ UNCHANGED <<fly, flyClock, coord, machines, rounds>>

(* The lease runs from the time that was read before the cooldown was. *)
acquireAutoscalerLease(c) ==
  /\ ctl[c].pc = "lease"
  /\ IF acquires(holderOf(c), ctl[c].now)
     THEN /\ coord' = LeaseRow(holderOf(c), ctl[c].now)
          /\ ctl' = [ctl EXCEPT ![c].pc = "recheck", ![c].locked = TRUE,
                                ![c].until = ctl[c].now + Max({1, LeaseTtl})]
     ELSE Goto(c, "idle") /\ UNCHANGED coord
  /\ UNCHANGED <<fly, flyClock, machines, rounds>>

(* The stores in the process answer at once; Postgres gets the clock as it *)
(* was when the query was sent.                                            *)
Remote == fly.store = "postgres"

\* MUTANT of lockedCooldown: the cooldown is not read again under the lease.
lockedCooldownSkipped(c) ==
  /\ ctl[c].pc = "recheck"
  /\ ctl' = [ctl EXCEPT ![c].pc = "act", ![c].now = flyClock, ![c].from = flyClock]
  /\ UNCHANGED <<fly, flyClock, coord, machines, rounds>>

(* Under the lease, the cooldown is read again; if that throws, nothing is *)
(* done.                                                                   *)
lockedCooldown(c) ==
  /\ \/ /\ ctl[c].pc = "recheck"
        /\ ctl' = [ctl EXCEPT ![c].pc = IF Remote THEN "reread" ELSE IF cooldownActive(flyClock) THEN "release" ELSE "act",
                              ![c].now = flyClock, ![c].from = flyClock]
     \/ /\ ctl[c].pc = "reread"
        /\ Goto(c, IF cooldownActive(ctl[c].now) THEN "release" ELSE "act")
     \/ ctl[c].pc \in {"recheck", "reread"} /\ Goto(c, "release")
  /\ UNCHANGED <<fly, flyClock, coord, machines, rounds>>

(* What the reconciliation of c has done to the machines by now. *)
Noted(c, at, cooled) ==
  [rounds EXCEPT ![ctl[c].round] = [changed |-> TRUE, from |-> ctl[c].from, last |-> at, cooled |-> cooled,
                                    lapsed |-> rounds[ctl[c].round].lapsed \/ flyClock >= ctl[c].until]]

(* A request takes effect or not, whatever comes back: a success, an answer *)
(* that is none, or nothing, which throws and ends the reconciliation.      *)
Ask(c, after) ==
  \E done, ok, lost \in BOOLEAN :
    /\ done => Len(after) <= MaxMachines
    /\ ok => done /\ ~lost
    /\ machines' = IF done THEN after ELSE machines
    /\ rounds' = IF done THEN Noted(c, flyClock, FALSE) ELSE rounds
    /\ ctl' = [ctl EXCEPT ![c].todo = Tail(@), ![c].changed = @ \/ ok, ![c].pc = IF lost THEN "release" ELSE "act"]

createMachine(c) ==
  /\ Head(ctl[c].todo) = 0
  /\ Ask(c, Append(machines, "started"))

stopMachine(c) ==
  /\ Head(ctl[c].todo) # 0
  /\ Ask(c, [machines EXCEPT ![Head(ctl[c].todo)] = "stopped"])

(* One machine after the other. *)
Act(c) ==
  /\ ctl[c].pc = "act" /\ ctl[c].todo # <<>>
  /\ createMachine(c) \/ stopMachine(c)
  /\ UNCHANGED <<fly, flyClock, coord>>

Cool(c, nowMs) ==
  /\ coord' = [coord EXCEPT !.cooldown = nowMs + Max({1, CooldownMs})]
  /\ rounds' = Noted(c, nowMs, TRUE)
  /\ Goto(c, "release")

(* The cooldown runs from the end of the work, if some of it is known to   *)
(* be done and the store takes it.                                         *)
writeCooldown(c) ==
  /\ \/ /\ ctl[c].pc = "act" /\ ctl[c].todo = <<>>
        /\ \/ Goto(c, "release") /\ UNCHANGED <<coord, rounds>>
           \/ ctl[c].changed /\ fly.cooldown /\ ~Remote /\ Cool(c, flyClock)
           \/ /\ ctl[c].changed /\ fly.cooldown /\ Remote
              /\ ctl' = [ctl EXCEPT ![c].pc = "stamp", ![c].now = flyClock]
              /\ UNCHANGED <<coord, rounds>>
     \/ /\ ctl[c].pc = "stamp"
        /\ \/ Cool(c, ctl[c].now)
           \/ Goto(c, "release") /\ UNCHANGED <<coord, rounds>>
  /\ UNCHANGED <<fly, flyClock, machines>>

(* finally: a lease that was acquired is given back, unless that throws. *)
ReleaseLease(c) ==
  /\ ctl[c].pc = "release"
  /\ coord' \in {coord, IF ctl[c].locked THEN releaseLease(holderOf(c)) ELSE coord}
  /\ ctl' = [ctl EXCEPT ![c] = Resting]
  /\ UNCHANGED <<fly, flyClock, machines, rounds>>

(* The process of a controller ends, and starts again. *)
CrashController(c) ==
  /\ ctl[c].pc # "idle"
  /\ ctl' = [ctl EXCEPT ![c] = Resting]
  /\ UNCHANGED <<fly, flyClock, coord, machines, rounds>>

FlyTick ==
  /\ flyClock < MaxFlyTime
  /\ flyClock' = flyClock + 1
  /\ UNCHANGED <<fly, coord, machines, ctl, rounds>>

FlyNext ==
  \/ \E c \in Controllers :
       \/ reconcileFlyMachinesAutoscaling(c) \/ currentCooldownReport(c) \/ acquireAutoscalerLease(c)
       \/ lockedCooldown(c) \/ Act(c) \/ writeCooldown(c) \/ ReleaseLease(c) \/ CrashController(c)
  \/ FlyTick

FlySpec == FlyInit /\ [][FlyNext]_flyVars

-----------------------------------------------------------------------------
(* s began after r had changed its last machine, and a cooldown after it if *)
(* r lived to write one.                                                    *)
Follows(s, r) == s.from >= r.last + (IF r.cooled THEN CooldownMs ELSE 0)

(* Of a round that outlived its lease the others know nothing; in Postgres *)
(* it can also put an older cooldown in the place of a newer one.          *)
InTime(r) == r.changed /\ ~r.lapsed
Prompt == ~Remote \/ ~(\E k \in DOMAIN rounds : rounds[k].lapsed)

(* With a lease and controllers that have ids of their own, any two        *)
(* reconciliations that changed a machine within their leases did so one   *)
(* after the other, and a cooldown apart if the first could write it: also *)
(* one whose request threw, whose process died, or whose cooldown was not  *)
(* written, and whatever a third that outlived its lease did meanwhile.    *)
(* And two controllers act at once only when a lease has run out.          *)
ScalingIsSerial ==
  fly.lease /\ ~fly.shared =>
    /\ \A c, d \in Controllers :
         /\ c # d
         /\ ctl[c].pc = "act" /\ ctl[d].pc = "act"
         => flyClock >= ctl[c].until \/ flyClock >= ctl[d].until
    /\ Prompt =>
         \A j, k \in DOMAIN rounds :
           j # k /\ InTime(rounds[j]) /\ InTime(rounds[k]) => Follows(rounds[j], rounds[k]) \/ Follows(rounds[k], rounds[j])
=============================================================================
