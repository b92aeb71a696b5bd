------------------------------ MODULE HostsProofs ------------------------------
(***************************************************************************)
(* Theorems about the hosts around the control plane, which share no       *)
(* state: the HTTP server of oden (HttpServer), for every set of           *)
(* connections and number of permits; the controllers that scale the       *)
(* runtime nodes (FlyAutoscaler), for every set of controllers and         *)
(* machines, every policy, lease and cooldown, and each of the stores; the *)
(* fleet that snapshots are placed on (RuntimeFleet), for every fleet,     *)
(* placement and snapshot; the HTTP API (HttpApi), for every configuration *)
(* and every set of requests; a node with its daemon (HostDaemon), for     *)
(* every sequence of snapshots and requests; the resident service of a     *)
(* Wasm instance (ResidentService), for every set of requests and limit;   *)
(* and the volume databases with the alarms of the durable objects on them *)
(* (DurableObjects), for every set of databases, limit and script of calls.*)
(***************************************************************************)
EXTENDS HttpServer, FlyAutoscaler, RuntimeFleet, HttpApi, HostDaemon, ResidentService,
        DurableObjects, FiniteFacts, SequenceTheorems

-----------------------------------------------------------------------------
(* The HTTP server.  A permit and the guard of a task go together from     *)
(* future to body, so the invariant says which connections hold a permit   *)
(* (CountInv), that a task nobody told to stop belongs to one of them      *)
(* (GuardInv), and what is left once the connections have been joined      *)
(* (JoinedInv).                                                            *)

\* The shape of the server's state (server.rs).
ServerTypeOK ==
  /\ serving \in {"accepting", "joining", "waiting", "returned"}
  /\ socket \in [Sockets -> {"new", "idle", "handling", "streaming", "failing", "leaving", "answered", "closed"}]
  /\ guest \in [Sockets -> {"none", "running", "lingering", "ended"}]
  /\ reply \in [Sockets -> {"open", "sent", "dropped"}]
  /\ token \in [Sockets -> BOOLEAN]
  /\ permits \in Nat

\* The connections that hold a permit.
Held == {c \in Sockets : socket[c] \in {"handling", "streaming", "failing", "leaving"}}

\* Every permit is in the semaphore or held by one connection.
CountInv == permits + Cardinality(Held) = ServerPermits

\* A task starts with its connection's request, loses its sender when it is
\* over, and once the connection has let go of it has been told to stop.
GuardInv ==
  \A c \in Sockets :
    /\ socket[c] \in {"new", "idle"} => guest[c] = "none"
    /\ socket[c] = "handling" => guest[c] # "none"
    /\ guest[c] \in {"lingering", "ended"} => reply[c] # "open"
    /\ GuestAlive(c) /\ ~token[c] => socket[c] \in {"handling", "streaming"}

\* The serve loop waits for its tasks when no connection is left to start
\* one, and returns when there is none.
JoinedInv ==
  /\ serving \in {"waiting", "returned"} => \A c \in Sockets : socket[c] \in {"new", "closed"}
  /\ serving = "returned" => \A c \in Sockets : ~GuestAlive(c)

ServerInv == ServerTypeOK /\ CountInv /\ GuardInv /\ JoinedInv

-----------------------------------------------------------------------------
\* The holders of permits are finitely many.
LEMMA HeldFinite == IsFiniteSet(Held) /\ Cardinality(Held) \in Nat
<1>1. Held \in SUBSET Sockets
  BY DEF Held
<1>2. IsFiniteSet(Held)
  BY <1>1, ServerAssumption, FS_Subset
<1> QED
  BY <1>2, FS_CardinalityType

\* A step that moves no permit keeps the count.
LEMMA CountUnmoved ==
  ASSUME CountInv, permits' = permits, Held' = Held
  PROVE  CountInv'
BY DEF CountInv

\* The initial state satisfies the invariant: no connection, every permit free.
LEMMA InitInv == ASSUME ServerInit PROVE ServerInv
<1> USE DEF ServerInit
<1>1. ServerTypeOK
  BY ServerAssumption DEF ServerTypeOK
<1>2. Held = {}
  BY DEF Held
<1>3. CountInv
  BY <1>2, FS_EmptySet, ServerAssumption DEF CountInv
<1>4. GuardInv /\ JoinedInv
  BY DEF GuardInv, JoinedInv, GuestAlive
<1> QED
  BY <1>1, <1>3, <1>4 DEF ServerInv

\* admit() takes a permit and becomes a holder (server.rs: try_acquire_owned).
LEMMA AdmitCounts ==
  ASSUME ServerInv, NEW c \in Sockets, admit(c)
  PROVE  CountInv'
<1>1. Held' = Held \union {c} /\ c \notin Held
  BY DEF Held, admit, ServerInv, ServerTypeOK
<1>2. Cardinality(Held') = Cardinality(Held) + 1
  BY <1>1, HeldFinite, FS_AddElement
<1> QED
  BY <1>2, HeldFinite, ServerAssumption DEF CountInv, admit, ServerInv, ServerTypeOK

\* Dropping the permit gives back exactly the one the connection held.
LEMMA ReleaseCounts ==
  ASSUME ServerInv, NEW c \in Sockets, releasePermit(c)
  PROVE  CountInv'
<1>1. Held' = Held \ {c} /\ c \in Held
  BY DEF Held, releasePermit, ServerInv, ServerTypeOK
<1>2. Cardinality(Held') = Cardinality(Held) - 1
  BY <1>1, HeldFinite, FS_RemoveElement
<1> QED
  BY <1>2, HeldFinite, ServerAssumption DEF CountInv, releasePermit, ServerInv, ServerTypeOK

-----------------------------------------------------------------------------
\* Every step of the serve loop, a connection or a task keeps the shape of the state.
LEMMA NextTypeOK == ASSUME ServerTypeOK, [ServerNext]_serverVars PROVE ServerTypeOK'
<1> USE ServerAssumption DEF ServerTypeOK
<1>1. ASSUME NEW c \in Sockets, accept(c) \/ refuse(c) \/ admit(c) PROVE ServerTypeOK'
  BY <1>1 DEF accept, refuse, admit
<1>2. ASSUME NEW c \in Sockets, guestReplies(c) \/ guestReturns(c) \/ guestEnds(c) PROVE ServerTypeOK'
  BY <1>2 DEF guestReplies, guestReturns, guestEnds, Dropped
<1>3. ASSUME NEW c \in Sockets, respond(c) \/ releasePermit(c) PROVE ServerTypeOK'
  BY <1>3 DEF respond, releasePermit
<1>4. ASSUME NEW c \in Sockets, respondFails(c) \/ bodyEnds(c) \/ disconnect(c) PROVE ServerTypeOK'
  BY <1>4 DEF respondFails, bodyEnds, disconnect, release
<1>5. CASE cancelShutdown \/ joinConnections \/ waitTasks
  BY <1>5 DEF cancelShutdown, joinConnections, waitTasks
<1>6. CASE UNCHANGED serverVars
  BY <1>6 DEF serverVars
<1> QED
  BY <1>1, <1>2, <1>3, <1>4, <1>5, <1>6 DEF ServerNext

\* No step loses or doubles a permit.
LEMMA NextCount == ASSUME ServerInv, [ServerNext]_serverVars PROVE CountInv'
<1> USE DEF ServerInv, ServerTypeOK
<1>1. ASSUME NEW c \in Sockets, accept(c) \/ refuse(c) PROVE CountInv'
  <2>1. Held' = Held /\ permits' = permits
    BY <1>1 DEF accept, refuse, Held
  <2> QED
    BY <2>1, CountUnmoved
<1>2. ASSUME NEW c \in Sockets, guestReplies(c) \/ guestReturns(c) \/ guestEnds(c) PROVE CountInv'
  <2>1. Held' = Held /\ permits' = permits
    BY <1>2 DEF guestReplies, guestReturns, guestEnds, Held
  <2> QED
    BY <2>1, CountUnmoved
<1>3. ASSUME NEW c \in Sockets, respond(c) \/ respondFails(c) \/ bodyEnds(c) PROVE CountInv'
  <2>1. Held' = Held /\ permits' = permits
    BY <1>3 DEF respond, respondFails, bodyEnds, release, Held
  <2> QED
    BY <2>1, CountUnmoved
<1>4. ASSUME NEW c \in Sockets, disconnect(c) PROVE CountInv'
  <2>1. Held' = Held /\ permits' = permits
    BY <1>4 DEF disconnect, release, Held
  <2> QED
    BY <2>1, CountUnmoved
<1>5. CASE cancelShutdown \/ joinConnections \/ waitTasks \/ UNCHANGED serverVars
  <2>1. Held' = Held /\ permits' = permits
    BY <1>5 DEF cancelShutdown, joinConnections, waitTasks, serverVars, Held
  <2> QED
    BY <2>1, CountUnmoved
<1> QED
  BY <1>1, <1>2, <1>3, <1>4, <1>5, AdmitCounts, ReleaseCounts DEF ServerNext

\* No step leaves a task running that no guard can cancel and nobody has cancelled.
LEMMA NextGuard == ASSUME ServerInv, [ServerNext]_serverVars PROVE GuardInv'
<1> USE DEF ServerInv, ServerTypeOK, GuardInv, GuestAlive
<1>1. ASSUME NEW c \in Sockets, accept(c) \/ refuse(c) \/ admit(c) PROVE GuardInv'
  BY <1>1 DEF accept, refuse, admit
<1>2. ASSUME NEW c \in Sockets, guestReplies(c) \/ guestReturns(c) \/ guestEnds(c) PROVE GuardInv'
  BY <1>2 DEF guestReplies, guestReturns, guestEnds, Dropped
<1>3. ASSUME NEW c \in Sockets, respond(c) \/ releasePermit(c) PROVE GuardInv'
  BY <1>3 DEF respond, releasePermit
<1>4. ASSUME NEW c \in Sockets, respondFails(c) \/ bodyEnds(c) \/ disconnect(c) PROVE GuardInv'
  BY <1>4 DEF respondFails, bodyEnds, disconnect, release
<1>5. CASE cancelShutdown \/ joinConnections \/ waitTasks \/ UNCHANGED serverVars
  BY <1>5 DEF cancelShutdown, joinConnections, waitTasks, serverVars
<1> QED
  BY <1>1, <1>2, <1>3, <1>4, <1>5 DEF ServerNext

\* Once the connections are joined none starts a task any more.
LEMMA NextJoined == ASSUME ServerInv, [ServerNext]_serverVars PROVE JoinedInv'
<1> USE DEF ServerInv, ServerTypeOK, JoinedInv, GuestAlive
<1>1. ASSUME NEW c \in Sockets, accept(c) \/ refuse(c) \/ admit(c) PROVE JoinedInv'
  BY <1>1 DEF accept, refuse, admit
<1>2. ASSUME NEW c \in Sockets, guestReplies(c) \/ guestReturns(c) \/ guestEnds(c) PROVE JoinedInv'
  BY <1>2 DEF guestReplies, guestReturns, guestEnds
<1>3. ASSUME NEW c \in Sockets, respond(c) \/ releasePermit(c) PROVE JoinedInv'
  BY <1>3 DEF respond, releasePermit
<1>4. ASSUME NEW c \in Sockets, respondFails(c) \/ bodyEnds(c) \/ disconnect(c) PROVE JoinedInv'
  BY <1>4 DEF respondFails, bodyEnds, disconnect, release
<1>5. CASE cancelShutdown \/ joinConnections \/ waitTasks
  BY <1>5 DEF cancelShutdown, joinConnections, waitTasks
<1>6. CASE UNCHANGED serverVars
  BY <1>6 DEF serverVars
<1> QED
  BY <1>1, <1>2, <1>3, <1>4, <1>5, <1>6 DEF ServerNext

\* The invariant is inductive.
LEMMA NextInv == ASSUME ServerInv, [ServerNext]_serverVars PROVE ServerInv'
BY NextTypeOK, NextCount, NextGuard, NextJoined DEF ServerInv

-----------------------------------------------------------------------------
\* What the invariant says of permits, tasks and the end of serve().
LEMMA InvReclaims == ASSUME ServerInv PROVE ServerReclaimsGuests
<1> DEFINE Live == {c \in Sockets : GuestAlive(c) /\ ~cancelled(c)}
<1>1. Cardinality(Live) <= ServerPermits
  <2>1. Live \in SUBSET Held
    BY DEF ServerInv, GuardInv, Held, cancelled
  <2>2. Cardinality(Live) <= Cardinality(Held) /\ Cardinality(Live) \in Nat
    BY <2>1, HeldFinite, FS_Subset, FS_CardinalityType
  <2> HIDE DEF Live
  <2> QED
    BY <2>2, HeldFinite, ServerAssumption DEF ServerInv, ServerTypeOK, CountInv
<1>2. \A c \in Sockets : socket[c] = "handling" /\ reply[c] = "open" => guest[c] = "running"
  BY DEF ServerInv, ServerTypeOK, GuardInv
<1>3. ASSUME serving = "returned"
      PROVE  permits = ServerPermits /\ \A c \in Sockets : socket[c] \in {"new", "closed"} /\ ~GuestAlive(c)
  <2>1. \A c \in Sockets : socket[c] \in {"new", "closed"} /\ ~GuestAlive(c)
    BY <1>3 DEF ServerInv, JoinedInv
  <2>2. Held = {}
    BY <2>1 DEF Held
  <2>3. permits = ServerPermits
    BY <2>2, FS_EmptySet, ServerAssumption DEF ServerInv, ServerTypeOK, CountInv
  <2> QED
    BY <2>1, <2>3
<1> QED
  BY <1>1, <1>2, <1>3 DEF ServerReclaimsGuests

\* The invariant holds in every state of the server.
LEMMA InvHolds == ServerSpec => []ServerInv
<1>1. ServerInit => ServerInv
  BY InitInv
<1>2. ServerInv /\ [ServerNext]_serverVars => ServerInv'
  BY NextInv
<1> QED
  BY <1>1, <1>2, PTL DEF ServerSpec

\* The state of the server keeps its shape.
THEOREM ServerTypeCorrect == ServerSpec => []ServerTypeOK
<1>1. ServerInv => ServerTypeOK
  BY DEF ServerInv
<1> QED
  BY <1>1, InvHolds, PTL

\* For any number of connections and permits: no more tasks than permits run
\* that nobody has told to stop, no connection waits for a reply nobody will
\* give, and serve() returns with nothing left behind (server.rs).
THEOREM GuestsAreReclaimed == ServerSpec => []ServerReclaimsGuests
<1>1. ServerInv => ServerReclaimsGuests
  BY InvReclaims
<1> QED
  BY <1>1, InvHolds, PTL

-----------------------------------------------------------------------------
(* The Fly autoscaler.                                                     *)

\* What a reconciliation did to the machines.
RoundSet == [changed : BOOLEAN, from : Nat, last : Nat, cooled : BOOLEAN, lapsed : BOOLEAN]

\* The rows of the controllers have the fields of Resting, and the times in them
\* are numbers.
FlyShape ==
  /\ fly \in FlySetups
  /\ flyClock \in Nat
  /\ DOMAIN coord = {"holder", "expires", "cooldown"}
  /\ coord.expires \in Int /\ coord.cooldown \in Int
  /\ DOMAIN ctl = Controllers
  /\ \A c \in Controllers : /\ DOMAIN ctl[c] = DOMAIN Resting
                            /\ ctl[c].now \in Nat /\ ctl[c].from \in Nat /\ ctl[c].until \in Int

RoundShape == rounds \in Seq(RoundSet)

\* No controller is ahead of the clock.
ClockInv ==
  /\ \A c \in Controllers : ctl[c].now <= flyClock /\ ctl[c].from <= flyClock
  /\ \A k \in DOMAIN rounds : rounds[k].last <= flyClock

\* Every controller at work has a round of its own, which changes nothing
\* before the controller acts, and began when it did.
RoundInv ==
  /\ \A c \in Controllers : ctl[c].pc # "idle" =>
       /\ ctl[c].round \in DOMAIN rounds
       /\ ctl[c].pc # "release" => ~rounds[ctl[c].round].cooled
       /\ ctl[c].pc \notin {"act", "stamp", "release"} => ~rounds[ctl[c].round].changed
       /\ ctl[c].pc \in {"act", "stamp"} /\ rounds[ctl[c].round].changed =>
            rounds[ctl[c].round].from = ctl[c].from
       /\ ctl[c].pc = "stamp" => fly.cooldown /\ Remote
  /\ \A c, d \in Controllers : c # d /\ ctl[c].pc # "idle" /\ ctl[d].pc # "idle" => ctl[c].round # ctl[d].round

Leased == {"recheck", "reread", "act", "stamp"}

Holds(c) == ctl[c].pc \in Leased /\ ctl[c].locked /\ flyClock < ctl[c].until

\* With ids of their own, a controller whose lease has not run out is the holder
\* in the store, until the time it has noted; and none acts without a lease.
LeaseInv ==
  /\ fly.lease => \A c \in Controllers : ctl[c].pc \in Leased => ctl[c].locked
  /\ fly.lease /\ ~fly.shared => \A c \in Controllers :
       Holds(c) => coord.holder = c /\ coord.expires = ctl[c].until

\* A cooldown is only written where there is one.
CooledInv == \A k \in DOMAIN rounds : rounds[k].cooled => fly.cooldown

\* What holds as long as leases and cooldowns are what the store says: the
\* cooldown in the store covers every round that wrote one in time; a controller
\* that acts under its lease began after, and a cooldown after, every other
\* round; and so the rounds themselves.
Serial(c) ==
  \A k \in DOMAIN rounds : k # ctl[c].round /\ InTime(rounds[k]) =>
    rounds[k].last + (IF rounds[k].cooled THEN CooldownMs ELSE 0) <= ctl[c].from

SerialInv ==
  fly.lease /\ ~fly.shared /\ Prompt =>
    /\ \A k \in DOMAIN rounds : InTime(rounds[k]) /\ rounds[k].cooled => rounds[k].last + CooldownMs <= coord.cooldown
    /\ \A c \in Controllers : Holds(c) /\ ctl[c].pc = "reread" =>
         /\ ctl[c].now = ctl[c].from
         /\ \A k \in DOMAIN rounds : InTime(rounds[k]) => rounds[k].last <= ctl[c].from
    /\ \A c \in Controllers : Holds(c) /\ ctl[c].pc \in {"act", "stamp"} => Serial(c)
    /\ \A c \in Controllers : ctl[c].pc = "stamp" => ctl[c].from <= ctl[c].now
    /\ \A j, k \in DOMAIN rounds :
         j # k /\ InTime(rounds[j]) /\ InTime(rounds[k]) => Follows(rounds[j], rounds[k]) \/ Follows(rounds[k], rounds[j])

FlyIInv == FlyShape /\ RoundShape /\ ClockInv /\ RoundInv /\ LeaseInv /\ CooledInv /\ SerialInv

\* The larger of one and a number.
LEMMA MaxOne == ASSUME NEW n \in Int PROVE Max({1, n}) = IF n >= 1 THEN n ELSE 1
<1>1. \A m \in {1, n} : (\A y \in {1, n} : m >= y) => m = IF n >= 1 THEN n ELSE 1
  OBVIOUS
<1>2. \E m \in {1, n} : \A y \in {1, n} : m >= y
  OBVIOUS
<1> QED
  BY <1>1, <1>2 DEF Max

\* The names of the fields.
LEMMA Fields == DOMAIN Resting = {"pc", "now", "locked", "from", "until", "todo", "changed", "round"}
BY DEF Resting

\* The values in what a reconciliation did.
LEMMA RoundValues ==
  ASSUME RoundShape, NEW k \in DOMAIN rounds
  PROVE  /\ rounds[k] \in RoundSet /\ rounds[k].last \in Nat /\ rounds[k].from \in Nat
         /\ rounds[k].cooled \in BOOLEAN /\ rounds[k].lapsed \in BOOLEAN /\ rounds[k].changed \in BOOLEAN
<1>1. \A r \in RoundSet : /\ r.last \in Nat /\ r.from \in Nat
                          /\ r.cooled \in BOOLEAN /\ r.lapsed \in BOOLEAN /\ r.changed \in BOOLEAN
  BY DEF RoundSet
<1>2. rounds[k] \in RoundSet
  BY DEF RoundShape
<1> QED
  BY <1>1, <1>2

\* A step of a controller in ctl alone keeps the invariant, if it comes to act by
\* it only when leases are off.
LEMMA QuietStep ==
  ASSUME FlyIInv, NEW c \in Controllers, UNCHANGED <<fly, flyClock, coord, rounds>>,
         DOMAIN ctl' = Controllers, DOMAIN ctl'[c] = DOMAIN Resting,
         \A d \in Controllers \ {c} : ctl'[d] = ctl[d],
         ctl'[c].now \in Nat, ctl'[c].from \in Nat, ctl'[c].until \in Int,
         ctl'[c].now <= flyClock, ctl'[c].from <= flyClock,
         \/ ctl'[c].pc = "idle"
         \/ /\ ctl[c].pc # "idle" /\ ctl'[c].round = ctl[c].round /\ ctl'[c].from = ctl[c].from
            /\ \/ ctl'[c].pc = "release"
               \/ ctl[c].pc = "cooldown" /\ ctl'[c].pc = "lease"
               \/ ctl[c].pc = "cooldown" /\ ctl'[c].pc = "act" /\ ~fly.lease
               \/ /\ ctl[c].pc \in {"act", "stamp"} /\ ctl'[c].pc \in {"act", "stamp"}
                  /\ ctl'[c].until = ctl[c].until /\ ctl'[c].locked = ctl[c].locked
                  /\ ctl'[c].now \in {ctl[c].now, flyClock}
                  /\ ctl'[c].pc = "stamp" => ctl'[c].now = flyClock /\ fly.cooldown /\ Remote
  PROVE  FlyIInv'
<1> USE DEF FlyIInv
<1>1. FlyShape' /\ CooledInv' /\ RoundShape'
  BY DEF FlyShape, CooledInv, RoundShape
<1>2. ClockInv'
  BY DEF ClockInv
<1>3. RoundInv'
  BY DEF RoundInv, Remote
<1>4. LeaseInv'
  BY DEF LeaseInv, Holds, Leased
<1>5. SerialInv'
  <2> SUFFICES ASSUME fly.lease, ~fly.shared, Prompt PROVE SerialInv'
    BY DEF SerialInv, Prompt, Remote
  <2>1. \A d \in Controllers : d # c => ctl'[d] = ctl[d] /\ (Holds(d)' <=> Holds(d))
    BY DEF Holds
  <2>2. /\ ctl'[c].pc # "reread"
        /\ ctl'[c].pc = "stamp" => ctl'[c].from <= ctl'[c].now
        /\ Holds(c)' /\ ctl'[c].pc \in {"act", "stamp"} =>
             Holds(c) /\ ctl[c].pc \in {"act", "stamp"} /\ ctl'[c].from = ctl[c].from /\ ctl'[c].round = ctl[c].round
    BY DEF Holds, Leased
  <2> QED
    BY <2>1, <2>2 DEF SerialInv, Serial
<1> QED
  BY <1>1, <1>2, <1>3, <1>4, <1>5

\* What c may have done to a machine, last at the given time.
Changes(c, at) ==
  {r \in RoundSet : /\ r.changed /\ r.from = ctl[c].from /\ r.last = at
                    /\ r.lapsed <=> rounds[ctl[c].round].lapsed \/ flyClock >= ctl[c].until}

\* A controller that acts writes down what it has done: a change to a machine,
\* or the cooldown after them.
LEMMA NotedStep ==
  ASSUME FlyIInv, NEW c \in Controllers, NEW at \in Nat, NEW round \in Changes(c, at),
         ctl[c].pc \in {"act", "stamp"}, rounds' = [rounds EXCEPT ![ctl[c].round] = round],
         at <= flyClock, at # flyClock => Remote /\ ctl[c].pc = "stamp" /\ at = ctl[c].now,
         UNCHANGED <<fly, flyClock>>, DOMAIN coord' = DOMAIN coord,
         coord'.holder = coord.holder, coord'.expires = coord.expires, coord'.cooldown \in Int,
         round.cooled => /\ fly.cooldown /\ ctl'[c].pc = "release"
                         /\ coord'.cooldown > at /\ coord'.cooldown >= at + CooldownMs,
         ~round.cooled => coord'.cooldown = coord.cooldown,
         DOMAIN ctl' = Controllers, DOMAIN ctl'[c] = DOMAIN Resting,
         \A d \in Controllers \ {c} : ctl'[d] = ctl[d],
         ctl'[c].now = ctl[c].now, ctl'[c].from = ctl[c].from, ctl'[c].until = ctl[c].until,
         ctl'[c].locked = ctl[c].locked, ctl'[c].round = ctl[c].round,
         \/ ctl'[c].pc = "release"
         \/ ctl'[c].pc = "act" /\ ctl[c].pc = "act"
  PROVE  FlyIInv'
<1> USE DEF FlyIInv
<1> DEFINE n == ctl[c].round
           cooled == round.cooled
<1>1. n \in DOMAIN rounds /\ rounds[n] \in RoundSet
  BY RoundValues DEF RoundInv
<1>2. round \in RoundSet /\ cooled \in BOOLEAN
  BY DEF RoundSet, Changes
<1>3. round.from = ctl[c].from /\ round.changed /\ round.last = at /\ (round.lapsed <=> rounds[n].lapsed \/ flyClock >= ctl[c].until)
  BY DEF Changes
<1>5. /\ rounds' \in Seq(RoundSet) /\ DOMAIN rounds' = DOMAIN rounds /\ rounds'[n] = round
      /\ \A k \in DOMAIN rounds : k # n => rounds'[k] = rounds[k]
  BY <1>1, <1>2 DEF RoundShape
<1> HIDE DEF n
<1>0. RoundShape'
  BY <1>5 DEF RoundShape
<1>6. FlyShape'
  BY DEF FlyShape
<1>7. ClockInv'
  BY <1>3, <1>5 DEF ClockInv
<1>8. RoundInv'
  <2>1. \A d \in Controllers \ {c} : ctl[d].pc # "idle" => ctl[d].round # n
    BY DEF RoundInv, n
  <2>2. ASSUME NEW d \in Controllers, d # c, ctl'[d].pc # "idle" PROVE
          ctl'[d] = ctl[d] /\ ctl[d].round \in DOMAIN rounds /\ rounds'[ctl[d].round] = rounds[ctl[d].round]
    BY <1>5, <2>1, <2>2 DEF RoundInv
  <2>3. ctl'[c].round = n /\ n \in DOMAIN rounds' /\ rounds'[n].from = ctl'[c].from
        /\ (ctl'[c].pc # "release" => ~rounds'[n].cooled)
    BY <1>1, <1>3, <1>5 DEF n
  <2>4. ASSUME NEW d \in Controllers, ctl'[d].pc # "idle" PROVE
          /\ ctl'[d].round \in DOMAIN rounds'
          /\ ctl'[d].pc # "release" => ~rounds'[ctl'[d].round].cooled
          /\ ctl'[d].pc \notin {"act", "stamp", "release"} => ~rounds'[ctl'[d].round].changed
          /\ ctl'[d].pc \in {"act", "stamp"} /\ rounds'[ctl'[d].round].changed =>
               rounds'[ctl'[d].round].from = ctl'[d].from
          /\ ctl'[d].pc = "stamp" => fly.cooldown /\ Remote
    <3>1. CASE d = c
      BY <2>3, <3>1
    <3>2. CASE d # c
      BY <1>5, <2>2, <2>4, <3>2 DEF RoundInv
    <3> QED
      BY <3>1, <3>2
  <2>5. \A d, e \in Controllers : d # e /\ ctl'[d].pc # "idle" /\ ctl'[e].pc # "idle" => ctl'[d].round # ctl'[e].round
    BY DEF RoundInv
  <2> QED
    BY <2>4, <2>5 DEF RoundInv, Remote
<1>9. LeaseInv'
  BY DEF LeaseInv, Holds, Leased
<1>10. CooledInv'
  BY <1>3, <1>5 DEF CooledInv
<1>11. SerialInv'
  <2> SUFFICES ASSUME fly.lease, ~fly.shared, Prompt' PROVE SerialInv'
    BY DEF SerialInv
  <2>1. Prompt
    BY <1>1, <1>3, <1>5 DEF Prompt, Remote, n
  <2>2. \A k \in DOMAIN rounds : k # n => InTime(rounds'[k]) = InTime(rounds[k])
    BY <1>5
  <2>3. InTime(rounds'[n]) => Holds(c) /\ Serial(c)
    BY <1>1, <1>3, <1>5, <2>1 DEF InTime, Holds, Leased, LeaseInv, SerialInv, n, FlyShape
  <2>4. \A d \in Controllers : Holds(d)' => Holds(d)
    BY DEF Holds, Leased
  <2>5. \A d \in Controllers : d # c /\ Holds(d) => ~Holds(c)
    BY DEF LeaseInv
  <2>6. \A k \in DOMAIN rounds : rounds[k].last \in Nat /\ rounds[k].from \in Nat
    BY RoundValues
  <2>7. \A k \in DOMAIN rounds' : InTime(rounds'[k]) /\ rounds'[k].cooled => rounds'[k].last + CooldownMs <= coord'.cooldown
    <3>1. CASE ~cooled
      BY <1>3, <1>5, <2>1, <2>2, <3>1 DEF SerialInv
    <3>2. CASE cooled
      <4>1. ASSUME NEW k \in DOMAIN rounds, k # n, InTime(rounds[k]), rounds[k].cooled
            PROVE  rounds[k].last + CooldownMs <= coord'.cooldown
        <5>1. CASE at = flyClock
          <6>1. coord'.cooldown >= flyClock + CooldownMs /\ rounds[k].last <= flyClock
            BY <3>2, <4>1, <5>1 DEF ClockInv
          <6> QED
            BY <2>6, <6>1, FlyAssumption DEF FlyShape
        <5>2. CASE at # flyClock
          <6>1. Remote /\ ctl[c].pc = "stamp" /\ at = ctl[c].now
            BY <5>2
          <6>2. ~rounds'[n].lapsed
            BY <1>1, <1>5, <6>1 DEF Prompt, Remote, n
          <6>3. Serial(c) /\ ctl[c].from <= at
            BY <1>3, <1>5, <2>1, <2>3, <6>1, <6>2 DEF InTime, SerialInv
          <6>4. rounds[k].last + CooldownMs <= ctl[c].from
            BY <4>1, <6>3 DEF Serial, n
          <6> QED
            BY <2>6, <3>2, <6>3, <6>4, FlyAssumption DEF FlyShape
        <5> QED
          BY <5>1, <5>2
      <4> QED
        BY <1>3, <1>5, <2>2, <3>2, <4>1
    <3> QED
      BY <3>1, <3>2
  <2>8. ASSUME NEW d \in Controllers, Holds(d)', ctl'[d].pc = "reread" PROVE
          /\ ctl'[d].now = ctl'[d].from
          /\ \A k \in DOMAIN rounds' : InTime(rounds'[k]) => rounds'[k].last <= ctl'[d].from
    <3>1. d # c /\ ~InTime(rounds'[n])
      BY <2>3, <2>4, <2>5, <2>8
    <3> QED
      BY <1>5, <2>1, <2>2, <2>4, <2>8, <3>1 DEF SerialInv
  <2>9. ASSUME NEW d \in Controllers, Holds(d)', ctl'[d].pc \in {"act", "stamp"} PROVE Serial(d)'
    <3>1. CASE d = c
      <4>1. Serial(c)
        BY <2>1, <2>4, <2>9, <3>1 DEF SerialInv
      <4> QED
        BY <1>5, <2>2, <3>1, <4>1 DEF Serial, n
    <3>2. CASE d # c
      <4>1. ~InTime(rounds'[n]) /\ Serial(d)
        BY <2>1, <2>3, <2>4, <2>5, <2>9, <3>2 DEF SerialInv
      <4> QED
        BY <1>5, <2>2, <3>2, <4>1 DEF Serial
    <3> QED
      BY <3>1, <3>2
  <2>10. \A d \in Controllers : ctl'[d].pc = "stamp" => ctl'[d].from <= ctl'[d].now
    BY <2>1 DEF SerialInv
  <2>11. ASSUME NEW k \in DOMAIN rounds, k # n, InTime(rounds[k]), InTime(rounds'[n])
         PROVE  Follows(rounds'[n], rounds'[k])
    <3>1. rounds[k].last + (IF rounds[k].cooled THEN CooldownMs ELSE 0) <= ctl[c].from
      BY <2>3, <2>11 DEF Serial, n
    <3> QED
      BY <1>3, <1>5, <2>6, <2>11, <3>1, FlyAssumption DEF Follows, FlyShape
  <2>12. \A j, k \in DOMAIN rounds' :
           j # k /\ InTime(rounds'[j]) /\ InTime(rounds'[k]) => Follows(rounds'[j], rounds'[k]) \/ Follows(rounds'[k], rounds'[j])
    <3>1. \A j, k \in DOMAIN rounds : j # n /\ k # n /\ j # k /\ InTime(rounds'[j]) /\ InTime(rounds'[k]) =>
            Follows(rounds'[j], rounds'[k]) \/ Follows(rounds'[k], rounds'[j])
      BY <1>5, <2>1 DEF SerialInv
    <3> QED
      BY <1>5, <2>2, <2>11, <3>1
  <2> QED
    BY <2>7, <2>8, <2>9, <2>10, <2>12 DEF SerialInv
<1> QED
  BY <1>0, <1>6, <1>7, <1>8, <1>9, <1>10, <1>11

\* What is written down of a change to a machine.
LEMMA NotedChange ==
  ASSUME FlyIInv, NEW c \in Controllers, ctl[c].pc # "idle", NEW at \in Nat, rounds' = Noted(c, at, FALSE)
  PROVE  \E round \in Changes(c, at) : ~round.cooled /\ rounds' = [rounds EXCEPT ![ctl[c].round] = round]
<1> DEFINE late == rounds[ctl[c].round].lapsed \/ flyClock >= ctl[c].until
           round == [changed |-> TRUE, from |-> ctl[c].from, last |-> at, cooled |-> FALSE, lapsed |-> late]
<1>1. late \in BOOLEAN /\ ctl[c].from \in Nat
  BY RoundValues DEF FlyIInv, RoundInv, FlyShape
<1>2. rounds' = [rounds EXCEPT ![ctl[c].round] = round]
  BY DEF Noted
<1>3. late <=> rounds[ctl[c].round].lapsed \/ flyClock >= ctl[c].until
  OBVIOUS
<1> HIDE DEF late
<1>4. round \in RoundSet /\ round.changed /\ round.from = ctl[c].from /\ round.last = at /\ ~round.cooled /\ round.lapsed = late
  BY <1>1 DEF RoundSet
<1> HIDE DEF round
<1> QED
  BY <1>2, <1>3, <1>4 DEF Changes

\* What is written down of the cooldown.
LEMMA NotedCooldown ==
  ASSUME FlyIInv, NEW c \in Controllers, ctl[c].pc # "idle", NEW at \in Nat, rounds' = Noted(c, at, TRUE)
  PROVE  \E round \in Changes(c, at) : round.cooled /\ rounds' = [rounds EXCEPT ![ctl[c].round] = round]
<1> DEFINE late == rounds[ctl[c].round].lapsed \/ flyClock >= ctl[c].until
           round == [changed |-> TRUE, from |-> ctl[c].from, last |-> at, cooled |-> TRUE, lapsed |-> late]
<1>1. late \in BOOLEAN /\ ctl[c].from \in Nat
  BY RoundValues DEF FlyIInv, RoundInv, FlyShape
<1>2. rounds' = [rounds EXCEPT ![ctl[c].round] = round]
  BY DEF Noted
<1>3. late <=> rounds[ctl[c].round].lapsed \/ flyClock >= ctl[c].until
  OBVIOUS
<1> HIDE DEF late
<1>4. round \in RoundSet /\ round.changed /\ round.from = ctl[c].from /\ round.last = at /\ round.cooled /\ round.lapsed = late
  BY <1>1 DEF RoundSet
<1> HIDE DEF round
<1> QED
  BY <1>2, <1>3, <1>4 DEF Changes

\* A machine request that takes effect or not, answered or not.
LEMMA AskStep ==
  ASSUME FlyIInv, NEW c \in Controllers, NEW after, ctl[c].pc = "act", Ask(c, after), UNCHANGED <<fly, flyClock, coord>>
  PROVE  FlyIInv'
<1> USE Fields DEF FlyIInv, FlyShape
<1>1. PICK done \in BOOLEAN, ok \in BOOLEAN, lost \in BOOLEAN :
        /\ rounds' = IF done THEN Noted(c, flyClock, FALSE) ELSE rounds
        /\ ctl' = [ctl EXCEPT ![c].todo = Tail(@), ![c].changed = @ \/ ok, ![c].pc = IF lost THEN "release" ELSE "act"]
  BY DEF Ask
<1>2. /\ DOMAIN ctl' = Controllers /\ DOMAIN ctl'[c] = DOMAIN Resting
      /\ \A d \in Controllers \ {c} : ctl'[d] = ctl[d]
      /\ ctl'[c].now = ctl[c].now /\ ctl'[c].from = ctl[c].from /\ ctl'[c].until = ctl[c].until
      /\ ctl'[c].locked = ctl[c].locked /\ ctl'[c].round = ctl[c].round /\ ctl'[c].pc \in {"act", "release"}
  BY <1>1
<1>3. ctl[c].now <= flyClock /\ ctl[c].from <= flyClock
  BY DEF ClockInv
<1>4. CASE done
  <2>1. PICK round \in Changes(c, flyClock) : ~round.cooled /\ rounds' = [rounds EXCEPT ![ctl[c].round] = round]
    <3>1. flyClock \in Nat /\ ctl[c].pc # "idle" /\ rounds' = Noted(c, flyClock, FALSE)
      BY <1>1, <1>4
    <3> HIDE DEF FlyIInv, FlyShape
    <3> QED
      BY <3>1, NotedChange
  <2>2. /\ flyClock \in Nat /\ flyClock <= flyClock /\ ctl[c].pc \in {"act", "stamp"}
        /\ coord'.cooldown \in Int /\ coord'.cooldown = coord.cooldown /\ DOMAIN coord' = DOMAIN coord
        /\ coord'.holder = coord.holder /\ coord'.expires = coord.expires
        /\ ctl'[c].pc = "release" \/ ctl'[c].pc = "act"
    BY <1>2
  <2> HIDE DEF FlyIInv, FlyShape
  <2> QED
    BY <1>2, <2>1, <2>2, NotedStep
<1>5. CASE ~done
  BY <1>1, <1>2, <1>3, <1>5, QuietStep
<1> QED
  BY <1>4, <1>5

\* A cooldown that the store takes.
LEMMA CoolStep ==
  ASSUME FlyIInv, NEW c \in Controllers, NEW nowMs \in Nat, nowMs <= flyClock, fly.cooldown,
         \/ ctl[c].pc = "act" /\ nowMs = flyClock
         \/ ctl[c].pc = "stamp" /\ nowMs = ctl[c].now /\ Remote,
         Cool(c, nowMs), UNCHANGED <<fly, flyClock>>
  PROVE  FlyIInv'
<1> USE Fields DEF FlyIInv, FlyShape
<1> DEFINE cool == Max({1, CooldownMs})
<1>1. cool \in Int /\ cool >= CooldownMs /\ cool > 0
  BY MaxOne, FlyAssumption
<1> HIDE DEF cool
<1>2. /\ coord' = [coord EXCEPT !.cooldown = nowMs + cool]
      /\ rounds' = Noted(c, nowMs, TRUE) /\ ctl' = [ctl EXCEPT ![c].pc = "release"]
  BY DEF Cool, Goto, cool
<1>3. /\ DOMAIN ctl' = Controllers /\ DOMAIN ctl'[c] = DOMAIN Resting
      /\ \A d \in Controllers \ {c} : ctl'[d] = ctl[d]
      /\ ctl'[c].now = ctl[c].now /\ ctl'[c].from = ctl[c].from /\ ctl'[c].until = ctl[c].until
      /\ ctl'[c].locked = ctl[c].locked /\ ctl'[c].round = ctl[c].round /\ ctl'[c].pc = "release"
  BY <1>2
<1>4. /\ DOMAIN coord' = DOMAIN coord /\ coord'.cooldown = nowMs + cool
      /\ coord'.holder = coord.holder /\ coord'.expires = coord.expires
  BY <1>2
<1>5. coord'.cooldown \in Int /\ coord'.cooldown > nowMs /\ coord'.cooldown >= nowMs + CooldownMs
  BY <1>1, <1>4, FlyAssumption
<1>6. PICK round \in Changes(c, nowMs) : round.cooled /\ rounds' = [rounds EXCEPT ![ctl[c].round] = round]
  <2>1. ctl[c].pc # "idle" /\ rounds' = Noted(c, nowMs, TRUE)
    BY <1>2
  <2> HIDE DEF FlyIInv, FlyShape
  <2> QED
    BY <2>1, NotedCooldown
<1> HIDE DEF FlyIInv, FlyShape
<1> QED
  BY <1>3, <1>4, <1>5, <1>6, NotedStep

\* A controller that has read the cooldown under its lease, and acts.
LEMMA RereadStep ==
  ASSUME FlyIInv, NEW c \in Controllers, lockedCooldown(c) PROVE FlyIInv'
<1> USE Fields DEF FlyIInv, FlyShape
<1>0. UNCHANGED <<fly, flyClock, coord, rounds>>
  BY DEF lockedCooldown
<1>1. CASE ctl[c].pc \in {"recheck", "reread"} /\ Goto(c, "release")
  <2>1. /\ DOMAIN ctl' = Controllers /\ DOMAIN ctl'[c] = DOMAIN Resting
        /\ \A d \in Controllers \ {c} : ctl'[d] = ctl[d]
        /\ ctl'[c].now = ctl[c].now /\ ctl'[c].from = ctl[c].from /\ ctl'[c].until = ctl[c].until
        /\ ctl'[c].round = ctl[c].round /\ ctl'[c].pc = "release"
    BY <1>1 DEF Goto
  <2> QED
    BY <1>0, <1>1, <2>1, QuietStep DEF ClockInv
<1>2. CASE ~(ctl[c].pc \in {"recheck", "reread"} /\ Goto(c, "release"))
  <2> DEFINE first == ctl[c].pc = "recheck"
             seen == IF first THEN flyClock ELSE ctl[c].now
             place == IF first /\ Remote THEN "reread" ELSE IF cooldownActive(seen) THEN "release" ELSE "act"
  <2>1. ctl' = IF first THEN [ctl EXCEPT ![c].pc = place, ![c].now = flyClock, ![c].from = flyClock]
               ELSE [ctl EXCEPT ![c].pc = place]
    BY <1>2 DEF lockedCooldown, Goto
  <2>2. ctl[c].pc \in {"recheck", "reread"}
    BY DEF lockedCooldown
  <2>3. /\ DOMAIN ctl' = Controllers /\ DOMAIN ctl'[c] = DOMAIN Resting
        /\ \A d \in Controllers \ {c} : ctl'[d] = ctl[d]
        /\ ctl'[c].pc = place /\ ctl'[c].now = seen /\ ctl'[c].from = IF first THEN flyClock ELSE ctl[c].from
        /\ ctl'[c].until = ctl[c].until /\ ctl'[c].locked = ctl[c].locked /\ ctl'[c].round = ctl[c].round
    <3> HIDE DEF place
    <3> QED
      BY <2>1
  <2>4. place \in {"reread", "release", "act"} /\ (place = "reread" <=> first /\ Remote)
        /\ (place = "act" => (fly.cooldown => coord.cooldown <= seen))
    BY FlyAssumption DEF cooldownActive, ClockInv
  <2> HIDE DEF place
  <2>5. FlyShape' /\ CooledInv' /\ RoundShape'
    BY <1>0, <2>3 DEF CooledInv, RoundShape
  <2>6. ClockInv'
    BY <1>0, <2>3 DEF ClockInv
  <2>7. RoundInv'
    BY <1>0, <2>2, <2>3, <2>4 DEF RoundInv, Remote
  <2>8. LeaseInv'
    BY <1>0, <2>2, <2>3, <2>4 DEF LeaseInv, Holds, Leased
  <2>9. SerialInv'
    <3> SUFFICES ASSUME fly.lease, ~fly.shared, Prompt PROVE SerialInv'
      BY <1>0 DEF SerialInv, Prompt, Remote
    <3>1. \A k \in DOMAIN rounds : rounds[k].last \in Nat /\ rounds[k].last <= flyClock /\ rounds[k].cooled \in BOOLEAN
      BY RoundValues DEF ClockInv
    <3>2. \A d \in Controllers : Holds(d)' => Holds(d)
      BY <1>0, <2>2, <2>3 DEF Holds, Leased
    <3>3. ~first /\ Holds(c) => /\ ctl[c].now = ctl[c].from
                                /\ \A k \in DOMAIN rounds : InTime(rounds[k]) => rounds[k].last <= ctl[c].from
      BY <2>2 DEF SerialInv
    <3>4. ASSUME Holds(c)', place = "reread" PROVE
            /\ ctl'[c].now = ctl'[c].from
            /\ \A k \in DOMAIN rounds : InTime(rounds[k]) => rounds[k].last <= ctl'[c].from
      BY <2>3, <2>4, <3>1, <3>4
    <3>5. ASSUME Holds(c)', place = "act" PROVE Serial(c)'
      <4>1. ctl'[c].from = seen /\ \A k \in DOMAIN rounds : InTime(rounds[k]) => rounds[k].last <= seen
        BY <2>3, <3>1, <3>2, <3>3, <3>5
      <4>2. \A k \in DOMAIN rounds : InTime(rounds[k]) /\ rounds[k].cooled => rounds[k].last + CooldownMs <= coord.cooldown
        BY DEF SerialInv
      <4>3. \A k \in DOMAIN rounds : InTime(rounds[k]) /\ rounds[k].cooled => rounds[k].last + CooldownMs <= seen
        BY <2>4, <3>1, <3>5, <4>2, FlyAssumption DEF CooledInv, ClockInv
      <4> QED
        BY <1>0, <3>1, <4>1, <4>3 DEF Serial
    <3>6. \A d \in Controllers : d # c => (Serial(d)' <=> Serial(d))
      BY <1>0, <2>3 DEF Serial
    <3> HIDE DEF seen, first
    <3> QED
      BY <1>0, <2>2, <2>3, <2>4, <3>2, <3>4, <3>5, <3>6 DEF SerialInv
  <2> QED
    BY <2>5, <2>6, <2>7, <2>8, <2>9
<1> QED
  BY <1>1, <1>2

\* A controller that takes the lease, or is refused.
LEMMA LeaseStep ==
  ASSUME FlyIInv, NEW c \in Controllers, acquireAutoscalerLease(c) PROVE FlyIInv'
<1> USE Fields DEF FlyIInv, FlyShape
<1>1. CASE ~acquires(holderOf(c), ctl[c].now)
  <2>1. Goto(c, "idle") /\ UNCHANGED <<fly, flyClock, coord, rounds>>
    BY <1>1 DEF acquireAutoscalerLease
  <2>2. /\ DOMAIN ctl' = Controllers /\ DOMAIN ctl'[c] = DOMAIN Resting
        /\ \A d \in Controllers \ {c} : ctl'[d] = ctl[d]
        /\ ctl'[c].pc = "idle" /\ ctl'[c].now = ctl[c].now /\ ctl'[c].from = ctl[c].from /\ ctl'[c].until = ctl[c].until
    BY <2>1 DEF Goto
  <2> QED
    BY <2>1, <2>2, QuietStep DEF ClockInv
<1>2. CASE acquires(holderOf(c), ctl[c].now)
  <2> DEFINE ttl == Max({1, LeaseTtl})
  <2>1. ttl \in Int
    BY MaxOne, FlyAssumption
  <2> HIDE DEF ttl
  <2>2. /\ ctl[c].pc = "lease"
        /\ coord' = [coord EXCEPT !.holder = holderOf(c), !.expires = ctl[c].now + ttl]
        /\ ctl' = [ctl EXCEPT ![c].pc = "recheck", ![c].locked = TRUE, ![c].until = ctl[c].now + ttl]
        /\ UNCHANGED <<fly, flyClock, rounds>>
    BY <1>2 DEF acquireAutoscalerLease, LeaseRow, ttl
  <2>3. /\ DOMAIN ctl' = Controllers /\ DOMAIN ctl'[c] = DOMAIN Resting
        /\ \A d \in Controllers \ {c} : ctl'[d] = ctl[d]
        /\ ctl'[c].pc = "recheck" /\ ctl'[c].now = ctl[c].now /\ ctl'[c].from = ctl[c].from
        /\ ctl'[c].until = ctl[c].now + ttl /\ ctl'[c].round = ctl[c].round
    BY <2>2
  <2>4. ctl'[c].locked
    BY <2>2
  <2>5. /\ DOMAIN coord' = {"holder", "expires", "cooldown"} /\ coord'.cooldown = coord.cooldown
        /\ coord'.holder = holderOf(c) /\ coord'.expires = ctl[c].now + ttl
    BY <2>2
  <2>6. ctl[c].now \in Nat /\ ctl[c].now + ttl \in Int
    BY <2>1
  <2>7. FlyShape' /\ CooledInv' /\ RoundShape'
    BY <2>2, <2>3, <2>5, <2>6 DEF CooledInv, RoundShape
  <2>8. ClockInv'
    BY <2>2, <2>3 DEF ClockInv
  <2>9. RoundInv'
    BY <2>2, <2>3 DEF RoundInv, Remote
  <2>10. LeaseInv'
    <3>1. coord.holder = Nobody \/ coord.holder = holderOf(c) \/ coord.expires <= ctl[c].now
      BY <1>2, FlyAssumption DEF acquires, memoryAcquires, sqliteAcquires, postgresAcquires
    <3>2. ASSUME fly.lease, ~fly.shared, NEW d \in Controllers, d # c, Holds(d) PROVE FALSE
      BY <2>6, <3>1, <3>2, FlyAssumption DEF LeaseInv, Holds, holderOf, ClockInv
    <3> QED
      BY <2>2, <2>3, <2>4, <2>5, <3>2 DEF LeaseInv, Holds, holderOf
  <2>11. SerialInv'
    <3>1. \A d \in Controllers : /\ Holds(d)' /\ ctl'[d].pc # "recheck" => Holds(d) /\ ctl'[d] = ctl[d]
                                 /\ ctl'[d].pc = "stamp" => ctl'[d] = ctl[d]
      BY <2>2, <2>3 DEF Holds, Leased
    <3> QED
      BY <2>2, <2>5, <3>1 DEF SerialInv, Serial, Prompt, Remote
  <2> QED
    BY <2>7, <2>8, <2>9, <2>10, <2>11
<1> QED
  BY <1>1, <1>2

\* Every step keeps the invariant.
LEMMA NextFlyIInv == ASSUME FlyIInv, [FlyNext]_flyVars PROVE FlyIInv'
<1> USE Fields DEF FlyIInv, FlyShape, ClockInv
<1>1. ASSUME NEW c \in Controllers, reconcileFlyMachinesAutoscaling(c) PROVE FlyIInv'
  <2> DEFINE n == Len(rounds) + 1
  <2>1. PICK todo : ctl' = [ctl EXCEPT ![c] = [Resting EXCEPT !.pc = "cooldown", !.now = flyClock, !.todo = todo, !.round = n]]
    BY <1>1 DEF reconcileFlyMachinesAutoscaling
  <2>2. /\ DOMAIN ctl' = Controllers /\ DOMAIN ctl'[c] = DOMAIN Resting
        /\ \A d \in Controllers \ {c} : ctl'[d] = ctl[d]
        /\ ctl'[c].pc = "cooldown" /\ ctl'[c].now = flyClock /\ ctl'[c].from = 0 /\ ctl'[c].until = 0 /\ ctl'[c].round = n
    <3> HIDE DEF n
    <3> QED
      BY <2>1 DEF Resting
  <2>0. rounds' = Append(rounds, Untouched)
    BY <1>1 DEF reconcileFlyMachinesAutoscaling
  <2>3. UNCHANGED <<fly, flyClock, coord>>
    BY <1>1 DEF reconcileFlyMachinesAutoscaling
  <2>4. Untouched \in RoundSet /\ ~Untouched.changed /\ ~Untouched.cooled /\ ~Untouched.lapsed /\ Untouched.last = 0
    BY DEF Untouched, RoundSet
  <2>11. RoundShape'
    BY <2>0, <2>4 DEF RoundShape
  <2>5. /\ n \in Nat /\ n \notin DOMAIN rounds /\ DOMAIN rounds' = DOMAIN rounds \union {n}
        /\ rounds'[n] = Untouched /\ \A k \in DOMAIN rounds : rounds'[k] = rounds[k]
    BY <2>0, <2>4 DEF RoundShape
  <2> HIDE DEF n
  <2>6. FlyShape' /\ CooledInv'
    BY <2>2, <2>3, <2>4, <2>5 DEF CooledInv
  <2>7. ClockInv'
    BY <2>2, <2>3, <2>4, <2>5
  <2>8. RoundInv'
    BY <2>2, <2>3, <2>4, <2>5 DEF RoundInv, Remote
  <2>9. LeaseInv'
    BY <2>2, <2>3 DEF LeaseInv, Holds, Leased
  <2>10. SerialInv'
    <3>1. \A d \in Controllers : /\ Holds(d)' => Holds(d) /\ ctl'[d] = ctl[d]
                                 /\ ctl'[d].pc = "stamp" => ctl'[d] = ctl[d]
      BY <2>2, <2>3 DEF Holds, Leased
    <3>2. \A k \in DOMAIN rounds' : InTime(rounds'[k]) => k \in DOMAIN rounds /\ InTime(rounds[k]) /\ rounds'[k] = rounds[k]
      BY <2>4, <2>5 DEF InTime
    <3>3. Prompt' => Prompt
      BY <2>3, <2>5 DEF Prompt, Remote
    <3>4. \A d \in Controllers : Holds(d)' /\ Serial(d) => Serial(d)'
      BY <3>1, <3>2 DEF Serial
    <3> QED
      BY <2>3, <3>1, <3>2, <3>3, <3>4 DEF SerialInv
  <2> QED
    BY <2>6, <2>7, <2>8, <2>9, <2>10, <2>11
<1>2. ASSUME NEW c \in Controllers, currentCooldownReport(c) PROVE FlyIInv'
  <2>1. PICK place \in {"idle", "lease", "act"} : Goto(c, place) /\ (place = "act" => ~fly.lease)
    BY <1>2 DEF currentCooldownReport
  <2>2. /\ DOMAIN ctl' = Controllers /\ DOMAIN ctl'[c] = DOMAIN Resting
        /\ \A d \in Controllers \ {c} : ctl'[d] = ctl[d]
        /\ ctl'[c].pc = place /\ ctl'[c].now = ctl[c].now /\ ctl'[c].from = ctl[c].from /\ ctl'[c].until = ctl[c].until
        /\ ctl'[c].round = ctl[c].round
    BY <2>1 DEF Goto
  <2> QED
    BY <1>2, <2>1, <2>2, QuietStep DEF currentCooldownReport
<1>3. ASSUME NEW c \in Controllers, Act(c) PROVE FlyIInv'
  BY <1>3, AskStep DEF Act, createMachine, stopMachine
<1>4. ASSUME NEW c \in Controllers, writeCooldown(c) PROVE FlyIInv'
  <2>1. CASE Goto(c, "release") /\ UNCHANGED <<coord, rounds>>
    <3>1. /\ DOMAIN ctl' = Controllers /\ DOMAIN ctl'[c] = DOMAIN Resting
          /\ \A d \in Controllers \ {c} : ctl'[d] = ctl[d]
          /\ ctl'[c].now = ctl[c].now /\ ctl'[c].from = ctl[c].from /\ ctl'[c].until = ctl[c].until
          /\ ctl'[c].round = ctl[c].round /\ ctl'[c].pc = "release"
      BY <2>1 DEF Goto
    <3>2. UNCHANGED <<fly, flyClock>> /\ ctl[c].pc # "idle"
      BY <1>4 DEF writeCooldown
    <3> QED
      BY <2>1, <3>1, <3>2, QuietStep
  <2>2. CASE /\ ctl[c].pc = "act" /\ fly.cooldown /\ Remote /\ ctl' = [ctl EXCEPT ![c].pc = "stamp", ![c].now = flyClock]
             /\ UNCHANGED <<coord, rounds>>
    <3>1. /\ DOMAIN ctl' = Controllers /\ DOMAIN ctl'[c] = DOMAIN Resting
          /\ \A d \in Controllers \ {c} : ctl'[d] = ctl[d]
          /\ ctl'[c].now = flyClock /\ ctl'[c].from = ctl[c].from /\ ctl'[c].until = ctl[c].until
          /\ ctl'[c].locked = ctl[c].locked /\ ctl'[c].round = ctl[c].round /\ ctl'[c].pc = "stamp"
      BY <2>2
    <3>2. UNCHANGED <<fly, flyClock>>
      BY <1>4 DEF writeCooldown
    <3> QED
      BY <2>2, <3>1, <3>2, QuietStep
  <2>3. CASE \E nowMs \in {flyClock, ctl[c].now} :
               /\ Cool(c, nowMs)
               /\ \/ ctl[c].pc = "act" /\ nowMs = flyClock /\ fly.cooldown
                  \/ ctl[c].pc = "stamp" /\ nowMs = ctl[c].now
    <3>1. PICK nowMs \in {flyClock, ctl[c].now} :
               /\ Cool(c, nowMs)
               /\ \/ ctl[c].pc = "act" /\ nowMs = flyClock /\ fly.cooldown
                  \/ ctl[c].pc = "stamp" /\ nowMs = ctl[c].now
      BY <2>3
    <3>2. UNCHANGED <<fly, flyClock>>
      BY <1>4 DEF writeCooldown
    <3>3. ctl[c].pc = "stamp" => fly.cooldown /\ Remote
      BY DEF RoundInv
    <3> QED
      BY <3>1, <3>2, <3>3, CoolStep
  <2> QED
    BY <1>4, <2>1, <2>2, <2>3 DEF writeCooldown
<1>5. ASSUME NEW c \in Controllers, ReleaseLease(c) PROVE FlyIInv'
  <2>1. /\ DOMAIN ctl' = Controllers /\ DOMAIN ctl'[c] = DOMAIN Resting
        /\ \A d \in Controllers \ {c} : ctl'[d] = ctl[d]
        /\ ctl'[c].pc = "idle" /\ ctl'[c].now = 0 /\ ctl'[c].from = 0 /\ ctl'[c].until = 0
        /\ UNCHANGED <<fly, flyClock, rounds>> /\ ctl[c].pc = "release"
    BY <1>5 DEF ReleaseLease, Resting
  <2>2. \/ coord' = coord
        \/ coord' = [coord EXCEPT !.holder = Nobody, !.expires = 0] /\ coord.holder = holderOf(c)
    BY <1>5 DEF ReleaseLease, releaseLease
  <2>3. /\ DOMAIN coord' = {"holder", "expires", "cooldown"} /\ coord'.cooldown = coord.cooldown
        /\ coord'.expires \in Int
        /\ \/ coord'.holder = coord.holder /\ coord'.expires = coord.expires
           \/ coord.holder = holderOf(c)
    <3>1. CASE coord' = coord
      BY <3>1
    <3>2. CASE coord' = [coord EXCEPT !.holder = Nobody, !.expires = 0] /\ coord.holder = holderOf(c)
      <4>1. DOMAIN coord' = DOMAIN coord /\ coord'.cooldown = coord.cooldown /\ coord'.expires = 0
        BY <3>2
      <4> QED
        BY <3>2, <4>1
    <3> QED
      BY <2>2, <3>1, <3>2
  <2>0. RoundShape'
    BY <2>1 DEF RoundShape
  <2>4. FlyShape' /\ ClockInv' /\ CooledInv'
    BY <2>1, <2>3 DEF CooledInv
  <2>5. RoundInv'
    BY <2>1 DEF RoundInv, Remote
  <2>6. LeaseInv'
    BY <2>1, <2>3 DEF LeaseInv, Holds, holderOf, Leased
  <2>7. SerialInv'
    <3>1. \A d \in Controllers : /\ Holds(d)' => Holds(d) /\ ctl'[d] = ctl[d]
                                 /\ ctl'[d].pc = "stamp" => ctl'[d] = ctl[d]
      BY <2>1 DEF Holds, Leased
    <3> QED
      BY <2>1, <2>3, <3>1 DEF SerialInv, Serial, Prompt, Remote
  <2> QED
    BY <2>0, <2>4, <2>5, <2>6, <2>7
<1>6. ASSUME NEW c \in Controllers, CrashController(c) PROVE FlyIInv'
  <2>1. /\ DOMAIN ctl' = Controllers /\ DOMAIN ctl'[c] = DOMAIN Resting
        /\ \A d \in Controllers \ {c} : ctl'[d] = ctl[d]
        /\ ctl'[c].pc = "idle" /\ ctl'[c].now = 0 /\ ctl'[c].from = 0 /\ ctl'[c].until = 0
    BY <1>6 DEF CrashController, Resting
  <2> QED
    BY <1>6, <2>1, QuietStep DEF CrashController
<1>7. ASSUME FlyTick PROVE FlyIInv'
  <2>1. flyClock' = flyClock + 1 /\ UNCHANGED <<fly, coord, ctl, rounds>>
    BY <1>7 DEF FlyTick
  <2>2. FlyShape' /\ CooledInv' /\ RoundInv' /\ RoundShape'
    BY <2>1 DEF CooledInv, RoundInv, RoundShape, Remote
  <2>3. ClockInv'
    BY <2>1, RoundValues
  <2>4. \A c \in Controllers : Holds(c)' => Holds(c)
    BY <2>1 DEF Holds
  <2>5. LeaseInv'
    BY <2>1, <2>4 DEF LeaseInv
  <2>6. SerialInv'
    BY <2>1, <2>4 DEF SerialInv, Serial, Prompt, Remote
  <2> QED
    BY <2>2, <2>3, <2>5, <2>6
<1>8. ASSUME UNCHANGED flyVars PROVE FlyIInv'
  BY <1>8 DEF flyVars, RoundShape, RoundInv, LeaseInv, Holds, CooledInv, SerialInv, Serial, Prompt, Remote
<1> QED
  BY <1>1, <1>2, <1>3, <1>4, <1>5, <1>6, <1>7, <1>8, RereadStep, LeaseStep DEF FlyNext

\* The invariant holds at the start.
LEMMA InitFlyIInv == ASSUME FlyInit PROVE FlyIInv
<1>1. rounds = <<>> /\ rounds \in Seq(RoundSet) /\ DOMAIN rounds = {}
  BY DEF FlyInit
<1> QED
  BY <1>1, Fields, FlyAssumption
  DEF FlyInit, FlyIInv, FlyShape, RoundShape, ClockInv, RoundInv, LeaseInv, Holds, Leased, CooledInv, SerialInv, Resting

\* What the autoscaler keeps true, with or without a lease and a cooldown:
\* a controller whose lease runs is the holder in the store, every change of a
\* machine is in the round of the controller that made it, and the cooldown in
\* the store covers the rounds that wrote one in time.
THEOREM FlyInvariant == FlySpec => []FlyIInv
<1> QED
  BY InitFlyIInv, NextFlyIInv, PTL DEF FlySpec

\* For every set of controllers, policy, lease and cooldown: reconciliations
\* that changed machines within their leases did so one after the other, and a
\* cooldown apart where one was written, those that failed or died halfway
\* included; two controllers act at once only after a lease ran out
\* (ScalingIsSerial).
THEOREM ScalingSerial == FlySpec => []ScalingIsSerial
<1>1. ASSUME FlyIInv PROVE ScalingIsSerial
  <2> SUFFICES ASSUME fly.lease, ~fly.shared PROVE
        /\ \A c, d \in Controllers :
             /\ c # d
             /\ ctl[c].pc = "act" /\ ctl[d].pc = "act"
             => flyClock >= ctl[c].until \/ flyClock >= ctl[d].until
        /\ Prompt =>
             \A j, k \in DOMAIN rounds :
               j # k /\ InTime(rounds[j]) /\ InTime(rounds[k]) => Follows(rounds[j], rounds[k]) \/ Follows(rounds[k], rounds[j])
    BY DEF ScalingIsSerial
  <2>1. ASSUME NEW c \in Controllers, NEW d \in Controllers, c # d,
               ctl[c].pc = "act", ctl[d].pc = "act",
               ~(flyClock >= ctl[c].until), ~(flyClock >= ctl[d].until)
        PROVE FALSE
    <3>1. flyClock < ctl[c].until /\ flyClock < ctl[d].until
      BY <1>1, <2>1 DEF FlyIInv, FlyShape
    <3> QED
      BY <1>1, <2>1, <3>1 DEF FlyIInv, LeaseInv, Holds, Leased
  <2> QED
    BY <1>1, <2>1 DEF FlyIInv, SerialInv
<1> QED
  BY FlyInvariant, <1>1, PTL

-----------------------------------------------------------------------------
(* The fleet.  What the last publication promises of a node must outlive   *)
(* the other targets' answers, so the invariant compares what every target *)
(* that has been tried holds with what it was to receive (PublishingInv).  *)
(* That the targets it names are all the nodes there were is a fact of     *)
(* placement alone, which the lemmas below state.                          *)

\* Only known nodes are registered, and every url holds something.
FleetShape == DOMAIN registry \subseteq DOMAIN FleetNodes /\ DOMAIN held = Urls /\ DOMAIN publishing = DOMAIN NoPublication

\* The nodes a publication has read are told apart by their ids.
Told(nodes) ==
  /\ \A n \in nodes : n.id \in DOMAIN FleetNodes
  /\ \A n, m \in nodes : n.id = m.id => n = m

\* A target holds its snapshot, or a warm-up came later.
Received(u, targets) == held[u].by = "warmup" \/ held[u].routes = targets[u]

\* What is left is as it was planned; what was tried was applied, or the
\* publication has failed; it is complete only when nothing is left.
PublishingInv ==
  LET p == publishing
      targets == publishTargets(p.nodes, p.snapshot, p.policy)
  IN p.state # "none" =>
       /\ Told(p.nodes)
       /\ DOMAIN p.left \subseteq DOMAIN targets
       /\ \A u \in DOMAIN p.left : p.left[u] = targets[u]
       /\ \A u \in DOMAIN targets \ DOMAIN p.left : p.failed \/ Received(u, targets)
       /\ p.state = "complete" => DOMAIN p.left = {} /\ ~p.failed

FleetInv == FleetShape /\ PublishingInv

-----------------------------------------------------------------------------
\* A rule selects among the nodes it is given (selectByRule).
LEMMA RuleSelects ==
  ASSUME NEW nodes, NEW rule PROVE selectByRule(nodes, rule) \subseteq nodes
<1>1. \A tier : selectByTier(nodes, tier) \subseteq nodes
  BY DEF selectByTier
<1> QED
  BY <1>1 DEF selectByRule

\* A policy that moves tenants away publishes to every node.
LEMMA EveryNodePlanned ==
  ASSUME NEW nodes, NEW snapshot, NEW policy, NEW x \in snapshot,
         x \in policy.drained \union DOMAIN policy.isolated
  PROVE DOMAIN planRuntimeSnapshotPlacements(nodes, snapshot, policy) = nodes
<1>1. hasTenantIsolationPolicy(policy)
  BY DEF hasTenantIsolationPolicy
<1>2. snapshotRequiresTenantDrainPublish(snapshot, policy)
  BY <1>1 DEF snapshotRequiresTenantDrainPublish
<1> QED
  BY <1>2 DEF planRuntimeSnapshotPlacements

\* The plan gives each node it names that node's part of the snapshot.
LEMMA PlanOf ==
  ASSUME NEW nodes, NEW snapshot, NEW policy
  PROVE LET plan == planRuntimeSnapshotPlacements(nodes, snapshot, policy)
        IN /\ DOMAIN plan \subseteq nodes
           /\ \A n \in DOMAIN plan : plan[n] = routeSnapshotForRuntimeNode(nodes, snapshot, n, policy)
BY DEF planRuntimeSnapshotPlacements

\* What a target that is a node receives (publishPlacedRouteSnapshot).
LEMMA NodeTarget ==
  ASSUME NEW nodes, NEW snapshot, NEW policy, policy # NoPolicy, Told(nodes),
         NEW n \in DOMAIN planRuntimeSnapshotPlacements(nodes, snapshot, policy)
  PROVE /\ n.id \in DOMAIN publishTargets(nodes, snapshot, policy)
        /\ publishTargets(nodes, snapshot, policy)[n.id] = routeSnapshotForRuntimeNode(nodes, snapshot, n, policy)
<1> DEFINE plan == planRuntimeSnapshotPlacements(nodes, snapshot, policy)
           m == CHOOSE m \in DOMAIN plan : m.id = n.id
<1>1. DOMAIN plan \subseteq nodes /\ plan[n] = routeSnapshotForRuntimeNode(nodes, snapshot, n, policy)
  BY PlanOf
<1>2. m \in DOMAIN plan /\ m.id = n.id
  OBVIOUS
<1>3. m = n
  BY <1>1, <1>2 DEF Told
<1>4. /\ n.id \in DOMAIN publishTargets(nodes, snapshot, policy)
      /\ publishTargets(nodes, snapshot, policy)[n.id] = plan[m]
  BY DEF publishTargets
<1> QED
  BY <1>1, <1>3, <1>4

\* What a static target that is no selected node receives.
LEMMA StaticTarget ==
  ASSUME NEW nodes, NEW snapshot, NEW policy, policy # NoPolicy, NEW u \in StaticUrls,
         \A n \in DOMAIN planRuntimeSnapshotPlacements(nodes, snapshot, policy) : n.id # u
  PROVE /\ u \in DOMAIN publishTargets(nodes, snapshot, policy)
        /\ publishTargets(nodes, snapshot, policy)[u] = staticRouteSnapshotForPlacement(snapshot, policy)
BY DEF publishTargets

\* Every target is a known url.
LEMMA TargetsKnown ==
  ASSUME NEW nodes, NEW snapshot, NEW policy, Told(nodes)
  PROVE DOMAIN publishTargets(nodes, snapshot, policy) \subseteq Urls
<1>1. DOMAIN planRuntimeSnapshotPlacements(nodes, snapshot, policy) \subseteq nodes
  BY PlanOf
<1> QED
  BY <1>1 DEF publishTargets, Told, Urls

\* No route of a project that is placed or drained goes where it must not:
\* the part of a node, and that of a static target.
LEMMA PartsIsolate ==
  ASSUME NEW nodes, NEW snapshot, NEW policy, policy # NoPolicy, NEW x \in snapshot
  PROVE /\ \A n : /\ x \in routeSnapshotForRuntimeNode(nodes, snapshot, n, policy)
                  => IF x \in DOMAIN policy.isolated THEN n \in selectByRule(nodes, policy.isolated[x])
                     ELSE x \notin policy.drained
        /\ x \in staticRouteSnapshotForPlacement(snapshot, policy)
             => x \notin policy.drained \union DOMAIN policy.isolated
BY DEF routeSnapshotForRuntimeNode, routeVisibleToNode, nodeMatchesRule, staticRouteSnapshotForPlacement,
       routeVisibleToStaticTarget

\* The nodes a plan names are those the exported function selects
\* (selectRuntimeNodesForSnapshot).
LEMMA PlanSelects ==
  ASSUME NEW nodes, NEW snapshot, NEW policy
  PROVE DOMAIN planRuntimeSnapshotPlacements(nodes, snapshot, policy)
          = selectRuntimeNodesForSnapshot(nodes, snapshot, policy)
<1> DEFINE plan == planRuntimeSnapshotPlacements(nodes, snapshot, policy)
           isolation == selectedIsolationNodeIds(nodes, policy)
<1>1. CASE hasTenantIsolationPolicy(policy)
  BY <1>1 DEF selectRuntimeNodesForSnapshot
<1>2. CASE ~hasTenantIsolationPolicy(policy)
  <2>1. DOMAIN policy.isolated = {} /\ policy.drained = {}
    BY <1>2 DEF hasTenantIsolationPolicy
  <2>2. isolation = {}
    BY <2>1 DEF selectedIsolationNodeIds
  <2>3. ~snapshotRequiresTenantDrainPublish(snapshot, policy)
    BY <1>2 DEF snapshotRequiresTenantDrainPublish
  <2>4. CASE snapshot = {}
    BY <1>2, <2>4 DEF selectRuntimeNodesForSnapshot, planRuntimeSnapshotPlacements
  <2>5. CASE snapshot # {}
    <3>1. DOMAIN plan = {n \in nodes : routeSnapshotForRuntimeNode(nodes, snapshot, n, policy) # {}}
      BY <2>3, <2>5 DEF planRuntimeSnapshotPlacements
    <3>2. \A n \in nodes : routeSnapshotForRuntimeNode(nodes, snapshot, n, policy)
            = {p \in snapshot : RuleOf(policy, p) = NoRule \/ n \in selectByRule(nodes, RuleOf(policy, p))}
      BY <2>1, <2>2 DEF routeSnapshotForRuntimeNode, routeVisibleToNode, nodeMatchesRule, excludeIsolationNodeFromDefault
    <3>3. DOMAIN plan = {n \in nodes : \E p \in snapshot :
                           RuleOf(policy, p) = NoRule \/ n \in selectByRule(nodes, RuleOf(policy, p))}
      BY <3>1, <3>2
    <3>4. CASE \E p \in snapshot : RuleOf(policy, p) = NoRule
      <4>1. selectRuntimeNodesForSnapshot(nodes, snapshot, policy) = nodes
        BY <1>2, <3>4 DEF selectRuntimeNodesForSnapshot
      <4> QED
        BY <3>3, <3>4, <4>1
    <3>5. CASE \A p \in snapshot : RuleOf(policy, p) # NoRule
      <4>1. selectRuntimeNodesForSnapshot(nodes, snapshot, policy)
              = UNION {selectByRule(nodes, RuleOf(policy, p)) : p \in snapshot}
        BY <1>2, <2>5, <3>5 DEF selectRuntimeNodesForSnapshot
      <4>2. \A p \in snapshot : selectByRule(nodes, RuleOf(policy, p)) \subseteq nodes
        BY RuleSelects
      <4> QED
        BY <3>3, <3>5, <4>1, <4>2
    <3> QED
      BY <3>4, <3>5
  <2> QED
    BY <2>4, <2>5
<1> QED
  BY <1>1, <1>2

-----------------------------------------------------------------------------
\* A step that leaves the publication, and what its targets hold but for
\* warm-ups, keeps the invariant.
LEMMA PublishingKept ==
  ASSUME FleetInv, UNCHANGED publishing,
         DOMAIN held' = Urls,
         \A u \in Urls : held'[u] = held[u] \/ held'[u].by = "warmup"
  PROVE PublishingInv'
<1> USE DEF PublishingInv
<1> DEFINE targets == publishTargets(publishing.nodes, publishing.snapshot, publishing.policy)
<1> SUFFICES ASSUME publishing.state # "none"
             PROVE \A u \in DOMAIN targets \ DOMAIN publishing.left : publishing.failed \/ Received(u, targets)'
  BY DEF FleetInv
<1>1. DOMAIN targets \subseteq Urls
  BY TargetsKnown DEF FleetInv
<1> QED
  BY <1>1 DEF FleetInv, Received

\* Every step of the fleet keeps the invariant.
LEMMA FleetStep == FleetInv /\ [FleetNext]_fleetVars => FleetInv'
<1> SUFFICES ASSUME FleetInv, [FleetNext]_fleetVars PROVE FleetInv'
  OBVIOUS
<1> USE DEF FleetShape
<1>1. ASSUME NEW n \in DOMAIN FleetNodes, RegisterNode(n) \/ sendRuntimeHeartbeat(n) \/ warmAndActivateRuntimeNode(n)
      PROVE FleetInv'
  <2>1. DOMAIN registry' \subseteq DOMAIN FleetNodes
    BY <1>1 DEF FleetInv, RegisterNode, sendRuntimeHeartbeat, warmAndActivateRuntimeNode, Put
  <2>2. UNCHANGED <<publishing, held>>
    BY <1>1 DEF RegisterNode, sendRuntimeHeartbeat, warmAndActivateRuntimeNode
  <2> QED
    BY <2>1, <2>2, PublishingKept DEF FleetInv
<1>2. ASSUME Operate PROVE FleetInv'
  <2>1. DOMAIN registry' \subseteq DOMAIN FleetNodes /\ UNCHANGED held
    BY <1>2 DEF FleetInv, Operate, ChangeLifecycle, RemoveNode, updateRuntimeNodeStatus, ChangeRoutes,
                RestartControlPlane, Drop
  <2>2. publishing' = publishing \/ publishing' = NoPublication
    BY <1>2 DEF Operate, ChangeLifecycle, RemoveNode, updateRuntimeNodeStatus, ChangeRoutes, RestartControlPlane
  <2>3. CASE publishing' = publishing
    BY <2>1, <2>3, PublishingKept DEF FleetInv
  <2>4. CASE publishing' = NoPublication
    BY <2>1, <2>4 DEF FleetInv, PublishingInv, NoPublication
  <2> QED
    BY <2>2, <2>3, <2>4
<1>3. ASSUME publishCurrentRouteSnapshot PROVE FleetInv'
  <2> DEFINE nodes == listActiveRuntimeNodes
             targets == publishTargets(nodes, routed, placement)
  <2>1. Told(nodes)
    BY DEF FleetInv, listActiveRuntimeNodes, NodeRecord, Told
  <2>2. /\ publishing' = [state |-> "sending", nodes |-> nodes, snapshot |-> routed, policy |-> placement,
                          left |-> targets, failed |-> FALSE]
        /\ UNCHANGED <<registry, held>>
    BY <1>3 DEF publishCurrentRouteSnapshot
  <2> HIDE DEF nodes
  <2>3. PublishingInv'
    BY <2>1, <2>2 DEF PublishingInv
  <2> QED
    BY <2>2, <2>3 DEF FleetInv, NoPublication
<1>4. ASSUME NEW u \in Urls, DeliverTo(u) PROVE FleetInv'
  <2> DEFINE p == publishing
             targets == publishTargets(p.nodes, p.snapshot, p.policy)
             left == Drop(p.left, u)
  <2>1. PICK ok \in BOOLEAN :
          /\ held' = IF ok THEN [held EXCEPT ![u] = [routes |-> p.left[u], by |-> "publication"]] ELSE held
          /\ publishing' = [p EXCEPT
               !.left = left,
               !.failed = @ \/ ~ok,
               !.state = IF left # <<>> THEN @ ELSE IF ok /\ ~p.failed THEN "complete" ELSE "partial"]
    BY <1>4 DEF DeliverTo
  <2>2. p.state = "sending" /\ u \in DOMAIN p.left /\ UNCHANGED registry
    BY <1>4 DEF DeliverTo
  <2>3. /\ DOMAIN left = DOMAIN p.left \ {u}
        /\ \A v \in DOMAIN left : left[v] = p.left[v]
        /\ left = <<>> => DOMAIN left = {}
    BY DEF Drop
  <2> HIDE DEF left
  <2>4. /\ DOMAIN publishing' = DOMAIN NoPublication
        /\ publishing'.nodes = p.nodes /\ publishing'.snapshot = p.snapshot /\ publishing'.policy = p.policy
        /\ publishing'.left = left
        /\ publishing'.failed <=> (p.failed \/ ~ok)
        /\ publishing'.state = "complete" => left = <<>> /\ ok /\ ~p.failed
    BY <2>1, <2>2 DEF FleetInv, NoPublication
  <2>5. /\ DOMAIN held' = Urls
        /\ \A v \in Urls \ {u} : held'[v] = held[v]
        /\ ok => held'[u].routes = p.left[u]
    BY <2>1 DEF FleetInv
  <2>6. Told(p.nodes) /\ DOMAIN p.left \subseteq DOMAIN targets /\ (\A v \in DOMAIN p.left : p.left[v] = targets[v])
    BY <2>2 DEF FleetInv, PublishingInv
  <2>7. DOMAIN targets \subseteq Urls
    BY <2>6, TargetsKnown
  <2>8. ASSUME NEW v \in DOMAIN targets \ DOMAIN left PROVE publishing'.failed \/ Received(v, targets)'
    <3>1. CASE v = u
      BY <2>2, <2>4, <2>5, <2>6, <3>1 DEF Received
    <3>2. CASE v # u
      BY <2>2, <2>3, <2>4, <2>5, <2>7, <2>8, <3>2 DEF FleetInv, PublishingInv, Received
    <3> QED
      BY <3>1, <3>2
  <2>9. PublishingInv'
    BY <2>2, <2>3, <2>4, <2>6, <2>8 DEF PublishingInv
  <2> QED
    BY <2>2, <2>4, <2>5, <2>9 DEF FleetInv
<1>5. ASSUME Activate PROVE FleetInv'
  <2>1. UNCHANGED publishing /\ DOMAIN registry' = DOMAIN registry
    BY <1>5 DEF Activate
  <2>2. DOMAIN held' = Urls /\ (\A u \in Urls : held'[u] = held[u] \/ held'[u].by = "warmup")
    BY <1>5 DEF Activate, FleetInv
  <2> QED
    BY <2>1, <2>2, PublishingKept DEF FleetInv
<1>6. CASE UNCHANGED fleetVars
  <2>1. UNCHANGED registry /\ UNCHANGED held /\ UNCHANGED publishing
    BY <1>6 DEF fleetVars
  <2> QED
    BY <2>1, PublishingKept DEF FleetInv
<1> QED
  BY <1>1, <1>2, <1>3, <1>4, <1>5, <1>6 DEF FleetNext

\* A complete publication isolates (placement.ts, publishPlacedRouteSnapshot).
LEMMA FleetIsolates == FleetInv => PlacementIsolates
<1> DEFINE p == publishing
           targets == publishTargets(p.nodes, p.snapshot, p.policy)
           known == {u \in {n.id : n \in p.nodes} \union StaticUrls : held[u].by # "warmup"}
           Serving(x) == {u \in known : x \in held[u].routes}
<1> SUFFICES ASSUME FleetInv, p.state = "complete", p.policy # NoPolicy
             PROVE /\ \A x \in p.snapshot :
                        IF x \in DOMAIN p.policy.isolated
                        THEN Serving(x) \subseteq {n.id : n \in selectByRule(p.nodes, p.policy.isolated[x])}
                        ELSE x \in p.policy.drained => Serving(x) = {}
                   /\ \A u \in StaticUrls \ {n.id : n \in p.nodes} :
                        held[u].by # "warmup"
                          => held[u].routes \subseteq defaultRouteSnapshotForTenantDrain(p.snapshot, p.policy)
  BY PlanSelects DEF PlacementIsolates
<1>1. Told(p.nodes) /\ (\A u \in DOMAIN targets : Received(u, targets))
  BY DEF FleetInv, PublishingInv
<1>2. ASSUME NEW u \in StaticUrls, \A n \in DOMAIN planRuntimeSnapshotPlacements(p.nodes, p.snapshot, p.policy) : n.id # u,
             held[u].by # "warmup"
      PROVE held[u].routes = staticRouteSnapshotForPlacement(p.snapshot, p.policy)
  BY <1>1, <1>2, StaticTarget DEF Received
<1>3. ASSUME NEW x \in p.snapshot, x \in p.policy.drained \union DOMAIN p.policy.isolated, NEW u \in Serving(x)
      PROVE IF x \in DOMAIN p.policy.isolated
            THEN u \in {n.id : n \in selectByRule(p.nodes, p.policy.isolated[x])}
            ELSE x \notin p.policy.drained
  <2>1. DOMAIN planRuntimeSnapshotPlacements(p.nodes, p.snapshot, p.policy) = p.nodes
    BY <1>3, EveryNodePlanned
  <2>2. held[u].by # "warmup" /\ x \in held[u].routes
    BY <1>3
  <2>3. CASE \E n \in p.nodes : n.id = u
    <3>1. PICK n \in p.nodes : n.id = u
      BY <2>3
    <3>2. u \in DOMAIN targets /\ targets[u] = routeSnapshotForRuntimeNode(p.nodes, p.snapshot, n, p.policy)
      BY <1>1, <2>1, <3>1, NodeTarget
    <3>3. x \in routeSnapshotForRuntimeNode(p.nodes, p.snapshot, n, p.policy)
      BY <1>1, <2>2, <3>2 DEF Received
    <3> QED
      BY <3>1, <3>3, PartsIsolate
  <2>4. CASE \A n \in p.nodes : n.id # u
    <3>1. u \in StaticUrls
      BY <2>4
    <3>2. held[u].routes = staticRouteSnapshotForPlacement(p.snapshot, p.policy)
      BY <1>2, <2>1, <2>2, <2>4, <3>1
    <3> QED
      BY <1>3, <2>2, <3>2, PartsIsolate
  <2> QED
    BY <2>3, <2>4
<1>4. ASSUME NEW u \in StaticUrls \ {n.id : n \in p.nodes}, held[u].by # "warmup"
      PROVE held[u].routes \subseteq defaultRouteSnapshotForTenantDrain(p.snapshot, p.policy)
  <2>1. held[u].routes = staticRouteSnapshotForPlacement(p.snapshot, p.policy)
    BY <1>2, <1>4, PlanOf
  <2>2. staticRouteSnapshotForPlacement(p.snapshot, p.policy) \subseteq p.snapshot
    BY DEF staticRouteSnapshotForPlacement
  <2> QED
    BY <2>1, <2>2, PartsIsolate DEF defaultRouteSnapshotForTenantDrain
<1> QED
  BY <1>3, <1>4

\* After a publication that every target has applied, isolated projects are
\* served by their pools alone, drained ones by nobody, and static targets
\* have no tenant that is placed; for every fleet, policy and snapshot
\* (publishPlacedRouteSnapshot, planRuntimeSnapshotPlacements).
THEOREM PublicationsIsolate == FleetSpec => []PlacementIsolates
<1>1. FleetInit => FleetInv
  BY DEF FleetInit, FleetInv, FleetShape, PublishingInv, NoPublication
<1> QED
  BY <1>1, FleetStep, FleetIsolates, PTL DEF FleetSpec

-----------------------------------------------------------------------------
(* The HTTP API.  The audit record of a request is decided when it is let  *)
(* in and written when its response ends, so the invariant says what a     *)
(* hook stands for all the way from one to the other (HookInv).  Uploads   *)
(* of the same bytes share one file, so what a registration relies on is   *)
(* said of every upload that has passed the store (StoredInv).             *)

ConnFields == {"req", "pc", "scopes", "hook", "gone", "stale", "status", "at", "flaked"}

ApiShape == DOMAIN conns = Clients /\ \A c \in Clients : DOMAIN conns[c] = ConnFields

\* Before a token has been looked at there is no right and no hook.
Unknown(c) == conns[c].pc \in {"new", "public", "body", "authorize", "used"}

\* A hook is installed for the requests that were let in with a token and
\* are no GET; a response that has ended left its record.
HookInv ==
  /\ \A c \in Clients :
       /\ Unknown(c) => conns[c].scopes = {}
       /\ conns[c].pc = "used" => configuredApiTokens # {}
       /\ conns[c].hook <=> /\ api.sink
                            /\ configuredApiTokens # {}
                            /\ conns[c].scopes # {}
                            /\ Req(c).method # "GET"
       /\ conns[c].pc = "done" /\ conns[c].hook /\ ~conns[c].gone => AuditRecord(c) \in auditLog
  /\ \A x \in auditLog : \E c \in Clients : x = AuditRecord(c) /\ conns[c].hook /\ conns[c].pc = "done"

\* A digest is in the store, or the validator failed an upload of it.
StoredDigest(d) == d \in files \/ \E c \in Clients : conns[c].flaked /\ Digest(c) = d

\* What is registered, or may be registered next, is stored.
StoredInv ==
  /\ \A a \in artifacts : StoredDigest(a[2])
  /\ \A c \in Clients :
       /\ conns[c].pc = "register" => StoredDigest(Digest(c))
       /\ conns[c].pc = "validate" /\ api.store = "file" => StoredDigest(Digest(c))
       /\ conns[c].pc = "unlink" => conns[c].flaked

ApiInv == ApiShape /\ HookInv /\ StoredInv

-----------------------------------------------------------------------------
\* What every step of a request does to the connections: it is its own
\* only, keeps the request, and forgets neither a client that left nor a
\* failed validation.
ConnStep(c) ==
  /\ DOMAIN conns' = Clients
  /\ DOMAIN conns'[c] = ConnFields
  /\ \A d \in Clients \ {c} : conns'[d] = conns[d]
  /\ conns'[c].req = conns[c].req
  /\ conns[c].flaked => conns'[c].flaked
  /\ conns[c].gone => conns'[c].gone

\* ... and of most steps: who was let in, and with what, stays.
SameRights(c) ==
  /\ ConnStep(c)
  /\ conns'[c].scopes = conns[c].scopes
  /\ conns'[c].hook = conns[c].hook

\* An assignment of pc and status is such a step (Move, Respond).
LEMMA MoveStep ==
  ASSUME ApiShape, NEW c \in Clients, NEW place, NEW status,
         Move(c, place) \/ Respond(c, status)
  PROVE /\ SameRights(c)
        /\ Move(c, place) => conns'[c].pc = place
        /\ Respond(c, status) => conns'[c].pc = "ending"
  BY DEF ApiShape, ConnFields, ConnStep, SameRights, Move, Respond

\* A step before the end of a response that leaves its rights alone leaves
\* the audit as it is.
LEMMA HookKept ==
  ASSUME ApiInv, NEW c \in Clients, SameRights(c), UNCHANGED <<api, auditLog>>,
         conns[c].pc # "done", conns'[c].pc # "done",
         Unknown(c)' => Unknown(c),
         conns'[c].pc = "used" => configuredApiTokens # {}
  PROVE ApiShape' /\ HookInv'
<1>1. ApiShape'
  BY DEF ApiInv, ApiShape, SameRights, ConnStep
<1>2. \A d \in Clients \ {c} : conns'[d] = conns[d]
  BY DEF SameRights, ConnStep
<1>3. \A d \in Clients : d # c => (AuditRecord(d)' = AuditRecord(d))
  BY <1>2 DEF AuditRecord, requiredScopeFor, Req, Is, On, bodyHasMode
<1>4. ASSUME NEW d \in Clients
      PROVE /\ Unknown(d)' => conns'[d].scopes = {}
            /\ conns'[d].pc = "used" => configuredApiTokens' # {}
            /\ conns'[d].hook <=> /\ api'.sink
                                  /\ configuredApiTokens' # {}
                                  /\ conns'[d].scopes # {}
                                  /\ Req(d)'.method # "GET"
            /\ conns'[d].pc = "done" /\ conns'[d].hook /\ ~conns'[d].gone => AuditRecord(d)' \in auditLog'
  <2>1. CASE d = c
    BY <2>1 DEF ApiInv, HookInv, SameRights, ConnStep, Req, configuredApiTokens
  <2>2. CASE d # c
    BY <1>2, <1>3, <2>2 DEF ApiInv, HookInv, Unknown, Req, configuredApiTokens
  <2> QED
    BY <2>1, <2>2
<1>5. ASSUME NEW x \in auditLog'
      PROVE \E d \in Clients : x = AuditRecord(d)' /\ conns'[d].hook /\ conns'[d].pc = "done"
  <2>1. PICK d \in Clients : x = AuditRecord(d) /\ conns[d].hook /\ conns[d].pc = "done"
    BY <1>5 DEF ApiInv, HookInv
  <2>2. d # c
    BY <2>1
  <2> QED
    BY <1>2, <1>3, <2>1, <2>2
<1> QED
  BY <1>1, <1>4, <1>5 DEF HookInv

\* What is stored stays so, but for an upload whose validation failed.
LEMMA StoredGrows ==
  ASSUME ApiInv, NEW c \in Clients, ConnStep(c),
         files \subseteq files' \/ (conns[c].flaked /\ files' = files \ {Digest(c)})
  PROVE \A d : StoredDigest(d) => StoredDigest(d)'
<1> SUFFICES ASSUME NEW d, StoredDigest(d) PROVE StoredDigest(d)'
  OBVIOUS
<1>1. \A x \in Clients : conns[x].flaked /\ Digest(x) = d => conns'[x].flaked /\ Digest(x)' = d
  BY DEF ConnStep, Digest, Req
<1> QED
  BY <1>1 DEF StoredDigest

\* A step that registers and passes on only what is stored.
LEMMA StoredKept ==
  ASSUME ApiInv, NEW c \in Clients, ConnStep(c), UNCHANGED api,
         \A d : StoredDigest(d) => StoredDigest(d)',
         \A a \in artifacts' : a \in artifacts \/ StoredDigest(a[2]),
         conns'[c].pc \in {"register", "validate"} =>
           (conns'[c].pc = "validate" /\ api.store # "file") \/ StoredDigest(Digest(c))',
         conns'[c].pc = "unlink" => conns'[c].flaked
  PROVE StoredInv'
<1>1. \A a \in artifacts' : StoredDigest(a[2])'
  BY DEF ApiInv, StoredInv
<1>2. ASSUME NEW d \in Clients
      PROVE /\ conns'[d].pc = "register" => StoredDigest(Digest(d))'
            /\ conns'[d].pc = "validate" /\ api'.store = "file" => StoredDigest(Digest(d))'
            /\ conns'[d].pc = "unlink" => conns'[d].flaked
  <2>1. CASE d = c
    BY <2>1
  <2>2. CASE d # c
    <3>1. conns'[d] = conns[d] /\ Digest(d)' = Digest(d)
      BY <2>2 DEF ConnStep, Digest, Req
    <3>2. StoredDigest(Digest(d)) => StoredDigest(Digest(d))'
      <4>1. StoredDigest(Digest(d)) => \/ Digest(d) \in files'
                                       \/ \E x \in Clients : conns'[x].flaked /\ Digest(x)' = Digest(d)
        BY DEF StoredDigest
      <4> QED
        BY <3>1, <4>1 DEF StoredDigest
    <3> QED
      BY <3>1, <3>2 DEF ApiInv, StoredInv
  <2> QED
    BY <2>1, <2>2
<1> QED
  BY <1>1, <1>2 DEF StoredInv

\* Letting a request in installs the hook it is due (Admit).
LEMMA AdmitStep ==
  ASSUME ApiInv, NEW c \in Clients, NEW scopes, Admit(c, scopes, configuredApiTokens # {}),
         UNCHANGED <<api, auditLog, files, artifacts>>,
         conns[c].pc \in {"authorize", "used"}
  PROVE ApiInv'
<1>1. CASE ~tokenAllows(scopes, requiredScopeFor(Req(c)))
  <2>1. Respond(c, 403)
    BY <1>1 DEF Admit
  <2>2. SameRights(c) /\ conns'[c].pc = "ending"
    BY <2>1, MoveStep DEF ApiInv
  <2>3. ApiShape' /\ HookInv'
    BY <2>2, HookKept DEF Unknown
  <2>4. ConnStep(c)
    BY <2>2 DEF SameRights
  <2>5. StoredInv'
    BY <2>2, <2>4, StoredGrows, StoredKept
  <2> QED
    BY <2>3, <2>5 DEF ApiInv
<1>2. CASE tokenAllows(scopes, requiredScopeFor(Req(c)))
  <2>1. conns' = [conns EXCEPT ![c].pc = "dispatch", ![c].scopes = scopes,
                                ![c].hook = installAuditHook(c, configuredApiTokens # {})]
    BY <1>2 DEF Admit
  <2>2. ConnStep(c)
    BY <2>1 DEF ApiInv, ApiShape, ConnFields, ConnStep
  <2>3. /\ conns'[c].pc = "dispatch" /\ conns'[c].scopes = scopes
        /\ conns'[c].hook = installAuditHook(c, configuredApiTokens # {})
    BY <2>1 DEF ApiInv, ApiShape, ConnFields
  <2>4. scopes # {}
    BY <1>2 DEF tokenAllows
  <2>5. ApiShape'
    BY <2>2 DEF ApiInv, ApiShape, ConnStep
  <2>6. \A d \in Clients : d # c => conns'[d] = conns[d] /\ AuditRecord(d)' = AuditRecord(d)
    BY <2>2 DEF ConnStep, AuditRecord, requiredScopeFor, Req, Is, On, bodyHasMode
  <2>7. ASSUME NEW d \in Clients
        PROVE /\ Unknown(d)' => conns'[d].scopes = {}
              /\ conns'[d].pc = "used" => configuredApiTokens' # {}
              /\ conns'[d].hook <=> /\ api'.sink
                                    /\ configuredApiTokens' # {}
                                    /\ conns'[d].scopes # {}
                                    /\ Req(d)'.method # "GET"
              /\ conns'[d].pc = "done" /\ conns'[d].hook /\ ~conns'[d].gone => AuditRecord(d)' \in auditLog'
    <3>1. CASE d = c
      BY <2>2, <2>3, <2>4, <3>1 DEF ConnStep, Unknown, Req, configuredApiTokens, installAuditHook
    <3>2. CASE d # c
      BY <2>6, <3>2 DEF ApiInv, HookInv, Unknown, Req, configuredApiTokens
    <3> QED
      BY <3>1, <3>2
  <2>8. ASSUME NEW x \in auditLog'
        PROVE \E d \in Clients : x = AuditRecord(d)' /\ conns'[d].hook /\ conns'[d].pc = "done"
    <3>1. PICK d \in Clients : x = AuditRecord(d) /\ conns[d].hook /\ conns[d].pc = "done"
      BY <2>8 DEF ApiInv, HookInv
    <3>2. d # c
      BY <3>1
    <3> QED
      BY <2>6, <3>1, <3>2
  <2>9. StoredInv'
    BY <2>2, <2>3, StoredGrows, StoredKept
  <2> QED
    BY <2>5, <2>7, <2>8, <2>9 DEF ApiInv, HookInv
<1> QED
  BY <1>1, <1>2

\* A step that moves a request on, and neither stores nor registers.
LEMMA PassingStep ==
  ASSUME ApiInv, NEW c \in Clients, SameRights(c), UNCHANGED <<api, auditLog, artifacts>>, files \subseteq files',
         conns[c].pc # "done", conns'[c].pc # "done",
         Unknown(c)' => Unknown(c),
         conns'[c].pc = "used" => configuredApiTokens # {},
         conns'[c].pc = "register" => Digest(c) \in files',
         conns'[c].pc = "validate" => api.store # "file" \/ Digest(c) \in files',
         conns'[c].pc # "unlink"
  PROVE ApiInv'
<1>1. ApiShape' /\ HookInv'
  BY HookKept
<1>2. ConnStep(c)
  BY DEF SameRights
<1>3. \A d : StoredDigest(d) => StoredDigest(d)'
  BY <1>2, StoredGrows
<1>4. Digest(c) \in files' => StoredDigest(Digest(c))'
  BY <1>2 DEF ConnStep, StoredDigest, Digest, Req
<1>5. StoredInv'
  BY <1>2, <1>3, <1>4, StoredKept
<1> QED
  BY <1>1, <1>5 DEF ApiInv

\* Every step of a request keeps the invariant.
LEMMA ServeKeeps ==
  ASSUME ApiInv, NEW c \in Clients, ServeStep(c) \/ Leave(c)
  PROVE ApiInv'
<1>0. ApiShape
  BY DEF ApiInv
<1>1. ASSUME Begin(c) PROVE ApiInv'
  <2>1. SameRights(c) /\ conns'[c].pc \in {"public", "body", "authorize"}
    BY <1>0, <1>1 DEF Begin, SameRights, ConnStep, ApiShape, ConnFields
  <2> QED
    BY <1>1, <2>1, PassingStep DEF Begin, At, Unknown
<1>2. ASSUME ServePublic(c) PROVE ApiInv'
  <2>1. PICK status : Respond(c, status)
    BY <1>2 DEF ServePublic
  <2>2. SameRights(c) /\ conns'[c].pc = "ending"
    BY <1>0, <2>1, MoveStep
  <2> QED
    BY <1>2, <2>2, PassingStep DEF ServePublic, At, Unknown
<1>3. ASSUME ReadBody(c) PROVE ApiInv'
  <2>1. SameRights(c) /\ conns'[c].pc \in {"authorize", "ending"}
    BY <1>0, <1>3, MoveStep DEF ReadBody
  <2> QED
    BY <1>3, <2>1, PassingStep DEF ReadBody, At, Unknown
<1>4. ASSUME authorizeRequest(c) PROVE ApiInv'
  <2>1. UNCHANGED <<api, auditLog, files, artifacts>> /\ conns[c].pc = "authorize"
    BY <1>4 DEF authorizeRequest, At
  <2>2. CASE configuredApiTokens = {}
    <3>1. Admit(c, {"*"}, FALSE)
      BY <1>4, <2>2 DEF authorizeRequest
    <3>2. Admit(c, {"*"}, configuredApiTokens # {})
      BY <2>2, <3>1 DEF Admit, installAuditHook
    <3> QED
      BY <2>1, <3>2, AdmitStep
  <2>3. CASE configuredApiTokens # {} /\ Req(c).token \in configuredApiTokens
    <3>1. Admit(c, api.tokens[Req(c).token], TRUE)
      BY <1>4, <2>3 DEF authorizeRequest
    <3>2. Admit(c, api.tokens[Req(c).token], configuredApiTokens # {})
      BY <2>3, <3>1 DEF Admit, installAuditHook
    <3> QED
      BY <2>1, <3>2, AdmitStep
  <2>4. CASE configuredApiTokens # {} /\ Req(c).token \notin configuredApiTokens
    <3>1. Move(c, "used") \/ Respond(c, 401)
      BY <1>4, <2>4 DEF authorizeRequest
    <3>2. SameRights(c) /\ conns'[c].pc \in {"used", "ending"}
      BY <1>0, <3>1, MoveStep
    <3> QED
      BY <2>1, <2>4, <3>2, PassingStep DEF Unknown
  <2> QED
    BY <2>2, <2>3, <2>4
<1>5. ASSUME RecordUse(c) PROVE ApiInv'
  <2>1. UNCHANGED <<api, auditLog, files, artifacts>> /\ conns[c].pc = "used"
    BY <1>5 DEF RecordUse, At
  <2>2. configuredApiTokens # {}
    BY <2>1 DEF ApiInv, HookInv
  <2>3. Admit(c, api.keys[Req(c).token], TRUE)
    BY <1>5 DEF RecordUse
  <2>4. Admit(c, api.keys[Req(c).token], configuredApiTokens # {})
    BY <2>2, <2>3 DEF Admit, installAuditHook
  <2> QED
    BY <2>1, <2>4, AdmitStep
<1>6. ASSUME Handle(c) PROVE ApiInv'
  <2>1. PICK status : Respond(c, status)
    BY <1>6 DEF Handle
  <2>2. SameRights(c) /\ conns'[c].pc = "ending"
    BY <1>0, <2>1, MoveStep
  <2> QED
    BY <1>6, <2>2, PassingStep DEF Handle, At, Unknown
<1>7. ASSUME Upload(c) PROVE ApiInv'
  <2>1. \/ Respond(c, 400) \/ Respond(c, 500) \/ Respond(c, 200)
        \/ Move(c, IF api.store = "file" THEN "write" ELSE IF api.validator THEN "validate" ELSE "put")
    BY <1>7 DEF Upload
  <2>2. SameRights(c) /\ conns'[c].pc \in {"ending", "write", "validate", "put"}
    BY <1>0, <2>1, MoveStep
  <2>3. conns'[c].pc = "validate" => api.store # "file"
    BY <1>0, <2>1, MoveStep
  <2> QED
    BY <1>7, <2>2, <2>3, PassingStep DEF Upload, At, Unknown
<1>8. ASSUME WriteTemp(c) PROVE ApiInv'
  <2>1. SameRights(c) /\ conns'[c].pc = "rename"
    BY <1>0, <1>8 DEF WriteTemp, SameRights, ConnStep, ApiShape, ConnFields
  <2> QED
    BY <1>8, <2>1, PassingStep DEF WriteTemp, At, Unknown
<1>9. ASSUME Rename(c) PROVE ApiInv'
  <2>1. CASE Temp(c) \in temps
    <3>1. files' = files \union {Digest(c)} /\ Move(c, IF api.validator THEN "validate" ELSE "register")
      BY <1>9, <2>1 DEF Rename
    <3>2. SameRights(c) /\ conns'[c].pc \in {"validate", "register"}
      BY <1>0, <3>1, MoveStep
    <3> QED
      BY <1>9, <3>1, <3>2, PassingStep DEF Rename, At, Unknown
  <2>2. CASE Temp(c) \notin temps
    <3>1. UNCHANGED files /\ Respond(c, 400)
      BY <1>9, <2>2 DEF Rename
    <3>2. SameRights(c) /\ conns'[c].pc = "ending"
      BY <1>0, <3>1, MoveStep
    <3> QED
      BY <1>9, <3>1, <3>2, PassingStep DEF Rename, At, Unknown
  <2> QED
    BY <2>1, <2>2
<1>10. ASSUME putValidatedArtifact(c) PROVE ApiInv'
  <2>1. UNCHANGED <<api, auditLog, files, artifacts>> /\ conns[c].pc = "validate"
    BY <1>10 DEF putValidatedArtifact, At
  <2>2. SameRights(c) /\ conns'[c].pc \in {"register", "put", "unlink", "ending"}
    BY <1>0, <1>10, MoveStep DEF putValidatedArtifact, SameRights, ConnStep, ApiShape, ConnFields
  <2>3. ApiShape' /\ HookInv'
    BY <2>1, <2>2, HookKept DEF Unknown
  <2>4. ConnStep(c)
    BY <2>2 DEF SameRights
  <2>5. \A d : StoredDigest(d) => StoredDigest(d)'
    BY <2>1, <2>4, StoredGrows
  <2>6. conns'[c].pc = "register" => StoredDigest(Digest(c))'
    <3>1. conns'[c].pc = "register" => api.store = "file"
      BY <1>0, <1>10 DEF putValidatedArtifact, Move, Respond, ApiShape, ConnFields
    <3>2. api.store = "file" => StoredDigest(Digest(c))
      BY <2>1 DEF ApiInv, StoredInv
    <3>3. StoredDigest(Digest(c)) => \/ Digest(c) \in files'
                                     \/ \E x \in Clients : conns'[x].flaked /\ Digest(x)' = Digest(c)
      BY <2>5 DEF StoredDigest
    <3>4. Digest(c)' = Digest(c)
      BY <2>4 DEF ConnStep, Digest, Req
    <3> QED
      BY <3>1, <3>2, <3>3, <3>4 DEF StoredDigest
  <2>7. conns'[c].pc = "unlink" => conns'[c].flaked
    BY <1>0, <1>10 DEF putValidatedArtifact, Move, Respond, ApiShape, ConnFields
  <2>8. StoredInv'
    BY <2>1, <2>2, <2>4, <2>5, <2>6, <2>7, StoredKept
  <2> QED
    BY <2>3, <2>8 DEF ApiInv
<1>11. ASSUME Unlink(c) PROVE ApiInv'
  <2>1. /\ UNCHANGED <<api, auditLog, artifacts>> /\ conns[c].pc = "unlink"
        /\ files' = files \ {Digest(c)} /\ Respond(c, 400)
    BY <1>11 DEF Unlink, At
  <2>2. SameRights(c) /\ conns'[c].pc = "ending"
    BY <1>0, <2>1, MoveStep
  <2>3. ApiShape' /\ HookInv'
    BY <2>1, <2>2, HookKept DEF Unknown
  <2>4. ConnStep(c) /\ conns[c].flaked
    BY <2>1, <2>2 DEF SameRights, ApiInv, StoredInv
  <2>5. StoredInv'
    BY <2>1, <2>2, <2>4, StoredGrows, StoredKept
  <2> QED
    BY <2>3, <2>5 DEF ApiInv
<1>12. ASSUME PutObject(c) PROVE ApiInv'
  <2>1. \/ files' = files \union {Digest(c)} /\ Move(c, "register")
        \/ UNCHANGED files /\ Respond(c, 400)
    BY <1>12 DEF PutObject
  <2>2. /\ SameRights(c) /\ conns'[c].pc \in {"register", "ending"} /\ files \subseteq files'
        /\ conns'[c].pc = "register" => Digest(c) \in files'
    BY <1>0, <2>1, MoveStep
  <2> QED
    BY <1>12, <2>2, PassingStep DEF PutObject, At, Unknown
<1>13. ASSUME Register(c) PROVE ApiInv'
  <2>1. /\ UNCHANGED <<api, auditLog, files>> /\ conns[c].pc = "register"
        /\ Respond(c, 409) \/ Respond(c, 201)
        /\ artifacts' = artifacts \/ artifacts' = artifacts \union {<<Project(c), Digest(c)>>}
    BY <1>13 DEF Register, At
  <2>2. SameRights(c) /\ conns'[c].pc = "ending"
    BY <1>0, <2>1, MoveStep
  <2>3. ApiShape' /\ HookInv'
    BY <2>1, <2>2, HookKept DEF Unknown
  <2>4. ConnStep(c) /\ StoredDigest(Digest(c))
    BY <2>1, <2>2 DEF SameRights, ApiInv, StoredInv
  <2>5. \A a \in artifacts' : a \in artifacts \/ StoredDigest(a[2])
    BY <2>1, <2>4
  <2>6. StoredInv'
    BY <2>1, <2>2, <2>4, <2>5, StoredGrows, StoredKept
  <2> QED
    BY <2>3, <2>6 DEF ApiInv
<1>14. ASSUME End(c) PROVE ApiInv'
  <2>1. /\ UNCHANGED <<api, files, artifacts>> /\ conns[c].pc = "ending" /\ Move(c, "done")
        /\ \/ auditLog' = IF conns[c].hook THEN auditLog \union {AuditRecord(c)} ELSE auditLog
           \/ conns[c].gone /\ UNCHANGED auditLog
    BY <1>14 DEF End, At
  <2>2. SameRights(c) /\ conns'[c].pc = "done"
    BY <1>0, <2>1, MoveStep
  <2>3. ConnStep(c) /\ conns'[c].hook = conns[c].hook /\ conns'[c].scopes = conns[c].scopes
    BY <2>2 DEF SameRights
  <2>4. conns'[c].status = conns[c].status /\ conns'[c].gone = conns[c].gone
    BY <1>0, <2>1 DEF Move, ApiShape, ConnFields
  <2>5. \A d \in Clients : AuditRecord(d)' = AuditRecord(d)
    BY <2>3, <2>4 DEF ConnStep, AuditRecord, requiredScopeFor, Req, Is, On, bodyHasMode
  <2>6. auditLog \subseteq auditLog' /\ auditLog' \subseteq auditLog \union {x \in {AuditRecord(c)} : conns[c].hook}
    BY <2>1
  <2>7. ASSUME NEW d \in Clients
        PROVE /\ Unknown(d)' => conns'[d].scopes = {}
              /\ conns'[d].pc = "used" => configuredApiTokens' # {}
              /\ conns'[d].hook <=> /\ api'.sink
                                    /\ configuredApiTokens' # {}
                                    /\ conns'[d].scopes # {}
                                    /\ Req(d)'.method # "GET"
              /\ conns'[d].pc = "done" /\ conns'[d].hook /\ ~conns'[d].gone => AuditRecord(d)' \in auditLog'
    <3>1. CASE d = c
      <4>1. conns'[c].hook /\ ~conns'[c].gone => AuditRecord(c)' \in auditLog'
        BY <2>1, <2>3, <2>4, <2>5
      <4>2. Req(c)' = Req(c) /\ configuredApiTokens' = configuredApiTokens /\ api' = api
        BY <2>1, <2>3 DEF ConnStep, Req, configuredApiTokens
      <4> QED
        BY <2>2, <2>3, <3>1, <4>1, <4>2 DEF ApiInv, HookInv, Unknown
    <3>2. CASE d # c
      BY <2>1, <2>3, <2>5, <2>6, <3>2 DEF ApiInv, HookInv, ConnStep, Unknown, Req, configuredApiTokens
    <3> QED
      BY <3>1, <3>2
  <2>8. ASSUME NEW x \in auditLog'
        PROVE \E d \in Clients : x = AuditRecord(d)' /\ conns'[d].hook /\ conns'[d].pc = "done"
    <3>1. CASE x \in auditLog
      <4>1. PICK d \in Clients : x = AuditRecord(d) /\ conns[d].hook /\ conns[d].pc = "done"
        BY <3>1 DEF ApiInv, HookInv
      <4>2. d # c
        BY <2>1, <4>1
      <4> QED
        BY <2>3, <2>5, <4>1, <4>2 DEF ConnStep
    <3>2. CASE x \notin auditLog
      BY <2>2, <2>3, <2>5, <2>6, <2>8, <3>2
    <3> QED
      BY <3>1, <3>2
  <2>9. ApiShape'
    BY <1>0, <2>3 DEF ApiShape, ConnStep
  <2>10. StoredInv'
    BY <2>1, <2>2, <2>3, StoredGrows, StoredKept
  <2> QED
    BY <2>7, <2>8, <2>9, <2>10 DEF ApiInv, HookInv
<1>15. ASSUME Leave(c) PROVE ApiInv'
  <2>1. /\ UNCHANGED <<api, auditLog, files, artifacts>> /\ conns[c].pc # "done"
        /\ SameRights(c) /\ conns'[c].pc = conns[c].pc /\ conns'[c].flaked = conns[c].flaked
    BY <1>0, <1>15 DEF Leave, At, SameRights, ConnStep, ApiShape, ConnFields
  <2>2. ApiShape' /\ HookInv'
    BY <2>1, HookKept DEF Unknown, ApiInv, HookInv
  <2>3. ConnStep(c)
    BY <2>1 DEF SameRights
  <2>4. \A d : StoredDigest(d) => StoredDigest(d)'
    BY <2>1, <2>3, StoredGrows
  <2>5. Digest(c)' = Digest(c)
    BY <2>3 DEF ConnStep, Digest, Req
  <2>6. StoredDigest(Digest(c)) => StoredDigest(Digest(c))'
    <3>1. StoredDigest(Digest(c)) => \/ Digest(c) \in files'
                                     \/ \E x \in Clients : conns'[x].flaked /\ Digest(x)' = Digest(c)
      BY <2>4 DEF StoredDigest
    <3> QED
      BY <2>5, <3>1 DEF StoredDigest
  <2>7. StoredInv'
    BY <2>1, <2>3, <2>4, <2>6, StoredKept DEF ApiInv, StoredInv
  <2> QED
    BY <2>2, <2>7 DEF ApiInv
<1> QED
  BY <1>1, <1>2, <1>3, <1>4, <1>5, <1>6, <1>7, <1>8, <1>9, <1>10, <1>11, <1>12, <1>13, <1>14, <1>15 DEF ServeStep

\* The invariant of the API, for every set of clients, configuration and
\* requests: who is let in, what is audited and what is stored (app.ts).
THEOREM ApiInvariant == ApiSpec => []ApiInv
<1>1. ApiInit => ApiInv
  BY DEF ApiInit, ApiInv, ApiShape, ConnFields, HookInv, StoredInv, NewConn, NoRequest, Unknown, Req
<1>2. ApiInv /\ [ApiNext]_apiVars => ApiInv'
  <2> SUFFICES ASSUME ApiInv, [ApiNext]_apiVars PROVE ApiInv'
    OBVIOUS
  <2>1. CASE ApiNext
    BY <2>1, ServeKeeps DEF ApiNext
  <2>2. CASE UNCHANGED apiVars
    <3>1. UNCHANGED api /\ UNCHANGED conns /\ UNCHANGED auditLog /\ UNCHANGED files /\ UNCHANGED artifacts
      BY <2>2 DEF apiVars
    <3>2. \A c : AuditRecord(c)' = AuditRecord(c) /\ Req(c)' = Req(c) /\ Digest(c)' = Digest(c)
      BY <3>1 DEF AuditRecord, requiredScopeFor, Req, Digest, Is, On, bodyHasMode
    <3>3. HookInv'
      BY <3>1, <3>2 DEF ApiInv, HookInv, Unknown, configuredApiTokens
    <3>4. \A d : StoredDigest(d)' <=> StoredDigest(d)
      BY <3>1, <3>2 DEF StoredDigest
    <3>5. StoredInv'
      BY <3>1, <3>2, <3>4 DEF ApiInv, StoredInv
    <3> QED
      BY <3>1, <3>3, <3>5 DEF ApiInv, ApiShape
  <2> QED
    BY <2>1, <2>2
<1> QED
  BY <1>1, <1>2, PTL DEF ApiSpec

\* Once every response has ended the audit log is that of the requests that
\* tokens were let in with, whatever clients left (installAuditHook).
THEOREM AuditLogIsComplete == ApiSpec => []AuditIsComplete
<1>1. ApiInv => AuditIsComplete
  <2> SUFFICES ASSUME ApiInv, ApiDone PROVE AuditIsComplete
    BY DEF AuditIsComplete
  <2> DEFINE audited == {c \in Clients : /\ api.sink
                                         /\ configuredApiTokens # {}
                                         /\ conns[c].scopes # {}
                                         /\ Req(c).method # "GET"}
  <2>1. \A c \in Clients : conns[c].pc = "done" /\ (c \in audited <=> conns[c].hook)
    BY DEF ApiInv, HookInv, ApiDone, At
  <2>2. {AuditRecord(c) : c \in {x \in audited : ~conns[x].gone}} \subseteq auditLog
    BY <2>1 DEF ApiInv, HookInv
  <2>3. auditLog \subseteq {AuditRecord(c) : c \in audited}
    BY <2>1 DEF ApiInv, HookInv
  <2> QED
    BY <2>2, <2>3 DEF AuditIsComplete
<1> QED
  BY <1>1, ApiInvariant, PTL

\* Registered bytes are in the store, however uploads overlap, but for the
\* uploads of bytes the validator failed (uploadArtifact).
THEOREM RegisteredBytesAreStored == ApiSpec => []RegisteredIsStored
<1>1. ApiInv => RegisteredIsStored
  BY DEF ApiInv, StoredInv, StoredDigest, RegisteredIsStored
<1> QED
  BY <1>1, ApiInvariant, PTL

-----------------------------------------------------------------------------
(* The rights of the operations.  A request is looked up in a table of     *)
(* some hundred handlers and asked for a right that is computed from its   *)
(* method and path alone, so what is shown first is that the table and the *)
(* rule agree for every request (DispatchIsRightful): no request fits two  *)
(* handlers, and the operation of the one it fits needs the right the rule *)
(* asks for.  The invariant then says that whoever was let in has it, and  *)
(* that a key found revoked on arrival is never accepted later (TokenInv). *)

\* The group of handlers whose paths a path is like: no path is like those
\* of two groups.
Home(r) ==
  LET a == r.path[1]
      n == Len(r.path)
      z == r.path[n] IN
  IF a \in {"ops", "admin"} THEN 1
  ELSE IF a = "organizations" THEN 2
  ELSE IF a \in {"users", "api-keys", "beta", "usage"} THEN 3
  ELSE IF a = "custom-domains" THEN (IF n = 1 THEN 3 ELSE 5)
  ELSE IF a = "deploy-previews" THEN (IF n = 1 THEN 3 ELSE 4)
  ELSE IF a = "edge-workers" THEN (IF n = 2 THEN 3 ELSE 4)
  ELSE IF a = "projects" THEN
       (IF n = 1 THEN 3
        ELSE IF n # 3 THEN 6
        ELSE IF z \in {"settings", "audit-events"} THEN 1
        ELSE IF z \in {"custom-domains", "deploy-previews", "edge-worker-releases"} THEN 4
        ELSE IF z = "sqlite-databases" THEN 7
        ELSE IF z \in {"secrets", "kv-namespaces"} THEN 10
        ELSE IF z = "durable-object-namespaces" THEN 11
        ELSE IF z \in {"memberships", "api-keys"} THEN 6
        ELSE 8)
  ELSE IF a = "sqlite-databases" THEN 7
  ELSE IF a \in {"artifacts", "billing-invoices"} THEN 9
  ELSE IF a \in {"secrets", "kv-namespaces"} THEN 10
  ELSE IF a \in {"alarm-demo", "durable-object-namespaces"} THEN 11
  ELSE IF a \in {"deployments", "routes", "canary-decisions"} THEN 12
  ELSE IF a \in {"runtime-nodes", "autoscaling"} THEN 13
  ELSE 14

\* The operation of a handler needs the right that is asked of the request.
Rightful(h, r) == \A x : x.op = h.op /\ x.body = r.body => Needed(x) = requiredScopeFor(r)

\* A sequence of handlers that belong to the groups G: a request that fits
\* one of them fits no other, and is asked for what its operation needs.
Placed(s, r, G) ==
  /\ \E S : s \in Seq(S)
  /\ \A n \in 1..Len(s) : s[n].when => Home(r) \in G /\ Rightful(s[n], r)
  /\ \A m, n \in 1..Len(s) : s[m].when /\ s[n].when => m = n

\* The handlers of one part of the table and then those of another.
LEMMA JoinedGroups ==
  ASSUME NEW r, NEW G, NEW K, NEW s, NEW t, Placed(s, r, G), Placed(t, r, K), G \intersect K = {}
  PROVE Placed(s \o t, r, G \union K)
<1>1. PICK S : s \in Seq(S)
  BY DEF Placed
<1>2. PICK T : t \in Seq(T)
  BY DEF Placed
<1> DEFINE U == S \union T
<1>3. s \in Seq(U) /\ t \in Seq(U)
  BY <1>1, <1>2
<1> HIDE DEF U
<1>4. /\ s \o t \in Seq(U)
      /\ Len(s \o t) = Len(s) + Len(t)
      /\ Len(s) \in Nat /\ Len(t) \in Nat
      /\ \A n \in 1..(Len(s) + Len(t)) : (s \o t)[n] = IF n <= Len(s) THEN s[n] ELSE t[n - Len(s)]
  BY <1>3
<1>5. \A n \in 1..Len(s \o t) : n <= Len(s) \/ n - Len(s) \in 1..Len(t)
  BY <1>4
<1>6. \A n \in 1..Len(s \o t) : n <= Len(s) => n \in 1..Len(s)
  BY <1>4
<1>7. \A n \in 1..Len(s \o t) : (s \o t)[n].when => Home(r) \in G \union K /\ Rightful((s \o t)[n], r)
  BY <1>4, <1>5, <1>6 DEF Placed
<1>8. \A m, n \in 1..Len(s \o t) : (s \o t)[m].when /\ (s \o t)[n].when => m = n
  <2> SUFFICES ASSUME NEW m \in 1..Len(s \o t), NEW n \in 1..Len(s \o t), (s \o t)[m].when, (s \o t)[n].when PROVE m = n
    OBVIOUS
  <2>1. CASE m <= Len(s) /\ n <= Len(s)
    BY <2>1, <1>4, <1>6 DEF Placed
  <2>2. CASE ~(m <= Len(s)) /\ ~(n <= Len(s))
    <3>1. m - Len(s) = n - Len(s)
      BY <2>2, <1>4, <1>5 DEF Placed
    <3> QED BY <3>1, <1>4
  <2>3. CASE m <= Len(s) /\ ~(n <= Len(s))
    BY <2>3, <1>4, <1>5, <1>6 DEF Placed
  <2>4. CASE ~(m <= Len(s)) /\ n <= Len(s)
    BY <2>4, <1>4, <1>5, <1>6 DEF Placed
  <2> QED BY <2>1, <2>2, <2>3, <2>4
<1> QED
  BY <1>4, <1>7, <1>8 DEF Placed

\* The method of a request, the length of its path, the first segment and
\* the last one, unless the pattern leaves it open.
Shape(r, M, n, a, z) == r.method \in M /\ Len(r.path) = n /\ r.path[1] = a /\ z \in {":", r.path[n]}

\* A request that fits a pattern has its shape (the ...Match functions).
LEMMA Shapes ==
  ASSUME NEW r, NEW M, NEW a, NEW b, NEW c, NEW d, NEW e, a # ":"
  PROVE /\ Is(r, b, <<a>>) => Shape(r, {b}, 1, a, a)
        /\ Is(r, c, <<a, b>>) => Shape(r, {c}, 2, a, b)
        /\ Is(r, d, <<a, b, c>>) => Shape(r, {d}, 3, a, c)
        /\ Is(r, e, <<a, b, c, d>>) => Shape(r, {e}, 4, a, d)
        /\ On(r, M, <<a, b>>) => Shape(r, M, 2, a, b)
        /\ On(r, M, <<a, b, c>>) => Shape(r, M, 3, a, c)
        /\ On(r, M, <<a, b, c, d>>) => Shape(r, M, 4, a, d)
        /\ On(r, M, <<a, b, c, d, e>>) => Shape(r, M, 5, a, e)
  BY DEF Is, On, Shape

\* The requests whose right is "publish".
Publishing(r) ==
  \/ Is(r, "POST", <<"edge-workers", "releases">>) /\ bodyHasMode(r.body, "api")
  \/ On(r, {"DELETE"}, <<"edge-workers", "releases", ":">>)
  \/ Is(r, "POST", <<"edge-workers", "releases", "operations", "deliver">>)
  \/ Is(r, "POST", <<"snapshots", "routes", "publish">>)
  \/ Is(r, "PUT", <<"replication", "snapshots", "routes">>)

\* The right asked of a request is one of three (requiredScopeFor).
LEMMA ScopeOf ==
  ASSUME NEW r
  PROVE requiredScopeFor(r) = IF Publishing(r) THEN "publish" ELSE IF r.method = "GET" THEN "read" ELSE "write"
<1>1. Publishing(r) => r.method # "GET"
  BY DEF Publishing, Is, On
<1> QED
  BY <1>1 DEF Publishing, requiredScopeFor

\* A pattern of several methods, and the one the handler looks for.
LEMMA Narrowed ==
  ASSUME NEW r, NEW M, NEW n, NEW a, NEW z, NEW m
  PROVE Shape(r, M, n, a, z) /\ r.method = m => Shape(r, {m}, n, a, z)
  BY DEF Shape

\* The console and the forms of /admin (app.ts).
LEMMA ConsolePlaced == ASSUME NEW r PROVE Placed(ConsoleHandlers(r), r, {1})
<1> DEFINE s == ConsoleHandlers(r)
<1>1. Len(s) = 8 /\ s \in Seq({s[n] : n \in 1..8})
  BY DEF ConsoleHandlers
<1>2. /\ s[1].when => Shape(r, {"GET"}, 2, "ops", "config")
      /\ s[2].when => Shape(r, {"GET"}, 1, "admin", "admin")
      /\ s[3].when => Shape(r, {"GET"}, 3, "projects", "settings")
      /\ s[4].when => Shape(r, {"GET"}, 3, "projects", "audit-events")
      /\ s[5].when => Shape(r, {"POST"}, 3, "admin", "canary")
      /\ s[6].when => Shape(r, {"POST"}, 3, "admin", "rollback")
      /\ s[7].when => Shape(r, {"POST"}, 3, "admin", "status")
      /\ s[8].when => Shape(r, {"POST"}, 3, "admin", "gc")
  BY Shapes DEF ConsoleHandlers, H, projectSettingsMatch, projectCustomerAuditEventsMatch
<1>3. /\ s[1].op = "operationalConfig" /\ s[2].op = "renderAdminPage"
      /\ s[3].op = "renderProjectSettingsPage" /\ s[4].op = "listProjectCustomerAuditEvents"
      /\ s[5].op = "startRouteCanary" /\ s[6].op = "rollbackRoute" /\ s[7].op = "updateRuntimeNodeStatus"
      /\ s[8].op = "cleanupRuntimeNodes"
  BY DEF ConsoleHandlers, H
<1> HIDE DEF s
<1>4. \A n \in 1..8 : s[n].when => Home(r) = 1
  BY <1>2 DEF Home, Shape
<1>5. \A n \in 1..8 : s[n].when => Rightful(s[n], r)
  BY <1>2, <1>3, ScopeOf DEF Rightful, Needed, Reads, Publishes, Publishing, Shape, Is, On
<1>6. \A m, n \in 1..8 : s[m].when /\ s[n].when => m = n
  BY <1>2 DEF Shape
<1> QED
  BY <1>1, <1>4, <1>5, <1>6 DEF Placed, s

\* What is asked of an organization (app.ts).
LEMMA OrganizationPlaced == ASSUME NEW r PROVE Placed(OrganizationHandlers(r), r, {2})
<1> DEFINE s == OrganizationHandlers(r)
<1>1. Len(s) = 7 /\ s \in Seq({s[n] : n \in 1..7})
  BY DEF OrganizationHandlers
<1>2. /\ s[1].when => Shape(r, {"POST"}, 1, "organizations", "organizations")
      /\ s[2].when => Shape(r, {"POST"}, 3, "organizations", "production-quota-increases")
      /\ s[3].when => Shape(r, {"PUT"}, 3, "organizations", "billing")
      /\ s[4].when => Shape(r, {"GET"}, 3, "organizations", "billing-statement")
      /\ s[5].when => Shape(r, {"GET"}, 3, "organizations", "audit-events")
      /\ s[6].when => Shape(r, {"GET"}, 3, "organizations", "billing-invoices")
      /\ s[7].when => Shape(r, {"POST"}, 3, "organizations", "billing-invoices")
  BY Shapes DEF OrganizationHandlers, H, productionQuotaIncreaseMatch,
     organizationBillingProfileMatch, organizationBillingStatementMatch,
     organizationCustomerAuditEventsMatch, listOrganizationBillingInvoicesMatch,
     organizationBillingInvoicesMatch
<1>3. /\ s[1].op = "createOrganization" /\ s[2].op = "requestProductionQuotaIncrease"
      /\ s[3].op = "updateOrganizationBilling" /\ s[4].op = "getOrganizationBillingStatement"
      /\ s[5].op = "listOrganizationCustomerAuditEvents" /\ s[6].op = "listOrganizationBillingInvoices"
      /\ s[7].op = "issueOrganizationBillingInvoice"
  BY DEF OrganizationHandlers, H
<1> HIDE DEF s
<1>4. \A n \in 1..7 : s[n].when => Home(r) = 2
  BY <1>2 DEF Home, Shape
<1>5. \A n \in 1..7 : s[n].when => Rightful(s[n], r)
  BY <1>2, <1>3, ScopeOf DEF Rightful, Needed, Reads, Publishes, Publishing, Shape, Is, On
<1>6. \A m, n \in 1..7 : s[m].when /\ s[n].when => m = n
  BY <1>2 DEF Shape
<1> QED
  BY <1>1, <1>4, <1>5, <1>6 DEF Placed, s

\* What creates accounts, keys, domains, releases and projects (app.ts).
LEMMA AccountPlaced == ASSUME NEW r PROVE Placed(AccountHandlers(r), r, {3})
<1> DEFINE s == AccountHandlers(r)
<1>1. Len(s) = 11 /\ s \in Seq({s[n] : n \in 1..11})
  BY DEF AccountHandlers
<1>2. /\ s[1].when => Shape(r, {"POST"}, 1, "users", "users")
      /\ s[2].when => Shape(r, {"POST"}, 3, "users", "verify-email")
      /\ s[3].when => Shape(r, {"POST"}, 1, "api-keys", "api-keys")
      /\ s[4].when => Shape(r, {"POST"}, 3, "api-keys", "revoke")
      /\ s[5].when => Shape(r, {"POST"}, 3, "api-keys", "rotate")
      /\ s[6].when => Shape(r, {"POST"}, 2, "beta", "onboardings")
      /\ s[7].when => Shape(r, {"POST"}, 2, "usage", "events")
      /\ s[8].when => Shape(r, {"POST"}, 1, "custom-domains", "custom-domains")
      /\ s[9].when => Shape(r, {"POST"}, 1, "deploy-previews", "deploy-previews")
      /\ s[10].when => Shape(r, {"POST"}, 2, "edge-workers", "releases")
      /\ s[11].when => Shape(r, {"POST"}, 1, "projects", "projects")
  BY Shapes DEF AccountHandlers, H, userEmailVerificationMatch, apiKeyRevokeMatch, apiKeyRotateMatch
<1>3. /\ s[1].op = "createUser" /\ s[2].op = "verifyUserEmail" /\ s[3].op = "createApiKey"
      /\ s[4].op = "revokeApiKey" /\ s[5].op = "rotateApiKey" /\ s[6].op = "createBetaOnboarding"
      /\ s[7].op = "recordUsageEvent" /\ s[8].op = "createCustomDomain"
      /\ s[9].op = "createDeployPreview" /\ s[10].op = "createEdgeWorkerRelease"
      /\ s[11].op = "createProject"
  BY DEF AccountHandlers, H
<1>7. s[10].when => Is(r, "POST", <<"edge-workers", "releases">>)
  BY DEF AccountHandlers, H
<1> HIDE DEF s
<1>4. \A n \in 1..11 : s[n].when => Home(r) = 3
  BY <1>2 DEF Home, Shape
<1>5. \A n \in 1..11 : s[n].when => Rightful(s[n], r)
  BY <1>2, <1>3, <1>7, ScopeOf DEF Rightful, Needed, Reads, Publishes, Publishing, Shape, bodyHasMode, Is, On
<1>6. \A m, n \in 1..11 : s[m].when /\ s[n].when => m = n
  BY <1>2 DEF Shape
<1> QED
  BY <1>1, <1>4, <1>5, <1>6 DEF Placed, s

\* Previews and edge worker releases (app.ts).
LEMMA ReleasePlaced == ASSUME NEW r PROVE Placed(ReleaseHandlers(r), r, {4})
<1> DEFINE s == ReleaseHandlers(r)
<1>1. Len(s) = 8 /\ s \in Seq({s[n] : n \in 1..8})
  BY DEF ReleaseHandlers
<1>2. /\ s[1].when => Shape(r, {"GET"}, 3, "projects", "custom-domains")
      /\ s[2].when => Shape(r, {"GET"}, 3, "projects", "deploy-previews")
      /\ s[3].when => Shape(r, {"GET"}, 3, "projects", "edge-worker-releases")
      /\ s[4].when => Shape(r, {"GET"}, 3, "edge-workers", ":")
      /\ s[5].when => Shape(r, {"DELETE"}, 3, "edge-workers", ":")
      /\ s[6].when => Shape(r, {"GET"}, 4, "edge-workers", "operations")
      /\ s[7].when => Shape(r, {"POST"}, 4, "edge-workers", "deliver")
      /\ s[8].when => Shape(r, {"POST"}, 3, "deploy-previews", "rollback")
  BY Shapes, Narrowed DEF ReleaseHandlers, H, projectCustomDomainsMatch,
     projectDeployPreviewsMatch, projectEdgeWorkerReleasesMatch, edgeWorkerReleaseMatch,
     edgeWorkerReleaseOperationsMatch, deployPreviewRollbackMatch
<1>3. /\ s[1].op = "listProjectCustomDomains" /\ s[2].op = "listProjectDeployPreviews"
      /\ s[3].op = "listProjectEdgeWorkerReleases" /\ s[4].op = "getEdgeWorkerRelease"
      /\ s[5].op = "deleteEdgeWorkerRelease" /\ s[6].op = "listEdgeWorkerReleaseOperations"
      /\ s[7].op = "deliverPendingEdgeWorkerReleaseOperations" /\ s[8].op = "rollbackDeployPreview"
  BY DEF ReleaseHandlers, H
<1>7. /\ s[5].when => On(r, {"DELETE"}, <<"edge-workers", "releases", ":">>)
      /\ s[7].when => Is(r, "POST", <<"edge-workers", "releases", "operations", "deliver">>)
  BY DEF ReleaseHandlers, H, edgeWorkerReleaseMatch, On
<1> HIDE DEF s
<1>4. \A n \in 1..8 : s[n].when => Home(r) = 4
  <2>1. r.path[1] = "edge-workers" /\ Len(r.path) \in {3, 4} => Home(r) = 4
    BY DEF Home
  <2>2. r.path[1] = "deploy-previews" /\ Len(r.path) = 3 => Home(r) = 4
    BY DEF Home
  <2>3. /\ r.path[1] = "projects" /\ Len(r.path) = 3
        /\ r.path[3] \in {"custom-domains", "deploy-previews", "edge-worker-releases"}
        => Home(r) = 4
    BY DEF Home
  <2> QED
    BY <1>2, <2>1, <2>2, <2>3 DEF Shape
<1>5. \A n \in 1..8 : s[n].when => Rightful(s[n], r)
  BY <1>2, <1>3, <1>7, ScopeOf DEF Rightful, Needed, Reads, Publishes, Publishing, Shape, Is, On
<1>6. \A m, n \in 1..8 : s[m].when /\ s[n].when => m = n
  BY <1>2 DEF Shape
<1> QED
  BY <1>1, <1>4, <1>5, <1>6 DEF Placed, s

\* Custom domains (app.ts).
LEMMA DomainPlaced == ASSUME NEW r PROVE Placed(DomainHandlers(r), r, {5})
<1> DEFINE s == DomainHandlers(r)
<1>1. Len(s) = 4 /\ s \in Seq({s[n] : n \in 1..4})
  BY DEF DomainHandlers
<1>2. /\ s[1].when => Shape(r, {"DELETE"}, 2, "custom-domains", ":")
      /\ s[2].when => Shape(r, {"POST"}, 3, "custom-domains", "verify")
      /\ s[3].when => Shape(r, {"POST"}, 3, "custom-domains", "tls")
      /\ s[4].when => Shape(r, {"POST"}, 4, "custom-domains", "complete")
  BY Shapes DEF DomainHandlers, H, customDomainMatch, customDomainVerifyMatch,
     customDomainTlsMatch, customDomainTlsCompleteMatch
<1>3. /\ s[1].op = "deleteCustomDomain" /\ s[2].op = "verifyCustomDomainOwnership"
      /\ s[3].op = "requestCustomDomainTlsProvisioning"
      /\ s[4].op = "completeCustomDomainTlsProvisioning"
  BY DEF DomainHandlers, H
<1> HIDE DEF s
<1>4. \A n \in 1..4 : s[n].when => Home(r) = 5
  BY <1>2 DEF Home, Shape
<1>5. \A n \in 1..4 : s[n].when => Rightful(s[n], r)
  BY <1>2, <1>3, ScopeOf DEF Rightful, Needed, Reads, Publishes, Publishing, Shape, Is, On
<1>6. \A m, n \in 1..4 : s[m].when /\ s[n].when => m = n
  BY <1>2 DEF Shape
<1> QED
  BY <1>1, <1>4, <1>5, <1>6 DEF Placed, s

\* Memberships and the keys of a project (app.ts).
LEMMA MembershipPlaced == ASSUME NEW r PROVE Placed(MembershipHandlers(r), r, {6})
<1> DEFINE s == MembershipHandlers(r)
<1>1. Len(s) = 6 /\ s \in Seq({s[n] : n \in 1..6})
  BY DEF MembershipHandlers
<1>2. /\ s[1].when => Shape(r, {"POST"}, 5, "projects", "accept")
      /\ s[2].when => Shape(r, {"PATCH"}, 4, "projects", ":")
      /\ s[3].when => Shape(r, {"DELETE"}, 4, "projects", ":")
      /\ s[4].when => Shape(r, {"POST"}, 3, "projects", "memberships")
      /\ s[5].when => Shape(r, {"GET"}, 3, "projects", "memberships")
      /\ s[6].when => Shape(r, {"GET"}, 3, "projects", "api-keys")
  BY Shapes, Narrowed DEF MembershipHandlers, H, projectMembershipInviteAcceptanceMatch,
     projectMembershipMatch, projectMembershipsMatch, projectApiKeysMatch
<1>3. /\ s[1].op = "acceptProjectMembershipInvite" /\ s[2].op = "updateProjectMembershipRole"
      /\ s[3].op = "removeProjectMembership" /\ s[4].op = "addProjectMembership"
      /\ s[5].op = "listProjectMemberships" /\ s[6].op = "listProjectApiKeys"
  BY DEF MembershipHandlers, H
<1> HIDE DEF s
<1>4. \A n \in 1..6 : s[n].when => Home(r) = 6
  BY <1>2 DEF Home, Shape
<1>5. \A n \in 1..6 : s[n].when => Rightful(s[n], r)
  BY <1>2, <1>3, ScopeOf DEF Rightful, Needed, Reads, Publishes, Publishing, Shape, Is, On
<1>6. \A m, n \in 1..6 : s[m].when /\ s[n].when => m = n
  BY <1>2 DEF Shape
<1> QED
  BY <1>1, <1>4, <1>5, <1>6 DEF Placed, s

\* Volume databases (app.ts).
LEMMA SqlitePlaced == ASSUME NEW r PROVE Placed(SqliteHandlers(r), r, {7})
<1> DEFINE s == SqliteHandlers(r)
<1>1. Len(s) = 8 /\ s \in Seq({s[n] : n \in 1..8})
  BY DEF SqliteHandlers
<1>2. /\ s[1].when => Shape(r, {"POST"}, 3, "projects", "sqlite-databases")
      /\ s[2].when => Shape(r, {"GET"}, 3, "projects", "sqlite-databases")
      /\ s[3].when => Shape(r, {"POST"}, 4, "sqlite-databases", "gc")
      /\ s[4].when => Shape(r, {"POST"}, 3, "sqlite-databases", "backups")
      /\ s[5].when => Shape(r, {"GET"}, 3, "sqlite-databases", "backups")
      /\ s[6].when => Shape(r, {"POST"}, 3, "sqlite-databases", "restores")
      /\ s[7].when => Shape(r, {"GET"}, 2, "sqlite-databases", ":")
      /\ s[8].when => Shape(r, {"GET"}, 1, "sqlite-databases", "sqlite-databases")
  BY Shapes, Narrowed DEF SqliteHandlers, H, projectSqliteDatabasesMatch,
     sqliteDatabaseBackupsGcMatch, sqliteDatabaseBackupsMatch, sqliteDatabaseRestoresMatch,
     sqliteDatabaseMatch
<1>3. /\ s[1].op = "ensureDatabase" /\ s[2].op = "listDatabases" /\ s[3].op = "pruneBackups"
      /\ s[4].op = "exportDatabase" /\ s[5].op = "listBackups" /\ s[6].op = "restoreDatabase"
      /\ s[7].op = "getDatabase" /\ s[8].op = "listDatabases"
  BY DEF SqliteHandlers, H
<1> HIDE DEF s
<1>4. \A n \in 1..8 : s[n].when => Home(r) = 7
  BY <1>2 DEF Home, Shape
<1>5. \A n \in 1..8 : s[n].when => Rightful(s[n], r)
  BY <1>2, <1>3, ScopeOf DEF Rightful, Needed, Reads, Publishes, Publishing, Shape, Is, On
<1>6. \A m, n \in 1..8 : s[m].when /\ s[n].when => m = n
  BY <1>2 DEF Shape
<1> QED
  BY <1>1, <1>4, <1>5, <1>6 DEF Placed, s

\* Usage, quotas and statements of a project (app.ts).
LEMMA UsagePlaced == ASSUME NEW r PROVE Placed(UsageHandlers(r), r, {8})
<1> DEFINE s == UsageHandlers(r)
<1>1. Len(s) = 6 /\ s \in Seq({s[n] : n \in 1..6})
  BY DEF UsageHandlers
<1>2. /\ s[1].when => Shape(r, {"GET"}, 3, "projects", "quota-usage")
      /\ s[2].when => Shape(r, {"GET"}, 3, "projects", "usage")
      /\ s[3].when => Shape(r, {"GET"}, 3, "projects", "enforcement-report")
      /\ s[4].when => Shape(r, {"GET"}, 3, "projects", "usage-quota")
      /\ s[5].when => Shape(r, {"GET"}, 3, "projects", "billing-statement")
      /\ s[6].when => Shape(r, {"GET"}, 3, "projects", "billing-budget")
  BY Shapes DEF UsageHandlers, H, projectQuotaUsageMatch, projectUsageMatch,
     projectEnforcementReportMatch, projectUsageQuotaReportMatch, projectBillingStatementMatch,
     projectBillingBudgetMatch
<1>3. /\ s[1].op = "getProjectUsage" /\ s[2].op = "getProjectUsageSummary"
      /\ s[3].op = "getProjectEnforcementReport" /\ s[4].op = "getProjectUsageQuotaReport"
      /\ s[5].op = "getProjectBillingStatement" /\ s[6].op = "getProjectBillingBudgetReport"
  BY DEF UsageHandlers, H
<1> HIDE DEF s
<1>4. \A n \in 1..6 : s[n].when => Home(r) = 8
  BY <1>2 DEF Home, Shape
<1>5. \A n \in 1..6 : s[n].when => Rightful(s[n], r)
  BY <1>2, <1>3, ScopeOf DEF Rightful, Needed, Reads, Publishes, Publishing, Shape, Is, On
<1>6. \A m, n \in 1..6 : s[m].when /\ s[n].when => m = n
  BY <1>2 DEF Shape
<1> QED
  BY <1>1, <1>4, <1>5, <1>6 DEF Placed, s

\* Artifacts and invoices (app.ts).
LEMMA InvoicePlaced == ASSUME NEW r PROVE Placed(InvoiceHandlers(r), r, {9})
<1> DEFINE s == InvoiceHandlers(r)
<1>1. Len(s) = 7 /\ s \in Seq({s[n] : n \in 1..7})
  BY DEF InvoiceHandlers
<1>2. /\ s[1].when => Shape(r, {"POST"}, 1, "artifacts", "artifacts")
      /\ s[2].when => Shape(r, {"GET"}, 3, "billing-invoices", "retention-policy")
      /\ s[3].when => Shape(r, {"PUT"}, 3, "billing-invoices", "retention-policy")
      /\ s[4].when => Shape(r, {"POST"}, 3, "billing-invoices", "prune")
      /\ s[5].when => Shape(r, {"GET"}, 2, "billing-invoices", ":")
      /\ s[6].when => Shape(r, {"GET"}, 3, "billing-invoices", "export")
      /\ s[7].when => Shape(r, {"POST"}, 2, "artifacts", "local")
  BY Shapes, Narrowed DEF InvoiceHandlers, H, billingInvoiceRetentionPolicyMatch,
     billingInvoiceMatch, billingInvoiceExportMatch
<1>3. /\ s[1].op = "createArtifact" /\ s[2].op = "getBillingInvoiceRetentionPolicy"
      /\ s[3].op = "setBillingInvoiceRetentionPolicy" /\ s[4].op = "pruneBillingInvoices"
      /\ s[5].op = "getBillingInvoice" /\ s[6].op = "exportBillingInvoice" /\ s[7].op = "uploadArtifact"
  BY DEF InvoiceHandlers, H
<1> HIDE DEF s
<1>4. \A n \in 1..7 : s[n].when => Home(r) = 9
  BY <1>2 DEF Home, Shape
<1>5. \A n \in 1..7 : s[n].when => Rightful(s[n], r)
  BY <1>2, <1>3, ScopeOf DEF Rightful, Needed, Reads, Publishes, Publishing, Shape, Is, On
<1>6. \A m, n \in 1..7 : s[m].when /\ s[n].when => m = n
  BY <1>2 DEF Shape
<1> QED
  BY <1>1, <1>4, <1>5, <1>6 DEF Placed, s

\* Secrets and key-value namespaces (app.ts).
LEMMA SecretPlaced == ASSUME NEW r PROVE Placed(SecretHandlers(r), r, {10})
<1> DEFINE s == SecretHandlers(r)
<1>1. Len(s) = 9 /\ s \in Seq({s[n] : n \in 1..9})
  BY DEF SecretHandlers
<1>2. /\ s[1].when => Shape(r, {"POST"}, 1, "secrets", "secrets")
      /\ s[2].when => Shape(r, {"GET"}, 3, "projects", "secrets")
      /\ s[3].when => Shape(r, {"GET"}, 2, "secrets", ":")
      /\ s[4].when => Shape(r, {"PUT"}, 2, "secrets", ":")
      /\ s[5].when => Shape(r, {"DELETE"}, 2, "secrets", ":")
      /\ s[6].when => Shape(r, {"POST"}, 1, "kv-namespaces", "kv-namespaces")
      /\ s[7].when => Shape(r, {"GET"}, 3, "projects", "kv-namespaces")
      /\ s[8].when => Shape(r, {"GET"}, 2, "kv-namespaces", ":")
      /\ s[9].when => Shape(r, {"DELETE"}, 2, "kv-namespaces", ":")
  BY Shapes, Narrowed DEF SecretHandlers, H, projectSecretsMatch, secretMatch,
     projectKvNamespacesMatch, kvNamespaceMatch
<1>3. /\ s[1].op = "createSecret" /\ s[2].op = "listProjectSecrets" /\ s[3].op = "getSecret"
      /\ s[4].op = "updateSecretValue" /\ s[5].op = "deleteSecret" /\ s[6].op = "createKvNamespace"
      /\ s[7].op = "listProjectKvNamespaces" /\ s[8].op = "getKvNamespace"
      /\ s[9].op = "deleteKvNamespace"
  BY DEF SecretHandlers, H
<1> HIDE DEF s
<1>4. \A n \in 1..9 : s[n].when => Home(r) = 10
  BY <1>2 DEF Home, Shape
<1>5. \A n \in 1..9 : s[n].when => Rightful(s[n], r)
  BY <1>2, <1>3, ScopeOf DEF Rightful, Needed, Reads, Publishes, Publishing, Shape, Is, On
<1>6. \A m, n \in 1..9 : s[m].when /\ s[n].when => m = n
  BY <1>2 DEF Shape
<1> QED
  BY <1>1, <1>4, <1>5, <1>6 DEF Placed, s

\* Alarms and durable object namespaces (app.ts).
LEMMA ObjectPlaced == ASSUME NEW r PROVE Placed(ObjectHandlers(r), r, {11})
<1> DEFINE s == ObjectHandlers(r)
<1>1. Len(s) = 6 /\ s \in Seq({s[n] : n \in 1..6})
  BY DEF ObjectHandlers
<1>2. /\ s[1].when => Shape(r, {"POST"}, 2, "alarm-demo", "schedules")
      /\ s[2].when => Shape(r, {"GET"}, 3, "alarm-demo", ":")
      /\ s[3].when => Shape(r, {"POST"}, 1, "durable-object-namespaces", "durable-object-namespaces")
      /\ s[4].when => Shape(r, {"GET"}, 3, "projects", "durable-object-namespaces")
      /\ s[5].when => Shape(r, {"GET"}, 2, "durable-object-namespaces", ":")
      /\ s[6].when => Shape(r, {"DELETE"}, 2, "durable-object-namespaces", ":")
  BY Shapes, Narrowed DEF ObjectHandlers, H, alarmDemoObjectMatch,
     projectDurableObjectNamespacesMatch, durableObjectNamespaceMatch
<1>3. /\ s[1].op = "scheduleAlarmDemo" /\ s[2].op = "readAlarmDemoStatus"
      /\ s[3].op = "createDurableObjectNamespace" /\ s[4].op = "listProjectDurableObjectNamespaces"
      /\ s[5].op = "getDurableObjectNamespace" /\ s[6].op = "deleteDurableObjectNamespace"
  BY DEF ObjectHandlers, H
<1> HIDE DEF s
<1>4. \A n \in 1..6 : s[n].when => Home(r) = 11
  BY <1>2 DEF Home, Shape
<1>5. \A n \in 1..6 : s[n].when => Rightful(s[n], r)
  BY <1>2, <1>3, ScopeOf DEF Rightful, Needed, Reads, Publishes, Publishing, Shape, Is, On
<1>6. \A m, n \in 1..6 : s[m].when /\ s[n].when => m = n
  BY <1>2 DEF Shape
<1> QED
  BY <1>1, <1>4, <1>5, <1>6 DEF Placed, s

\* Deployments and routes (app.ts).
LEMMA DeploymentPlaced == ASSUME NEW r PROVE Placed(DeploymentHandlers(r), r, {12})
<1> DEFINE s == DeploymentHandlers(r)
<1>1. Len(s) = 6 /\ s \in Seq({s[n] : n \in 1..6})
  BY DEF DeploymentHandlers
<1>2. /\ s[1].when => Shape(r, {"POST"}, 1, "deployments", "deployments")
      /\ s[2].when => Shape(r, {"PUT"}, 1, "routes", "routes")
      /\ s[3].when => Shape(r, {"POST"}, 2, "routes", "canary")
      /\ s[4].when => Shape(r, {"POST"}, 3, "routes", "analyze")
      /\ s[5].when => Shape(r, {"POST"}, 2, "routes", "rollback")
      /\ s[6].when => Shape(r, {"GET"}, 1, "canary-decisions", "canary-decisions")
  BY Shapes DEF DeploymentHandlers, H
<1>3. /\ s[1].op = "createDeployment" /\ s[2].op = "pointRoute" /\ s[3].op = "startRouteCanary"
      /\ s[4].op = "analyzeRouteCanary" /\ s[5].op = "rollbackRoute" /\ s[6].op = "listCanaryDecisions"
  BY DEF DeploymentHandlers, H
<1> HIDE DEF s
<1>4. \A n \in 1..6 : s[n].when => Home(r) = 12
  BY <1>2 DEF Home, Shape
<1>5. \A n \in 1..6 : s[n].when => Rightful(s[n], r)
  BY <1>2, <1>3, ScopeOf DEF Rightful, Needed, Reads, Publishes, Publishing, Shape, Is, On
<1>6. \A m, n \in 1..6 : s[m].when /\ s[n].when => m = n
  BY <1>2 DEF Shape
<1> QED
  BY <1>1, <1>4, <1>5, <1>6 DEF Placed, s

\* Runtime nodes (app.ts).
LEMMA NodePlaced == ASSUME NEW r PROVE Placed(NodeHandlers(r), r, {13})
<1> DEFINE s == NodeHandlers(r)
<1>1. Len(s) = 7 /\ s \in Seq({s[n] : n \in 1..7})
  BY DEF NodeHandlers
<1>2. /\ s[1].when => Shape(r, {"POST"}, 1, "runtime-nodes", "runtime-nodes")
      /\ s[2].when => Shape(r, {"POST"}, 3, "runtime-nodes", "heartbeat")
      /\ s[3].when => Shape(r, {"PATCH"}, 3, "runtime-nodes", "status")
      /\ s[4].when => Shape(r, {"POST"}, 2, "runtime-nodes", "gc")
      /\ s[5].when => Shape(r, {"GET"}, 1, "runtime-nodes", "runtime-nodes")
      /\ s[6].when => Shape(r, {"GET"}, 2, "autoscaling", "signals")
      /\ s[7].when => Shape(r, {"GET"}, 3, "runtime-nodes", "logs")
  BY Shapes DEF NodeHandlers, H, runtimeNodeHeartbeatMatch, runtimeNodeStatusMatch,
     runtimeNodeLogsMatch
<1>3. /\ s[1].op = "registerRuntimeNode" /\ s[2].op = "recordRuntimeNodeHeartbeat"
      /\ s[3].op = "updateRuntimeNodeStatus" /\ s[4].op = "cleanupRuntimeNodes"
      /\ s[5].op = "listRuntimeNodes" /\ s[6].op = "runtimeSaturationSignals"
      /\ s[7].op = "readRuntimeNodeLogs"
  BY DEF NodeHandlers, H
<1> HIDE DEF s
<1>4. \A n \in 1..7 : s[n].when => Home(r) = 13
  BY <1>2 DEF Home, Shape
<1>5. \A n \in 1..7 : s[n].when => Rightful(s[n], r)
  BY <1>2, <1>3, ScopeOf DEF Rightful, Needed, Reads, Publishes, Publishing, Shape, Is, On
<1>6. \A m, n \in 1..7 : s[m].when /\ s[n].when => m = n
  BY <1>2 DEF Shape
<1> QED
  BY <1>1, <1>4, <1>5, <1>6 DEF Placed, s

\* Route snapshots (app.ts).
LEMMA SnapshotPlaced == ASSUME NEW r PROVE Placed(SnapshotHandlers(r), r, {14})
<1> DEFINE s == SnapshotHandlers(r)
<1>1. Len(s) = 5 /\ s \in Seq({s[n] : n \in 1..5})
  BY DEF SnapshotHandlers
<1>2. /\ s[1].when => Shape(r, {"GET"}, 2, "snapshots", "routes")
      /\ s[2].when => Shape(r, {"POST"}, 3, "snapshots", "publish")
      /\ s[3].when => Shape(r, {"GET"}, 3, "snapshots", "publishes")
      /\ s[4].when => Shape(r, {"PUT"}, 3, "replication", "routes")
      /\ s[5].when => Shape(r, {"GET"}, 3, "replication", "routes")
  BY Shapes DEF SnapshotHandlers, H
<1>3. /\ s[1].op = "createRouteSnapshot" /\ s[2].op = "publishCurrentRouteSnapshot"
      /\ s[3].op = "listRouteSnapshotPublications" /\ s[4].op = "applyReplicatedRouteSnapshot"
      /\ s[5].op = "readReplicatedRouteSnapshot"
  BY DEF SnapshotHandlers, H
<1>7. /\ s[2].when => Is(r, "POST", <<"snapshots", "routes", "publish">>)
      /\ s[4].when => Is(r, "PUT", <<"replication", "snapshots", "routes">>)
  BY DEF SnapshotHandlers, H
<1> HIDE DEF s
<1>4. \A n \in 1..5 : s[n].when => Home(r) = 14
  BY <1>2 DEF Home, Shape
<1>5. \A n \in 1..5 : s[n].when => Rightful(s[n], r)
  BY <1>2, <1>3, <1>7, ScopeOf DEF Rightful, Needed, Reads, Publishes, Publishing, Shape, Is, On
<1>6. \A m, n \in 1..5 : s[m].when /\ s[n].when => m = n
  BY <1>2 DEF Shape
<1> QED
  BY <1>1, <1>4, <1>5, <1>6 DEF Placed, s

\* The next group of handlers, of a number of its own.
LEMMA JoinedNext ==
  ASSUME NEW r, NEW g \in Nat, NEW k \in Nat, k = g + 1, NEW s, NEW t, Placed(s, r, 1..g), Placed(t, r, {k})
  PROVE Placed(s \o t, r, 1..k)
<1>1. (1..g) \intersect {k} = {} /\ (1..g) \union {k} = 1..k
  OBVIOUS
<1>2. Placed(s \o t, r, (1..g) \union {k})
  BY ONLY <1>1, JoinedGroups, Placed(s, r, 1..g), Placed(t, r, {k})
<1> QED
  BY <1>1, <1>2

\* The whole table (app.ts).
LEMMA HandlersPlaced == ASSUME NEW r PROVE Placed(Handlers(r), r, 1..14)
<1> DEFINE s1 == ConsoleHandlers(r)
           s2 == s1 \o OrganizationHandlers(r)
           s3 == s2 \o AccountHandlers(r)
           s4 == s3 \o ReleaseHandlers(r)
           s5 == s4 \o DomainHandlers(r)
           s6 == s5 \o MembershipHandlers(r)
           s7 == s6 \o SqliteHandlers(r)
           s8 == s7 \o UsageHandlers(r)
           s9 == s8 \o InvoiceHandlers(r)
           s10 == s9 \o SecretHandlers(r)
           s11 == s10 \o ObjectHandlers(r)
           s12 == s11 \o DeploymentHandlers(r)
           s13 == s12 \o NodeHandlers(r)
           s14 == s13 \o SnapshotHandlers(r)
<1>1. Placed(s1, r, 1..1)
  <2>1. 1..1 = {1}
    OBVIOUS
  <2> QED
    BY <2>1, ConsolePlaced
<1>2. Placed(s2, r, 1..2)
  <2>1. Placed(OrganizationHandlers(r), r, {2}) /\ 2 = 1 + 1
    BY OrganizationPlaced
  <2>2. s2 = s1 \o OrganizationHandlers(r)
    OBVIOUS
  <2> HIDE DEF s1, s2
  <2> QED
    BY ONLY <1>1, <2>1, <2>2, JoinedNext
<1>3. Placed(s3, r, 1..3)
  <2>1. Placed(AccountHandlers(r), r, {3}) /\ 3 = 2 + 1
    BY AccountPlaced
  <2>2. s3 = s2 \o AccountHandlers(r)
    OBVIOUS
  <2> HIDE DEF s2, s3
  <2> QED
    BY ONLY <1>2, <2>1, <2>2, JoinedNext
<1>4. Placed(s4, r, 1..4)
  <2>1. Placed(ReleaseHandlers(r), r, {4}) /\ 4 = 3 + 1
    BY ReleasePlaced
  <2>2. s4 = s3 \o ReleaseHandlers(r)
    OBVIOUS
  <2> HIDE DEF s3, s4
  <2> QED
    BY ONLY <1>3, <2>1, <2>2, JoinedNext
<1>5. Placed(s5, r, 1..5)
  <2>1. Placed(DomainHandlers(r), r, {5}) /\ 5 = 4 + 1
    BY DomainPlaced
  <2>2. s5 = s4 \o DomainHandlers(r)
    OBVIOUS
  <2> HIDE DEF s4, s5
  <2> QED
    BY ONLY <1>4, <2>1, <2>2, JoinedNext
<1>6. Placed(s6, r, 1..6)
  <2>1. Placed(MembershipHandlers(r), r, {6}) /\ 6 = 5 + 1
    BY MembershipPlaced
  <2>2. s6 = s5 \o MembershipHandlers(r)
    OBVIOUS
  <2> HIDE DEF s5, s6
  <2> QED
    BY ONLY <1>5, <2>1, <2>2, JoinedNext
<1>7. Placed(s7, r, 1..7)
  <2>1. Placed(SqliteHandlers(r), r, {7}) /\ 7 = 6 + 1
    BY SqlitePlaced
  <2>2. s7 = s6 \o SqliteHandlers(r)
    OBVIOUS
  <2> HIDE DEF s6, s7
  <2> QED
    BY ONLY <1>6, <2>1, <2>2, JoinedNext
<1>8. Placed(s8, r, 1..8)
  <2>1. Placed(UsageHandlers(r), r, {8}) /\ 8 = 7 + 1
    BY UsagePlaced
  <2>2. s8 = s7 \o UsageHandlers(r)
    OBVIOUS
  <2> HIDE DEF s7, s8
  <2> QED
    BY ONLY <1>7, <2>1, <2>2, JoinedNext
<1>9. Placed(s9, r, 1..9)
  <2>1. Placed(InvoiceHandlers(r), r, {9}) /\ 9 = 8 + 1
    BY InvoicePlaced
  <2>2. s9 = s8 \o InvoiceHandlers(r)
    OBVIOUS
  <2> HIDE DEF s8, s9
  <2> QED
    BY ONLY <1>8, <2>1, <2>2, JoinedNext
<1>10. Placed(s10, r, 1..10)
  <2>1. Placed(SecretHandlers(r), r, {10}) /\ 10 = 9 + 1
    BY SecretPlaced
  <2>2. s10 = s9 \o SecretHandlers(r)
    OBVIOUS
  <2> HIDE DEF s9, s10
  <2> QED
    BY ONLY <1>9, <2>1, <2>2, JoinedNext
<1>11. Placed(s11, r, 1..11)
  <2>1. Placed(ObjectHandlers(r), r, {11}) /\ 11 = 10 + 1
    BY ObjectPlaced
  <2>2. s11 = s10 \o ObjectHandlers(r)
    OBVIOUS
  <2> HIDE DEF s10, s11
  <2> QED
    BY ONLY <1>10, <2>1, <2>2, JoinedNext
<1>12. Placed(s12, r, 1..12)
  <2>1. Placed(DeploymentHandlers(r), r, {12}) /\ 12 = 11 + 1
    BY DeploymentPlaced
  <2>2. s12 = s11 \o DeploymentHandlers(r)
    OBVIOUS
  <2> HIDE DEF s11, s12
  <2> QED
    BY ONLY <1>11, <2>1, <2>2, JoinedNext
<1>13. Placed(s13, r, 1..13)
  <2>1. Placed(NodeHandlers(r), r, {13}) /\ 13 = 12 + 1
    BY NodePlaced
  <2>2. s13 = s12 \o NodeHandlers(r)
    OBVIOUS
  <2> HIDE DEF s12, s13
  <2> QED
    BY ONLY <1>12, <2>1, <2>2, JoinedNext
<1>14. Placed(s14, r, 1..14)
  <2>1. Placed(SnapshotHandlers(r), r, {14}) /\ 14 = 13 + 1
    BY SnapshotPlaced
  <2>2. s14 = s13 \o SnapshotHandlers(r)
    OBVIOUS
  <2> HIDE DEF s13, s14
  <2> QED
    BY ONLY <1>13, <2>1, <2>2, JoinedNext
<1> QED
  BY <1>14 DEF Handlers

\* A request fits one handler at most, and the right asked of it is the one
\* the operation of that handler needs (requiredScopeFor).
LEMMA DispatchIsRightful ==
  ASSUME NEW r
  PROVE /\ \A m, n \in Fits(r) : m = n
        /\ Dispatch(r).op # "none" => Rightful(Dispatch(r), r)
<1> DEFINE s == Handlers(r)
<1>1. Placed(s, r, 1..14)
  BY HandlersPlaced
<1>2. PICK S : s \in Seq(S)
  BY <1>1 DEF Placed
<1> HIDE DEF s
<1>3. DOMAIN s = 1..Len(s)
  BY <1>2
<1>4. Fits(r) = {n \in DOMAIN s : s[n].when}
  BY DEF Fits, s
<1>5. \A m, n \in Fits(r) : m = n
  BY <1>1, <1>3, <1>4 DEF Placed
<1>6. ASSUME Dispatch(r).op # "none" PROVE Rightful(Dispatch(r), r)
  <2>1. CASE Fits(r) = {}
    BY <1>6, <2>1 DEF Dispatch, H
  <2>2. CASE Fits(r) # {}
    <3> DEFINE first == CHOOSE n \in Fits(r) : \A m \in Fits(r) : n <= m
    <3>1. PICK n : n \in Fits(r)
      BY <2>2
    <3>2. n \in Fits(r) /\ \A m \in Fits(r) : n <= m
      BY <1>2, <1>3, <1>4, <1>5, <3>1
    <3>3. first \in Fits(r)
      BY <3>2
    <3> HIDE DEF first
    <3>4. s[first].when /\ first \in 1..Len(s)
      BY <1>3, <1>4, <3>3
    <3>5. Dispatch(r) = s[first]
      BY <2>2 DEF Dispatch, first, s
    <3> QED
      BY <1>1, <3>4, <3>5 DEF Placed
  <2> QED
    BY <2>1, <2>2
<1> QED
  BY <1>5, <1>6

-----------------------------------------------------------------------------
\* An operation that ran with the right it needs, and not on a dead key.
Guarded(x) == tokenAllows(x.scopes, Needed(x)) /\ (x.stale => configuredApiTokens = {})

\* Who was let in has the right asked for; a key that was revoked when the
\* request arrived lets nobody in.
TokenInv ==
  /\ \E w \in ApiWorkloads : api = w.config
  /\ revoked \subseteq DOMAIN api.keys
  /\ \A c \in Clients :
       /\ conns[c].pc = "dispatch" => tokenAllows(conns[c].scopes, requiredScopeFor(Req(c)))
       /\ conns[c].stale => Req(c).token \in revoked
       /\ conns[c].stale /\ conns[c].pc \in {"used", "dispatch"} => configuredApiTokens = {}
  /\ \A x \in ran : Guarded(x)

\* A step of one request that lets in, and runs, only what may be.
LEMMA TokenStep ==
  ASSUME ApiShape, TokenInv, NEW c \in Clients, ConnStep(c), UNCHANGED api,
         revoked \subseteq revoked', revoked' \subseteq DOMAIN api.keys,
         conns'[c].stale => conns[c].stale \/ Req(c).token \in revoked,
         conns'[c].pc = "dispatch" => tokenAllows(conns'[c].scopes, requiredScopeFor(Req(c))),
         conns'[c].stale /\ conns'[c].pc \in {"used", "dispatch"} => configuredApiTokens = {},
         \A x \in ran' : x \in ran \/ Guarded(x)
  PROVE TokenInv'
<1>1. \A d \in Clients : Req(d)' = Req(d) /\ requiredScopeFor(Req(d))' = requiredScopeFor(Req(d))
  <2>1. \A d \in Clients : Req(d)' = Req(d)
    BY DEF ConnStep, Req
  <2> QED
    BY <2>1 DEF requiredScopeFor, Is, On, bodyHasMode
<1>2. configuredApiTokens' = configuredApiTokens
  BY DEF configuredApiTokens
<1>3. \A x : Guarded(x)' <=> Guarded(x)
  BY <1>2 DEF Guarded, tokenAllows, Needed, Publishes, Reads
<1>4. ASSUME NEW d \in Clients
      PROVE /\ conns'[d].pc = "dispatch" => tokenAllows(conns'[d].scopes, requiredScopeFor(Req(d)))
            /\ conns'[d].stale => Req(d).token \in revoked'
            /\ conns'[d].stale /\ conns'[d].pc \in {"used", "dispatch"} => configuredApiTokens = {}
  <2>1. CASE d = c
    BY <2>1 DEF TokenInv
  <2>2. CASE d # c
    <3>1. conns'[d] = conns[d]
      BY <2>2 DEF ConnStep
    <3> QED
      BY <3>1 DEF TokenInv
  <2> QED
    BY <2>1, <2>2
<1>5. \A d \in Clients :
        /\ conns'[d].pc = "dispatch" => tokenAllows(conns'[d].scopes, requiredScopeFor(Req(d))')
        /\ conns'[d].stale => Req(d)'.token \in revoked'
        /\ conns'[d].stale /\ conns'[d].pc \in {"used", "dispatch"} => configuredApiTokens' = {}
  BY <1>1, <1>2, <1>4
<1>6. \A x \in ran' : Guarded(x)'
  BY <1>3 DEF TokenInv
<1> QED
  BY <1>5, <1>6 DEF TokenInv, tokenAllows

\* A step of one request after it was let in, or on the way out, that runs
\* nothing.
LEMMA QuietTokens ==
  ASSUME ApiShape, TokenInv, NEW c \in Clients, ConnStep(c), UNCHANGED <<api, revoked, ran>>,
         conns'[c].stale = conns[c].stale,
         conns'[c].pc \notin {"used", "dispatch"}
  PROVE TokenInv'
  BY TokenStep DEF TokenInv

\* An assignment of pc and status leaves the key of the request as it was.
LEMMA MoveTokens ==
  ASSUME ApiShape, NEW c \in Clients, NEW place, NEW status, Move(c, place) \/ Respond(c, status)
  PROVE /\ ConnStep(c)
        /\ conns'[c].stale = conns[c].stale
        /\ conns'[c].scopes = conns[c].scopes
        /\ Move(c, place) => conns'[c].pc = place
        /\ Respond(c, status) => conns'[c].pc = "ending"
  BY DEF ApiShape, ConnFields, ConnStep, Move, Respond

\* A request is let in with the scopes of its token, if they are enough.
LEMMA AdmitTokens ==
  ASSUME ApiShape, TokenInv, NEW c \in Clients, NEW scopes, NEW byToken \in BOOLEAN, Admit(c, scopes, byToken),
         conns[c].stale => configuredApiTokens = {}, UNCHANGED <<api, revoked, ran>>
  PROVE TokenInv'
<1>1. CASE tokenAllows(scopes, requiredScopeFor(Req(c)))
  <2>1. conns' = [conns EXCEPT ![c].pc = "dispatch", ![c].scopes = scopes,
                               ![c].hook = installAuditHook(c, byToken)]
    BY <1>1 DEF Admit
  <2>2. /\ ConnStep(c)
        /\ conns'[c].stale = conns[c].stale
        /\ conns'[c].scopes = scopes
    BY <2>1 DEF ApiShape, ConnFields, ConnStep
  <2> QED
    BY <1>1, <2>2, TokenStep DEF TokenInv
<1>2. CASE ~tokenAllows(scopes, requiredScopeFor(Req(c)))
  <2>1. Respond(c, 403)
    BY <1>2 DEF Admit
  <2> QED
    BY <2>1, MoveTokens, QuietTokens
<1> QED
  BY <1>1, <1>2

\* What an operation that ran leaves behind it.
LEMMA RunTokens ==
  ASSUME ApiShape, TokenInv, NEW c \in Clients, NEW op, NEW scopes, Run(c, op, scopes),
         NEW scope, tokenAllows(scopes, scope),
         \A x : x.op = op /\ x.body = Req(c).body => Needed(x) = scope,
         conns[c].stale => configuredApiTokens = {}
  PROVE \A x \in ran' : x \in ran \/ Guarded(x)
<1> DEFINE one == [client |-> c, op |-> op, body |-> Req(c).body, scopes |-> scopes, stale |-> conns[c].stale]
<1>1. ran' = ran \union {one}
  BY DEF Run
<1>2. Guarded(one)
  BY DEF Guarded
<1> QED
  BY <1>1, <1>2

\* What a handler runs needs what its request was let in with.
LEMMA RunOfHandler ==
  ASSUME ApiShape, TokenInv, NEW c \in Clients, conns[c].pc = "dispatch",
         Dispatch(Req(c)).op # "none", Run(c, Dispatch(Req(c)).op, conns[c].scopes)
  PROVE \A x \in ran' : x \in ran \/ Guarded(x)
<1>1. Rightful(Dispatch(Req(c)), Req(c))
  BY DispatchIsRightful
<1>2. \A x : x.op = Dispatch(Req(c)).op /\ x.body = Req(c).body => Needed(x) = requiredScopeFor(Req(c))
  BY <1>1 DEF Rightful
<1>3. tokenAllows(conns[c].scopes, requiredScopeFor(Req(c))) /\ (conns[c].stale => configuredApiTokens = {})
  BY DEF TokenInv
<1> QED
  BY <1>2, <1>3, RunTokens

\* Every step of a request, and of its client (app.ts).
LEMMA ServeKeepsTokens ==
  ASSUME ApiInv, TokenInv, NEW c \in Clients, ServeStep(c) \/ Leave(c)
  PROVE TokenInv'
<1>0. ApiShape
  BY DEF ApiInv
<1>1. ASSUME Begin(c) PROVE TokenInv'
  <2>1. /\ ConnStep(c)
        /\ conns'[c].stale = (Req(c).token \in revoked)
        /\ conns'[c].pc \in {"public", "body", "authorize"}
    BY <1>0, <1>1 DEF Begin, ConnStep, ApiShape, ConnFields
  <2>2. UNCHANGED <<api, revoked, ran>>
    BY <1>1 DEF Begin
  <2> QED
    BY <1>0, <2>1, <2>2, TokenStep DEF TokenInv
<1>2. ASSUME ServePublic(c) PROVE TokenInv'
  <2>1. PICK status : Respond(c, status)
    BY <1>2 DEF ServePublic
  <2>2. UNCHANGED <<api, revoked>>
    BY <1>2 DEF ServePublic
  <2>3. ConnStep(c) /\ conns'[c].stale = conns[c].stale /\ conns'[c].pc = "ending"
    BY <1>0, <2>1, MoveTokens
  <2>4. CASE UNCHANGED ran
    BY <1>0, <2>2, <2>3, <2>4, QuietTokens
  <2>5. CASE ~ UNCHANGED ran
    <3>1. authorizeAlarmDemoWebhook(Req(c)) /\ Run(c, "handleAlarmDemoWebhook", {"webhook"})
      BY <1>2, <2>5 DEF ServePublic
    <3>2. ~conns[c].stale
      BY <3>1, TokensAssumption DEF authorizeAlarmDemoWebhook, TokenInv
    <3>3. \A x : x.op = "handleAlarmDemoWebhook" => Needed(x) = "webhook"
      BY DEF Needed, Publishes, Reads
    <3>4. tokenAllows({"webhook"}, "webhook")
      BY DEF tokenAllows
    <3>5. \A x \in ran' : x \in ran \/ Guarded(x)
      BY <1>0, <3>1, <3>2, <3>3, <3>4, RunTokens
    <3> QED
      BY <1>0, <2>2, <2>3, <3>5, TokenStep DEF TokenInv
  <2> QED
    BY <2>4, <2>5
<1>3. ASSUME ReadBody(c) PROVE TokenInv'
  <2>1. Move(c, "authorize") \/ Respond(c, 500)
    BY <1>3 DEF ReadBody
  <2> QED
    BY <1>0, <1>3, <2>1, MoveTokens, QuietTokens DEF ReadBody
<1>4. ASSUME authorizeRequest(c) PROVE TokenInv'
  <2>1. UNCHANGED <<api, revoked, ran>>
    BY <1>4 DEF authorizeRequest
  <2>2. CASE configuredApiTokens = {}
    <3>1. Admit(c, {"*"}, FALSE)
      BY <1>4, <2>2 DEF authorizeRequest
    <3> QED
      BY <1>0, <2>1, <2>2, <3>1, AdmitTokens
  <2>3. CASE configuredApiTokens # {} /\ Req(c).token \in configuredApiTokens
    <3>1. Admit(c, api.tokens[Req(c).token], TRUE)
      BY <1>4, <2>3 DEF authorizeRequest
    <3>2. ~conns[c].stale
      BY <2>3, TokensAssumption DEF TokenInv, configuredApiTokens
    <3> QED
      BY <1>0, <2>1, <3>1, <3>2, AdmitTokens
  <2>4. CASE configuredApiTokens # {} /\ Req(c).token \notin configuredApiTokens
    <3>1. CASE authenticateDbApiToken(c)
      <4>1. Move(c, "used") /\ ~conns[c].stale
        BY <1>4, <2>4, <3>1 DEF authorizeRequest, authenticateDbApiToken, TokenInv
      <4>2. ConnStep(c) /\ conns'[c].stale = conns[c].stale /\ conns'[c].pc = "used"
        BY <1>0, <4>1, MoveTokens
      <4> QED
        BY <1>0, <2>1, <4>1, <4>2, TokenStep DEF TokenInv
    <3>2. CASE ~authenticateDbApiToken(c)
      <4>1. Respond(c, 401)
        BY <1>4, <2>4, <3>2 DEF authorizeRequest
      <4> QED
        BY <1>0, <2>1, <4>1, MoveTokens, QuietTokens
    <3> QED
      BY <3>1, <3>2
  <2> QED
    BY <2>2, <2>3, <2>4
<1>5. ASSUME RecordUse(c) PROVE TokenInv'
  <2>1. UNCHANGED <<api, revoked, ran>> /\ conns[c].pc = "used" /\ Admit(c, api.keys[Req(c).token], TRUE)
    BY <1>5 DEF RecordUse, At
  <2>2. conns[c].stale => configuredApiTokens = {}
    BY <2>1 DEF TokenInv
  <2> QED
    BY <1>0, <2>1, <2>2, AdmitTokens
<1>6. ASSUME Handle(c) PROVE TokenInv'
  <2>1. UNCHANGED api /\ conns[c].pc = "dispatch"
    BY <1>6 DEF Handle, At
  <2>2. PICK status : Respond(c, status)
    BY <1>6 DEF Handle
  <2>3. ConnStep(c) /\ conns'[c].stale = conns[c].stale /\ conns'[c].pc = "ending"
    BY <1>0, <2>2, MoveTokens
  <2>4. revoked \subseteq revoked' /\ revoked' \subseteq DOMAIN api.keys
    BY <1>6 DEF Handle, TokenInv
  <2>5. \A x \in ran' : x \in ran \/ Guarded(x)
    <3>1. CASE UNCHANGED ran
      BY <3>1
    <3>2. CASE ~ UNCHANGED ran
      <4>1. Run(c, Dispatch(Req(c)).op, conns[c].scopes) /\ Dispatch(Req(c)).op # "none"
        BY <1>6, <3>2 DEF Handle
      <4> QED
        BY <1>0, <2>1, <4>1, RunOfHandler
    <3> QED
      BY <3>1, <3>2
  <2> QED
    BY <1>0, <2>1, <2>3, <2>4, <2>5, TokenStep DEF TokenInv
<1>7. ASSUME Upload(c) PROVE TokenInv'
  <2>1. UNCHANGED <<api, revoked>> /\ conns[c].pc = "dispatch" /\ Dispatch(Req(c)).op = "uploadArtifact"
    BY <1>7 DEF Upload, At
  <2>2. \/ Respond(c, 400) \/ Respond(c, 500) \/ Respond(c, 200)
        \/ Move(c, IF api.store = "file" THEN "write" ELSE IF api.validator THEN "validate" ELSE "put")
    BY <1>7 DEF Upload
  <2>3. ConnStep(c) /\ conns'[c].stale = conns[c].stale /\ conns'[c].pc \notin {"used", "dispatch"}
    BY <1>0, <2>2, MoveTokens
  <2>4. \A x \in ran' : x \in ran \/ Guarded(x)
    <3>1. CASE UNCHANGED ran
      BY <3>1
    <3>2. CASE ~ UNCHANGED ran
      <4>1. Run(c, Dispatch(Req(c)).op, conns[c].scopes)
        BY <1>7, <2>1, <3>2 DEF Upload
      <4> QED
        BY <1>0, <2>1, <4>1, RunOfHandler
    <3> QED
      BY <3>1, <3>2
  <2> QED
    BY <1>0, <2>1, <2>3, <2>4, TokenStep DEF TokenInv
<1>8. ASSUME WriteTemp(c) PROVE TokenInv'
  <2>1. ConnStep(c) /\ conns'[c].stale = conns[c].stale /\ conns'[c].pc = "rename"
    BY <1>0, <1>8 DEF WriteTemp, ConnStep, ApiShape, ConnFields
  <2> QED
    BY <1>0, <1>8, <2>1, QuietTokens DEF WriteTemp
<1>9. ASSUME Rename(c) PROVE TokenInv'
  <2>1. Move(c, IF api.validator THEN "validate" ELSE "register") \/ Respond(c, 400)
    BY <1>9 DEF Rename
  <2> QED
    BY <1>0, <1>9, <2>1, MoveTokens, QuietTokens DEF Rename
<1>10. ASSUME putValidatedArtifact(c) PROVE TokenInv'
  <2>1. ConnStep(c) /\ conns'[c].stale = conns[c].stale /\ conns'[c].pc \notin {"used", "dispatch"}
    <3>1. CASE Move(c, IF api.store = "file" THEN "register" ELSE "put") \/ Respond(c, 400)
      BY <1>0, <3>1, MoveTokens
    <3>2. CASE conns' = [conns EXCEPT ![c].pc = "unlink", ![c].flaked = TRUE]
      BY <1>0, <3>2 DEF ConnStep, ApiShape, ConnFields
    <3> QED
      BY <1>10, <3>1, <3>2 DEF putValidatedArtifact
  <2> QED
    BY <1>0, <1>10, <2>1, QuietTokens DEF putValidatedArtifact
<1>11. ASSUME Unlink(c) \/ PutObject(c) \/ Register(c) PROVE TokenInv'
  <2>1. (\E status : Respond(c, status)) \/ Move(c, "register")
    BY <1>11 DEF Unlink, PutObject, Register
  <2>2. ConnStep(c) /\ conns'[c].stale = conns[c].stale /\ conns'[c].pc \notin {"used", "dispatch"}
    BY <1>0, <2>1, MoveTokens
  <2> QED
    BY <1>0, <1>11, <2>2, QuietTokens DEF Unlink, PutObject, Register
<1>12. ASSUME End(c) PROVE TokenInv'
  <2>1. Move(c, "done")
    BY <1>12 DEF End
  <2> QED
    BY <1>0, <1>12, <2>1, MoveTokens, QuietTokens DEF End
<1>13. ASSUME Leave(c) PROVE TokenInv'
  <2>1. /\ ConnStep(c)
        /\ conns'[c].stale = conns[c].stale /\ conns'[c].pc = conns[c].pc /\ conns'[c].scopes = conns[c].scopes
    BY <1>0, <1>13 DEF Leave, ConnStep, ApiShape, ConnFields
  <2> QED
    BY <1>0, <1>13, <2>1, TokenStep DEF Leave, TokenInv
<1> QED
  BY <1>1, <1>2, <1>3, <1>4, <1>5, <1>6, <1>7, <1>8, <1>9, <1>10, <1>11, <1>12, <1>13 DEF ServeStep

\* No operation runs without the right it needs, no request fits two
\* handlers, and a key revoked before a request arrives runs nothing for
\* it, for every method, path and token (authorizeRequest).
THEOREM OperationsAreGuarded == ApiSpec => []HandlersAreGuarded
<1>1. ApiInit => TokenInv
  BY DEF ApiInit, TokenInv, NewConn, NoRequest
<1>2. ApiInv /\ TokenInv /\ [ApiNext]_apiVars => TokenInv'
  <2> SUFFICES ASSUME ApiInv, TokenInv, [ApiNext]_apiVars PROVE TokenInv'
    OBVIOUS
  <2>1. CASE ApiNext
    BY <2>1, ServeKeepsTokens DEF ApiNext
  <2>2. CASE UNCHANGED apiVars
    <3>1. UNCHANGED api /\ UNCHANGED conns /\ UNCHANGED revoked /\ UNCHANGED ran
      BY <2>2 DEF apiVars
    <3>2. configuredApiTokens' = configuredApiTokens
      BY <3>1 DEF configuredApiTokens
    <3>3. \A x : Guarded(x)' <=> Guarded(x)
      BY <3>2 DEF Guarded, tokenAllows, Needed, Publishes, Reads
    <3>4. \A c : Req(c)' = Req(c) /\ requiredScopeFor(Req(c))' = requiredScopeFor(Req(c))
      BY <3>1 DEF Req, requiredScopeFor, Is, On, bodyHasMode
    <3> QED
      BY <3>1, <3>2, <3>3, <3>4 DEF TokenInv, tokenAllows
  <2> QED
    BY <2>1, <2>2
<1>3. TokenInv => HandlersAreGuarded
  BY DispatchIsRightful DEF TokenInv, HandlersAreGuarded, Guarded
<1> QED
  BY <1>1, <1>2, <1>3, ApiInvariant, PTL DEF ApiSpec

-----------------------------------------------------------------------------
(* The host daemon.  Three facts of different kinds.  The two matchers     *)
(* take the same route of an unambiguous table (SameMatch), so a request   *)
(* that was matched against one snapshot on both sides runs what the node  *)
(* found for it (VisitInv).  A PUT that nothing has overlapped has the     *)
(* supervisor's snapshot, and once the daemon has answered it the table    *)
(* (AloneInv); when the tables agree no PUT is under way (AgreedInv).  The *)
(* counter of the limiter is that of the running requests (ActiveInv).     *)

VisitFields == {"pc", "found", "at", "table", "seen", "target"}

DaemonShape ==
  /\ daemonWork \in DaemonWorkloads
  /\ installed \in Numbers
  /\ routes \in Numbers \union {0}
  /\ DOMAIN puts = Numbers /\ \A n \in Numbers : DOMAIN puts[n] = {"pc", "alone"}
  /\ DOMAIN visits = Visitors /\ \A v \in Visitors : DOMAIN visits[v] = VisitFields

\* What the node finds for a request in a snapshot, and what the daemon does.
FoundIn(n, v) ==
  LET m == createRouteCache(Snap(n), Path(v))
  IN m # <<>> /\ visits[v].found = selectRouteTarget(m[1], daemonWork.requests[v])

\* A request the node has let pass was matched in a snapshot of the node; what
\* the daemon runs for it was matched in the same way.
VisitSound(v) ==
  /\ visits[v].pc \in {"prepared", "proxied"} => visits[v].at \in Numbers /\ FoundIn(visits[v].at, v)
  /\ visits[v].pc \in {"new", "prepared", "proxied", "invoked"} => visits[v].table = 0
  /\ visits[v].table # 0 /\ visits[v].table = visits[v].at /\ Unambiguous(Snap(visits[v].at))
       => visits[v].target = visits[v].found

VisitInv == \A v \in Visitors : VisitSound(v)

\* A PUT alone under way is of the installed snapshot; once the daemon has
\* replaced its table, the table is the same.
AloneInv ==
  \A n \in Numbers : UnderWay(n) /\ puts[n].alone =>
    /\ installed = n
    /\ \A k \in Numbers \ {n} : ~UnderWay(k)
    /\ puts[n].pc = "replaced" => routes = n

\* Tables that agree do so until the next PUT.
AgreedInv == agreed => routes = installed /\ \A n \in Numbers : ~UnderWay(n)

RunningVisits == {v \in Visitors : visits[v].pc = "running"}

\* The counter is exact and within the limit.
ActiveInv == active = Cardinality(RunningVisits) /\ active <= DaemonLimit

DaemonInv == DaemonShape /\ VisitInv /\ AloneInv /\ AgreedInv /\ ActiveInv

-----------------------------------------------------------------------------
\* A prefix of a sequence, place by place.
LEMMA PrefixPlaces ==
  ASSUME NEW C, NEW s \in Seq(C), NEW t \in Seq(C)
  PROVE  IsPrefix(s, t) <=> Len(s) <= Len(t) /\ \A i \in 1..Len(s) : s[i] = t[i]
<1>1. CASE Len(s) <= Len(t)
  <2>1. /\ Len(SubSeq(s, 1, Len(s))) = Len(s) /\ Len(SubSeq(t, 1, Len(s))) = Len(s)
        /\ \A i \in 1..Len(s) : SubSeq(s, 1, Len(s))[i] = s[i] /\ SubSeq(t, 1, Len(s))[i] = t[i]
        /\ SubSeq(s, 1, Len(s)) \in Seq(C) /\ SubSeq(t, 1, Len(s)) \in Seq(C)
    BY <1>1
  <2>2. (\A i \in 1..Len(s) : s[i] = t[i]) => SubSeq(s, 1, Len(s)) = SubSeq(t, 1, Len(s))
    BY <2>1
  <2>3. SubSeq(s, 1, Len(s)) = SubSeq(t, 1, Len(s)) => \A i \in 1..Len(s) : s[i] = t[i]
    BY <2>1
  <2> QED
    BY <1>1, <2>2, <2>3 DEF IsPrefix
<1>2. CASE ~(Len(s) <= Len(t))
  BY <1>2 DEF IsPrefix
<1> QED
  BY <1>1, <1>2

\* The daemon leaves a prefix alone that is "/" or does not end in a slash
\* (normalize_path_prefix).
LEMMA PrefixNormal ==
  ASSUME NEW prefix \in Seq(STRING), prefix # <<>>, prefix = <<"/">> \/ ~EndsInSlash(prefix)
  PROVE  normalize_path_prefix(prefix) = prefix
<1> DEFINE Kept(k) == /\ \A i \in k + 1..Len(prefix) : prefix[i] = "/"
                      /\ k = 0 \/ prefix[k] # "/"
           n == CHOOSE k \in 0..Len(prefix) : Kept(k)
<1>0. Len(prefix) \in Nat \ {0}
  OBVIOUS
<1>1. CASE prefix = <<"/">>
  <2>1. Kept(0) /\ \A k \in 0..Len(prefix) : Kept(k) => k = 0
    BY <1>1
  <2>2. n = 0
    <3> HIDE DEF Kept
    <3> QED
      BY <2>1
  <2> QED
    BY <1>1, <2>2 DEF normalize_path_prefix
<1>2. CASE prefix # <<"/">>
  <2>1. prefix[Len(prefix)] # "/"
    BY <1>2 DEF EndsInSlash
  <2>2. Kept(Len(prefix)) /\ \A k \in 0..Len(prefix) : Kept(k) => k = Len(prefix)
    BY <1>0, <2>1
  <2>3. n = Len(prefix)
    <3> HIDE DEF Kept
    <3> QED
      BY <1>0, <2>2
  <2>4. normalize_path_prefix(prefix) = SubSeq(prefix, 1, Len(prefix))
    <3> HIDE DEF n
    <3>1. normalize_path_prefix(prefix) = IF n = 0 /\ Len(prefix) = 1 THEN prefix ELSE SubSeq(prefix, 1, n)
      BY DEF normalize_path_prefix, n
    <3> QED
      BY <1>0, <2>3, <3>1
  <2>5. SubSeq(prefix, 1, Len(prefix)) = prefix
    OBVIOUS
  <2> QED
    BY <2>4, <2>5
<1> QED
  BY <1>1, <1>2

\* The two comparisons of a path with such a prefix agree (pathPrefixMatches,
\* path_prefix_matches).
LEMMA SamePrefixMatch ==
  ASSUME NEW prefix \in Seq(STRING), prefix # <<>>, prefix = <<"/">> \/ ~EndsInSlash(prefix),
         NEW path \in Seq(STRING)
  PROVE  pathPrefixMatches(path, prefix) <=> path_prefix_matches(path, prefix)
<1>1. CASE prefix = <<"/">>
  BY <1>1 DEF pathPrefixMatches, path_prefix_matches
<1>2. CASE prefix # <<"/">>
  <2> DEFINE C == STRING \union {"/"}
             q == Append(prefix, "/")
  <2>0. Len(prefix) \in Nat /\ Len(path) \in Nat
    OBVIOUS
  <2>1. /\ q \in Seq(C) /\ path \in Seq(C) /\ Len(q) = Len(prefix) + 1
        /\ q[Len(prefix) + 1] = "/" /\ \A i \in 1..Len(prefix) : q[i] = prefix[i]
    <3>1. prefix \in Seq(C) /\ path \in Seq(C) /\ "/" \in C
      OBVIOUS
    <3>2. q \in Seq(C) /\ Len(q) = Len(prefix) + 1
      BY <3>1
    <3>3. q[Len(prefix) + 1] = "/"
      BY <2>0
    <3>4. \A i \in 1..Len(prefix) : q[i] = prefix[i]
      BY <2>0
    <3> QED
      BY <3>1, <3>2, <3>3, <3>4
  <2> HIDE DEF C, q
  <2>2. IsPrefix(q, path) <=> Len(q) <= Len(path) /\ \A i \in 1..Len(q) : q[i] = path[i]
    BY <2>1, PrefixPlaces
  <2>3. IsPrefix(prefix, path) <=> Len(prefix) <= Len(path) /\ \A i \in 1..Len(prefix) : prefix[i] = path[i]
    BY PrefixPlaces
  <2>4. IsPrefix(q, path) <=> Len(path) > Len(prefix) /\ IsPrefix(prefix, path) /\ path[Len(prefix) + 1] = "/"
    BY <2>0, <2>1, <2>2, <2>3
  <2> QED
    BY <1>2, <2>4 DEF pathPrefixMatches, path_prefix_matches, q
<1> QED
  BY <1>1, <1>2

\* Two prefixes of one length that match one path are the same.
LEMMA SameLengthSamePrefix ==
  ASSUME NEW path \in Seq(STRING), path # <<>>, path[1] = "/",
         NEW p \in Seq(STRING), NEW q \in Seq(STRING), p # <<>>, q # <<>>,
         path_prefix_matches(path, p), path_prefix_matches(path, q), Len(p) = Len(q)
  PROVE  p = q
<1>1. ASSUME NEW r \in {p, q} PROVE \A i \in 1..Len(r) : r[i] = path[i]
  <2>1. CASE r = <<"/">>
    BY <2>1
  <2>2. CASE r = path
    BY <2>2
  <2>3. CASE IsPrefix(r, path)
    BY <2>3, PrefixPlaces
  <2> QED
    BY <2>1, <2>2, <2>3 DEF path_prefix_matches
<1> QED
  BY <1>1

\* The daemon and the supervisor take the same route of an unambiguous table
\* (createRouteCache, match_route).
LEMMA SameMatch ==
  ASSUME NEW table \in Seq(RouteRecord), \A i \in DOMAIN table : table[i].prefix # <<>>, Unambiguous(table),
         NEW path \in Seq(STRING), path # <<>>, path[1] = "/"
  PROVE  /\ match_route(parse_prepared_route_table(buildWasip3HostDaemonRouteTable(table)), path)
              = createRouteCache(table, path)
         /\ createRouteCache(table, path) # <<>> => \E i \in DOMAIN table : createRouteCache(table, path) = <<table[i]>>
<1> DEFINE prepared == parse_prepared_route_table(buildWasip3HostDaemonRouteTable(table))
           ms == {i \in DOMAIN table : pathPrefixMatches(path, table[i].prefix)}
           first == {i \in ms : \A j \in ms \ {i} : routePrecedence(table, i, j)}
           last == {i \in ms : \A j \in ms \ {i} :
                     \/ Len(table[i].prefix) > Len(table[j].prefix)
                     \/ Len(table[i].prefix) = Len(table[j].prefix) /\ i > j}
<1>0. \A i \in DOMAIN table : /\ table[i].prefix \in Seq(STRING) /\ Len(table[i].prefix) \in Nat
                              /\ table[i].prefix = <<"/">> \/ ~EndsInSlash(table[i].prefix)
                              /\ table[i] \in RouteRecord /\ i \in Nat
  <2> SUFFICES ASSUME NEW i \in DOMAIN table
               PROVE /\ table[i].prefix \in Seq(STRING) /\ Len(table[i].prefix) \in Nat
                     /\ table[i].prefix = <<"/">> \/ ~EndsInSlash(table[i].prefix)
                     /\ table[i] \in RouteRecord /\ i \in Nat
    OBVIOUS
  <2>1. table[i] \in RouteRecord /\ i \in Nat
    OBVIOUS
  <2>2. table[i].prefix \in Seq(STRING)
    BY <2>1 DEF RouteRecord
  <2>3. Len(table[i].prefix) \in Nat
    BY <2>2
  <2> QED
    BY <2>1, <2>2, <2>3 DEF Unambiguous
<1>1. prepared = table
  <2>1. \A i \in DOMAIN table : [table[i] EXCEPT !.prefix = normalize_path_prefix(table[i].prefix)] = table[i]
    <3> SUFFICES ASSUME NEW i \in DOMAIN table
                 PROVE [table[i] EXCEPT !.prefix = normalize_path_prefix(table[i].prefix)] = table[i]
      OBVIOUS
    <3>1. normalize_path_prefix(table[i].prefix) = table[i].prefix
      BY <1>0, PrefixNormal
    <3> QED
      BY <1>0, <3>1 DEF RouteRecord
  <2>2. prepared = [i \in DOMAIN table |-> table[i]]
    BY <2>1 DEF parse_prepared_route_table, buildWasip3HostDaemonRouteTable
  <2> QED
    BY <2>2
<1>2. ms = {i \in DOMAIN table : path_prefix_matches(path, table[i].prefix)}
  BY <1>0, SamePrefixMatch
<1>3. \A i, j \in ms : i # j => Len(table[i].prefix) # Len(table[j].prefix)
  BY <1>0, <1>2, SameLengthSamePrefix DEF Unambiguous
<1>4. first = last
  BY <1>0, <1>3 DEF routePrecedence
<1>5. createRouteCache(table, path) = IF ms = {} THEN <<>> ELSE <<table[Only(first)]>>
  BY DEF createRouteCache
<1>6. match_route(table, path) = IF ms = {} THEN <<>> ELSE <<table[Only(last)]>>
  BY <1>2 DEF match_route
\* No prefix that matches is longer than the path, so one is the longest.
<1>7. ms # {} => Only(first) \in DOMAIN table
  <2> SUFFICES ASSUME ms # {} PROVE first # {}
    BY DEF Only
  <2>1. Len(path) \in Nat \ {0} /\ \A i \in ms : Len(table[i].prefix) \in 0..Len(path)
    <3>1. Len(path) \in Nat \ {0}
      OBVIOUS
    <3>2. ASSUME NEW i \in ms PROVE Len(table[i].prefix) \in 0..Len(path)
      <4>1. table[i].prefix \in Seq(STRING) /\ path_prefix_matches(path, table[i].prefix)
        BY <1>0, <1>2
      <4> QED
        BY <3>1, <4>1, PrefixPlaces DEF path_prefix_matches
    <3> QED
      BY <3>1, <3>2
  <2>2. ASSUME NEW i \in ms, \A j \in ms : Len(table[i].prefix) >= Len(table[j].prefix)
        PROVE  i \in first
    <3>1. \A j \in ms \ {i} : Len(table[i].prefix) > Len(table[j].prefix)
      BY <1>0, <1>3, <2>2
    <3> QED
      BY <3>1 DEF routePrecedence
  <2> DEFINE rest(i) == Len(path) - Len(table[i].prefix)
             rests == {rest(i) : i \in ms}
  <2>3. rests \subseteq Nat /\ rests # {}
    BY <2>1
  <2>4. PICK n \in rests : \A k \in rests : ~(k < n)
    <3> HIDE DEF rests
    <3>1. PICK n \in rests : \A k \in rests : n <= k
      BY <2>3, LeastNat
    <3> QED
      BY <2>3, <3>1
  <2>5. PICK i \in ms : n = rest(i)
    <3> HIDE DEF ms, rest
    <3> QED
      BY <2>4
  <2>6. \A j \in ms : ~(rest(j) < rest(i))
    <3> HIDE DEF ms, rest
    <3> QED
      BY <2>4, <2>5
  <2>7. \A j \in ms : Len(table[i].prefix) >= Len(table[j].prefix)
    BY <2>1, <2>6
  <2> QED
    BY <2>2, <2>7
<1> HIDE DEF prepared, ms, first, last
<1>8. match_route(prepared, path) = createRouteCache(table, path)
  BY <1>1, <1>4, <1>5, <1>6
<1>9. createRouteCache(table, path) # <<>> => \E i \in DOMAIN table : createRouteCache(table, path) = <<table[i]>>
  BY <1>5, <1>7
<1> QED
  BY <1>8, <1>9 DEF prepared

\* ... and the same target of it, when its weights fit the daemon's sum
\* (selectRouteTarget, select_target).
LEMMA SameTarget ==
  ASSUME NEW route, NEW r, Weight(route.targets, Len(route.targets)) <= MaxWeight
  PROVE  select_target(route, r) = selectRouteTarget(route, r)
BY DEF select_target, selectRouteTarget, Saturated

-----------------------------------------------------------------------------
\* A step of a request changes the fields it names and those of no other (Visit).
LEMMA VisitChanges ==
  ASSUME DaemonShape, KeepTables, NEW v \in Visitors, NEW change, DOMAIN change \subseteq VisitFields,
         Visit(v, change)
  PROVE  /\ DOMAIN visits' = Visitors /\ Visitors' = Visitors
         /\ \A w \in Visitors \ {v} : visits'[w] = visits[w]
         /\ DOMAIN visits'[v] = VisitFields
         /\ \A x \in DOMAIN change : visits'[v][x] = change[x]
         /\ \A x \in VisitFields \ DOMAIN change : visits'[v][x] = visits[v][x]
<1>1. visits'[v] = [x \in DOMAIN visits[v] |-> IF x \in DOMAIN change THEN change[x] ELSE visits[v][x]]
      /\ DOMAIN visits' = Visitors
      /\ \A w \in Visitors \ {v} : visits'[w] = visits[w]
  BY DEF DaemonShape, Visit
<1>2. DOMAIN visits[v] = VisitFields
  BY DEF DaemonShape
<1>3. Visitors' = Visitors
  BY DEF KeepTables, Visitors
<1> QED
  BY <1>1, <1>2, <1>3

\* A request that does not move stays sound.
LEMMA VisitKept ==
  ASSUME NEW v, VisitSound(v), visits'[v] = visits[v], daemonWork' = daemonWork
  PROVE  VisitSound(v)'
BY DEF VisitSound, FoundIn, Snap, Path, Numbers

\* The requests are finitely many.
LEMMA VisitsFinite == DaemonShape => IsFiniteSet(RunningVisits) /\ Cardinality(RunningVisits) \in Nat
<1> SUFFICES ASSUME DaemonShape PROVE IsFiniteSet(RunningVisits) /\ Cardinality(RunningVisits) \in Nat
  OBVIOUS
<1>1. Visitors = 1..Len(daemonWork.requests) /\ Len(daemonWork.requests) \in Nat
  BY DaemonAssumption DEF DaemonShape, Visitors
<1>2. IsFiniteSet(Visitors)
  BY <1>1, FS_Interval
<1>3. RunningVisits \subseteq Visitors
  BY DEF RunningVisits
<1>4. IsFiniteSet(RunningVisits)
  BY <1>2, <1>3, FS_Subset
<1> QED
  BY <1>4, FS_CardinalityType

\* A step of one request that leaves it sound and the counter exact keeps the
\* invariant.
LEMMA VisitStep ==
  ASSUME DaemonInv, KeepTables, NEW v \in Visitors, NEW change, DOMAIN change \subseteq VisitFields,
         Visit(v, change), VisitSound(v)', ActiveInv'
  PROVE  DaemonInv'
<1> USE DEF DaemonInv
<1>1. daemonWork' = daemonWork /\ installed' = installed /\ routes' = routes /\ puts' = puts /\ agreed' = agreed
      /\ Visitors' = Visitors /\ Numbers' = Numbers
  BY DEF KeepTables, Visitors, Numbers
<1>2. DOMAIN visits' = Visitors /\ (\A w \in Visitors \ {v} : visits'[w] = visits[w]) /\ DOMAIN visits'[v] = VisitFields
  BY VisitChanges
<1>3. DaemonShape'
  BY <1>1, <1>2 DEF DaemonShape
<1>4. VisitInv'
  BY <1>1, <1>2, VisitKept DEF VisitInv
<1>5. AloneInv' /\ AgreedInv'
  BY <1>1 DEF AloneInv, AgreedInv, UnderWay
<1> QED
  BY <1>3, <1>4, <1>5

\* A step of a request that neither starts nor stops running leaves the
\* counter exact.
LEMMA CounterUnmoved ==
  ASSUME ActiveInv, active' = active, NEW v \in Visitors, Visitors' = Visitors,
         \A w \in Visitors \ {v} : visits'[w] = visits[w],
         visits[v].pc # "running", visits'[v].pc # "running"
  PROVE  ActiveInv'
<1>1. RunningVisits' = RunningVisits
  BY DEF RunningVisits
<1> QED
  BY <1>1 DEF ActiveInv

\* A request reads a snapshot of the workload, and its path begins with a slash.
LEMMA SnapshotsReadable ==
  ASSUME DaemonShape
  PROVE  /\ \A n \in Numbers : /\ n # 0 /\ Snap(n) \in Seq(RouteRecord)
                               /\ \A i \in DOMAIN Snap(n) : Snap(n)[i].prefix # <<>>
         /\ \A v \in Visitors : Path(v) \in Seq(STRING) /\ Path(v) # <<>> /\ Path(v)[1] = "/"
<1>1. daemonWork \in DaemonWorkloads
  BY DEF DaemonShape
<1>2. ASSUME NEW n \in Numbers PROVE n # 0 /\ Snap(n) \in Seq(RouteRecord)
                                     /\ \A i \in DOMAIN Snap(n) : Snap(n)[i].prefix # <<>>
  <2>1. daemonWork.snaps \in Seq(Seq(RouteRecord)) /\ n \in DOMAIN daemonWork.snaps
    BY <1>1, DaemonAssumption DEF Numbers
  <2>2. n # 0 /\ daemonWork.snaps[n] \in Seq(RouteRecord)
    BY <2>1
  <2> QED
    BY <1>1, <2>1, <2>2, DaemonAssumption DEF Snap
<1>3. ASSUME NEW v \in Visitors PROVE Path(v) \in Seq(STRING) /\ Path(v) # <<>> /\ Path(v)[1] = "/"
  <2>1. daemonWork.requests \in Seq(VisitRecord) /\ v \in DOMAIN daemonWork.requests
    BY <1>1, DaemonAssumption DEF Visitors
  <2>2. daemonWork.requests[v] \in VisitRecord
    BY <2>1
  <2> QED
    BY <1>1, <2>1, <2>2, DaemonAssumption DEF Path, VisitRecord
<1> QED
  BY <1>2, <1>3

\* Every step of a request keeps the invariant.
LEMMA RequestKeeps ==
  ASSUME DaemonInv, NEW v \in Visitors,
         \/ prepareRoute(v) \/ proxyWasip3HostDaemonWorkerRequest(v) \/ createWasip3HostDaemonInvoker(v)
         \/ handle_daemon_worker_request(v) \/ handle_daemon_invoke_request(v)
         \/ LoadActive(v) \/ try_acquire(v) \/ DropPermit(v)
  PROVE  DaemonInv'
<1> USE DEF DaemonInv
<1>0. KeepTables /\ VisitSound(v) /\ Visitors' = Visitors /\ daemonWork' = daemonWork /\ routes' = routes
      /\ Numbers' = Numbers /\ Path(v)' = Path(v)
  BY DEF prepareRoute, proxyWasip3HostDaemonWorkerRequest, createWasip3HostDaemonInvoker,
         handle_daemon_worker_request, handle_daemon_invoke_request, LoadActive, try_acquire, DropPermit,
         KeepTables, Visitors, Numbers, VisitInv, Path
<1>1. CASE prepareRoute(v)
  <2> DEFINE m == createRouteCache(Snap(installed), Path(v))
             target == selectRouteTarget(m[1], daemonWork.requests[v])
  <2>0. visits[v].pc = "new" /\ active' = active /\ visits[v].table = 0
    BY <1>0, <1>1 DEF prepareRoute, VisitSound
  <2>1. CASE m = <<>>
    <3>1. Visit(v, [pc |-> "unmatched"])
      BY <1>1, <2>1 DEF prepareRoute
    <3> HIDE DEF m, target
    <3>2. visits'[v].pc = "unmatched" /\ visits'[v].table = 0 /\ \A w \in Visitors \ {v} : visits'[w] = visits[w]
      BY <1>0, <2>0, <3>1, VisitChanges DEF VisitFields
    <3>3. VisitSound(v)'
      BY <3>2 DEF VisitSound
    <3>4. ActiveInv'
      BY <1>0, <2>0, <3>2, CounterUnmoved
    <3> QED
      BY <1>0, <3>1, <3>3, <3>4, VisitStep DEF VisitFields
  <2>2. CASE m # <<>>
    <3>1. Visit(v, [pc |-> "prepared", found |-> target, at |-> installed])
      BY <1>1, <2>2 DEF prepareRoute
    <3>2. /\ visits'[v].pc = "prepared" /\ visits'[v].table = 0
          /\ visits'[v].found = target /\ visits'[v].at = installed
          /\ \A w \in Visitors \ {v} : visits'[w] = visits[w]
      <4> HIDE DEF target
      <4> QED
        BY <1>0, <2>0, <3>1, VisitChanges DEF VisitFields
    <3>3. VisitSound(v)'
      BY <1>0, <2>2, <3>2 DEF VisitSound, FoundIn, DaemonShape, Snap
    <3>4. ActiveInv'
      BY <1>0, <2>0, <3>2, CounterUnmoved
    <3> HIDE DEF target
    <3> QED
      BY <1>0, <3>1, <3>3, <3>4, VisitStep DEF VisitFields
  <2> QED
    BY <2>1, <2>2
<1>2. CASE proxyWasip3HostDaemonWorkerRequest(v)
  <2>1. visits[v].pc = "prepared" /\ active' = active /\ Visit(v, [pc |-> "proxied"])
    BY <1>2 DEF proxyWasip3HostDaemonWorkerRequest
  <2>2. /\ visits'[v].pc = "proxied" /\ \A w \in Visitors \ {v} : visits'[w] = visits[w]
        /\ \A x \in {"found", "at", "table", "target"} : visits'[v][x] = visits[v][x]
    BY <1>0, <2>1, VisitChanges DEF VisitFields
  <2>3. VisitSound(v)'
    BY <1>0, <2>1, <2>2 DEF VisitSound, FoundIn, Snap
  <2>4. ActiveInv'
    BY <1>0, <2>1, <2>2, CounterUnmoved
  <2> QED
    BY <1>0, <2>1, <2>3, <2>4, VisitStep DEF VisitFields
<1>3. CASE createWasip3HostDaemonInvoker(v)
  <2>1. visits[v].pc = "prepared" /\ active' = active /\ Visit(v, [pc |-> "invoked"])
    BY <1>3 DEF createWasip3HostDaemonInvoker
  <2>2. /\ visits'[v].pc = "invoked" /\ \A w \in Visitors \ {v} : visits'[w] = visits[w]
        /\ \A x \in {"found", "at", "table", "target"} : visits'[v][x] = visits[v][x]
    BY <1>0, <2>1, VisitChanges DEF VisitFields
  <2>3. VisitSound(v)'
    BY <1>0, <2>1, <2>2 DEF VisitSound
  <2>4. ActiveInv'
    BY <1>0, <2>1, <2>2, CounterUnmoved
  <2> QED
    BY <1>0, <2>1, <2>3, <2>4, VisitStep DEF VisitFields
<1>4. CASE handle_daemon_worker_request(v)
  <2> DEFINE m == match_route(DaemonTable, Path(v))
             target == select_target(m[1], daemonWork.requests[v])
  <2>0. visits[v].pc = "proxied" /\ active' = active
    BY <1>4 DEF handle_daemon_worker_request
  <2>1. visits[v].at \in Numbers /\ FoundIn(visits[v].at, v)
    BY <1>0, <2>0 DEF VisitSound
  \* With the node's own snapshot the daemon finds what the node found.
  <2>2. routes = visits[v].at /\ Unambiguous(Snap(routes)) => m # <<>> /\ target = visits[v].found
    <3> SUFFICES ASSUME routes = visits[v].at, Unambiguous(Snap(routes))
                 PROVE m # <<>> /\ target = visits[v].found
      OBVIOUS
    <3>0. /\ Snap(routes) \in Seq(RouteRecord) /\ \A i \in DOMAIN Snap(routes) : Snap(routes)[i].prefix # <<>>
          /\ Path(v) \in Seq(STRING) /\ Path(v) # <<>> /\ Path(v)[1] = "/"
      BY <2>1, SnapshotsReadable
    <3>1. m = createRouteCache(Snap(routes), Path(v))
      BY <3>0, SameMatch DEF DaemonTable
    <3>2. PICK i \in DOMAIN Snap(routes) : m = <<Snap(routes)[i]>>
      BY <2>1, <3>1, <3>0, SameMatch DEF FoundIn
    <3>3. Weight(m[1].targets, Len(m[1].targets)) <= MaxWeight
      BY <3>2 DEF Unambiguous
    <3> HIDE DEF m
    <3> QED
      BY <2>1, <3>1, <3>3, SameTarget DEF FoundIn
  <2>3. CASE m = <<>>
    <3>1. Visit(v, [pc |-> "unmatched", table |-> routes])
      BY <1>4, <2>3 DEF handle_daemon_worker_request
    <3> HIDE DEF m, target
    <3>2. /\ visits'[v].pc = "unmatched" /\ visits'[v].table = routes
          /\ \A x \in {"found", "at", "target"} : visits'[v][x] = visits[v][x]
          /\ \A w \in Visitors \ {v} : visits'[w] = visits[w]
      BY <1>0, <2>0, <3>1, VisitChanges DEF VisitFields
    <3>3. VisitSound(v)'
      <4>1. routes = visits[v].at => ~Unambiguous(Snap(routes))
        BY <2>2, <2>3
      <4> QED
        BY <1>0, <3>2, <4>1 DEF VisitSound, Snap
    <3>4. ActiveInv'
      BY <1>0, <2>0, <3>2, CounterUnmoved
    <3> QED
      BY <1>0, <3>1, <3>3, <3>4, VisitStep DEF VisitFields
  <2>4. CASE m # <<>>
    <3>1. Visit(v, [pc |-> "loading", table |-> routes, target |-> target])
      BY <1>4, <2>4 DEF handle_daemon_worker_request
    <3> HIDE DEF m, target
    <3>2. /\ visits'[v].pc = "loading" /\ visits'[v].table = routes /\ visits'[v].target = target
          /\ \A x \in {"found", "at"} : visits'[v][x] = visits[v][x]
          /\ \A w \in Visitors \ {v} : visits'[w] = visits[w]
      BY <1>0, <2>0, <3>1, VisitChanges DEF VisitFields
    <3>3. VisitSound(v)'
      BY <1>0, <2>2, <3>2 DEF VisitSound, Snap
    <3>4. ActiveInv'
      BY <1>0, <2>0, <3>2, CounterUnmoved
    <3> QED
      BY <1>0, <3>1, <3>3, <3>4, VisitStep DEF VisitFields
  <2> QED
    BY <2>3, <2>4
<1>5. CASE handle_daemon_invoke_request(v)
  <2>1. visits[v].pc = "invoked" /\ active' = active /\ Visit(v, [pc |-> "loading", target |-> visits[v].found])
    BY <1>5 DEF handle_daemon_invoke_request
  <2>2. visits'[v].pc = "loading" /\ visits'[v].table = visits[v].table /\ \A w \in Visitors \ {v} : visits'[w] = visits[w]
    BY <1>0, <2>1, VisitChanges DEF VisitFields
  <2>3. VisitSound(v)'
    BY <1>0, <2>1, <2>2 DEF VisitSound
  <2>4. ActiveInv'
    BY <1>0, <2>1, <2>2, CounterUnmoved
  <2> QED
    BY <1>0, <2>1, <2>3, <2>4, VisitStep DEF VisitFields
<1>6. ASSUME visits[v].pc \notin {"prepared", "proxied"}, NEW change, Visit(v, change),
             DOMAIN change \subseteq {"pc", "seen"},
             "pc" \in DOMAIN change => change["pc"] \in {"acquiring", "busy", "running", "answered"}
      PROVE  VisitSound(v)'
  <2>1. DOMAIN change \subseteq VisitFields
    BY <1>6 DEF VisitFields
  <2>2. /\ \A x \in {"found", "at", "table", "target"} : visits'[v][x] = visits[v][x]
        /\ visits'[v].pc = visits[v].pc \/ visits'[v].pc \in {"acquiring", "busy", "running", "answered"}
    BY <1>0, <1>6, <2>1, VisitChanges DEF VisitFields
  <2> QED
    BY <1>0, <1>6, <2>2 DEF VisitSound, Snap
<1>7. CASE LoadActive(v)
  <2>1. visits[v].pc = "loading" /\ active' = active /\ Visit(v, [pc |-> "acquiring", seen |-> active])
    BY <1>7 DEF LoadActive
  <2>2. visits'[v].pc = "acquiring" /\ \A w \in Visitors \ {v} : visits'[w] = visits[w]
    BY <1>0, <2>1, VisitChanges DEF VisitFields
  <2>3. VisitSound(v)'
    BY <1>6, <2>1
  <2>4. ActiveInv'
    BY <1>0, <2>1, <2>2, CounterUnmoved
  <2> QED
    BY <1>0, <2>1, <2>3, <2>4, VisitStep DEF VisitFields
<1>8. CASE try_acquire(v)
  <2>0. visits[v].pc = "acquiring"
    BY <1>8 DEF try_acquire
  <2>1. CASE Visit(v, [pc |-> "busy"]) /\ UNCHANGED active
    <3>1. visits'[v].pc = "busy" /\ \A w \in Visitors \ {v} : visits'[w] = visits[w]
      BY <1>0, <2>1, VisitChanges DEF VisitFields
    <3>2. VisitSound(v)'
      BY <1>6, <2>0, <2>1
    <3>3. ActiveInv'
      BY <1>0, <2>0, <2>1, <3>1, CounterUnmoved
    <3> QED
      BY <1>0, <2>1, <3>2, <3>3, VisitStep DEF VisitFields
  <2>2. CASE Visit(v, [seen |-> active]) /\ UNCHANGED active
    <3>1. visits'[v].pc = visits[v].pc /\ \A w \in Visitors \ {v} : visits'[w] = visits[w]
      BY <1>0, <2>2, VisitChanges DEF VisitFields
    <3>2. VisitSound(v)'
      BY <1>6, <2>0, <2>2
    <3>3. ActiveInv'
      BY <1>0, <2>0, <2>2, <3>1, CounterUnmoved
    <3> QED
      BY <1>0, <2>2, <3>2, <3>3, VisitStep DEF VisitFields
  <2>3. CASE /\ visits[v].seen < DaemonLimit /\ visits[v].seen = active
             /\ Visit(v, [pc |-> "running"])
             /\ active' = active + 1
    <3>1. visits'[v].pc = "running" /\ \A w \in Visitors \ {v} : visits'[w] = visits[w]
      BY <1>0, <2>3, VisitChanges DEF VisitFields
    <3>2. VisitSound(v)'
      BY <1>6, <2>0, <2>3
    <3>3. RunningVisits' = RunningVisits \union {v} /\ v \notin RunningVisits
      BY <1>0, <2>0, <3>1 DEF RunningVisits
    <3>4. Cardinality(RunningVisits') = Cardinality(RunningVisits) + 1
      BY <3>3, VisitsFinite, FS_AddElement
    <3>5. ActiveInv'
      BY <2>3, <3>4, VisitsFinite, DaemonAssumption DEF ActiveInv
    <3> QED
      BY <1>0, <2>3, <3>2, <3>5, VisitStep DEF VisitFields
  <2> QED
    BY <1>8, <2>1, <2>2, <2>3 DEF try_acquire
<1>9. CASE DropPermit(v)
  <2>1. visits[v].pc = "running" /\ active' = active - 1 /\ Visit(v, [pc |-> "answered"])
    BY <1>9 DEF DropPermit
  <2>2. visits'[v].pc = "answered" /\ \A w \in Visitors \ {v} : visits'[w] = visits[w]
    BY <1>0, <2>1, VisitChanges DEF VisitFields
  <2>3. VisitSound(v)'
    BY <1>6, <2>1
  <2>4. RunningVisits' = RunningVisits \ {v} /\ v \in RunningVisits
    BY <1>0, <2>1, <2>2 DEF RunningVisits
  <2>5. Cardinality(RunningVisits') = Cardinality(RunningVisits) - 1
    BY <2>4, VisitsFinite, FS_RemoveElement
  <2>6. ActiveInv'
    BY <2>1, <2>5, VisitsFinite, DaemonAssumption DEF ActiveInv
  <2> QED
    BY <1>0, <2>1, <2>3, <2>6, VisitStep DEF VisitFields
<1> QED
  BY <1>1, <1>2, <1>3, <1>4, <1>5, <1>7, <1>8, <1>9

-----------------------------------------------------------------------------
\* The steps of a PUT leave the requests alone.
LEMMA PutStep ==
  ASSUME DaemonInv, KeepVisits, AloneInv', AgreedInv', installed' \in Numbers, routes' \in Numbers \union {0},
         DOMAIN puts' = Numbers, \A n \in Numbers : DOMAIN puts'[n] = {"pc", "alone"}
  PROVE  DaemonInv'
<1> USE DEF DaemonInv
<1>1. daemonWork' = daemonWork /\ visits' = visits /\ active' = active /\ Visitors' = Visitors /\ Numbers' = Numbers
  BY DEF KeepVisits, Visitors, Numbers
<1>2. DaemonShape'
  BY <1>1 DEF DaemonShape
<1>3. VisitInv'
  BY <1>1, VisitKept DEF VisitInv
<1>4. ActiveInv'
  <2>1. RunningVisits' = RunningVisits
    BY <1>1 DEF RunningVisits
  <2> QED
    BY <1>1, <2>1 DEF ActiveInv
<1> QED
  BY <1>2, <1>3, <1>4

\* A PUT moves on and no other does.
LEMMA PutMoves ==
  ASSUME DaemonShape, NEW n \in Numbers, NEW place, PutGoes(n, place)
  PROVE  /\ DOMAIN puts' = Numbers /\ \A m \in Numbers : DOMAIN puts'[m] = {"pc", "alone"}
         /\ puts'[n].pc = place /\ puts'[n].alone = puts[n].alone
         /\ \A m \in Numbers \ {n} : puts'[m] = puts[m]
BY DEF DaemonShape, PutGoes

\* Every step of a PUT keeps the invariant.
LEMMA PutKeeps ==
  ASSUME DaemonInv, NEW n \in Numbers,
         \/ PutSnapshot(n) \/ publishWasip3HostDaemonRoutes(n) \/ PublishFails(n)
         \/ handle_daemon_routes_request(n) \/ PutAnswered(n)
  PROVE  DaemonInv'
<1> USE DEF DaemonInv
<1>0. KeepVisits /\ Numbers' = Numbers /\ installed \in Numbers /\ routes \in Numbers \union {0}
  BY DEF PutSnapshot, publishWasip3HostDaemonRoutes, PublishFails, handle_daemon_routes_request, PutAnswered,
         KeepVisits, Numbers, DaemonShape
<1>1. CASE PutSnapshot(n)
  <2> DEFINE Lone == \A k \in Numbers : ~UnderWay(k)
  <2>1. /\ installed' = n /\ routes' = routes /\ agreed' = FALSE /\ puts[n].pc = "new" /\ ~UnderWay(n)
        /\ puts' = [m \in Numbers |->
                     CASE m = n -> [pc |-> "warming", alone |-> Lone]
                       [] UnderWay(m) -> [puts[m] EXCEPT !.alone = FALSE]
                       [] OTHER -> puts[m]]
    BY <1>1 DEF PutSnapshot, UnderWay
  <2>2. Lone => \A m \in Numbers : ~UnderWay(m)
    OBVIOUS
  <2> HIDE DEF Lone
  <2>3. DOMAIN puts' = Numbers /\ puts'[n] = [pc |-> "warming", alone |-> Lone]
    BY <2>1
  <2>4. ASSUME NEW m \in Numbers \ {n}
        PROVE  /\ puts'[m].pc = puts[m].pc /\ DOMAIN puts'[m] = {"pc", "alone"}
               /\ UnderWay(m) => ~puts'[m].alone
    <3>1. CASE UnderWay(m)
      <4>1. puts'[m] = [puts[m] EXCEPT !.alone = FALSE]
        BY <2>1, <3>1
      <4> QED
        BY <4>1 DEF DaemonShape
    <3>2. CASE ~UnderWay(m)
      <4>1. puts'[m] = puts[m]
        BY <2>1, <3>2
      <4> QED
        BY <3>2, <4>1 DEF DaemonShape
    <3> QED
      BY <3>1, <3>2
  <2>5. DOMAIN puts'[n] = {"pc", "alone"} /\ puts'[n].pc = "warming" /\ (puts'[n].alone <=> Lone)
    BY <2>3
  <2>6. \A m \in Numbers \ {n} : UnderWay(m)' <=> UnderWay(m)
    BY <2>4 DEF UnderWay
  <2>7. AloneInv'
    <3> SUFFICES ASSUME NEW m \in Numbers, UnderWay(m)', puts'[m].alone
                 PROVE  /\ installed' = m
                        /\ \A k \in Numbers \ {m} : ~UnderWay(k)'
                        /\ puts'[m].pc = "replaced" => routes' = m
      BY <1>0 DEF AloneInv
    <3>1. m = n
      BY <2>4, <2>6
    <3> QED
      BY <2>1, <2>2, <2>5, <2>6, <3>1
  <2>8. AgreedInv'
    BY <2>1 DEF AgreedInv
  <2>9. \A m \in Numbers : DOMAIN puts'[m] = {"pc", "alone"}
    BY <2>4, <2>5
  <2> QED
    BY <1>0, <2>1, <2>3, <2>7, <2>8, <2>9, PutStep
<1>2. CASE publishWasip3HostDaemonRoutes(n)
  <2>1. PICK place \in {"sent", "failed"} : PutGoes(n, place)
    BY <1>2 DEF publishWasip3HostDaemonRoutes
  <2>2. puts[n].pc = "warming" /\ installed' = installed /\ routes' = routes /\ agreed' = agreed
    BY <1>2 DEF publishWasip3HostDaemonRoutes
  <2>3. AloneInv' /\ AgreedInv'
    BY <1>0, <2>1, <2>2, PutMoves DEF AloneInv, AgreedInv, UnderWay
  <2> QED
    BY <1>0, <2>1, <2>2, <2>3, PutMoves, PutStep
<1>3. CASE PublishFails(n)
  <2>1. PICK place \in {"lost", "failed"} : PutGoes(n, place)
    BY <1>3 DEF PublishFails
  <2>2. UnderWay(n) /\ installed' = installed /\ routes' = routes /\ agreed' = agreed
    BY <1>3 DEF PublishFails, UnderWay
  <2>3. AloneInv' /\ AgreedInv'
    BY <1>0, <2>1, <2>2, PutMoves DEF AloneInv, AgreedInv, UnderWay
  <2> QED
    BY <1>0, <2>1, <2>2, <2>3, PutMoves, PutStep
<1>4. CASE handle_daemon_routes_request(n)
  <2>1. PICK place \in {"replaced", "failed"} : PutGoes(n, place)
    BY <1>4 DEF handle_daemon_routes_request
  <2>2. UnderWay(n) /\ installed' = installed /\ routes' = n /\ agreed' = agreed
    BY <1>4 DEF handle_daemon_routes_request, UnderWay
  <2>3. AloneInv' /\ AgreedInv'
    BY <1>0, <2>1, <2>2, PutMoves DEF AloneInv, AgreedInv, UnderWay
  <2> QED
    BY <1>0, <2>1, <2>2, <2>3, PutMoves, PutStep
<1>5. CASE PutAnswered(n)
  <2>1. PutGoes(n, "done") /\ puts[n].pc = "replaced" /\ installed' = installed /\ routes' = routes
        /\ agreed' = (agreed \/ puts[n].alone)
    BY <1>5 DEF PutAnswered
  <2>2. UnderWay(n) /\ (agreed => FALSE)
    BY <2>1 DEF UnderWay, AgreedInv
  <2>3. AloneInv'
    BY <1>0, <2>1, <2>2, PutMoves DEF AloneInv, UnderWay
  <2>4. puts[n].alone => routes = installed /\ \A m \in Numbers \ {n} : ~UnderWay(m)
    BY <2>1, <2>2 DEF AloneInv
  <2>5. \A m \in Numbers : ~UnderWay(m) \/ m = n => ~UnderWay(m)'
    BY <2>1, PutMoves DEF UnderWay
  <2>6. AgreedInv'
    BY <1>0, <2>1, <2>2, <2>4, <2>5 DEF AgreedInv
  <2> QED
    BY <1>0, <2>1, <2>3, <2>6, PutMoves, PutStep
<1> QED
  BY <1>1, <1>2, <1>3, <1>4, <1>5

\* A restart of the daemon takes its routes and its running requests, and
\* fails the PUT it was answering.
LEMMA RestartKeeps == DaemonInv /\ DaemonRestarts => DaemonInv'
<1> SUFFICES ASSUME DaemonInv, DaemonRestarts PROVE DaemonInv'
  OBVIOUS
<1> USE DEF DaemonInv
<1>1. /\ daemonWork' = daemonWork /\ installed' = installed /\ routes' = 0 /\ active' = 0 /\ agreed' = FALSE
      /\ Visitors' = Visitors /\ Numbers' = Numbers
  BY DEF DaemonRestarts, Visitors, Numbers
<1>2. /\ DOMAIN visits' = Visitors
      /\ \A v \in Visitors : visits'[v] = IF visits[v].pc \in {"loading", "acquiring", "running"}
                                         THEN [visits[v] EXCEPT !.pc = "answered"] ELSE visits[v]
  BY DEF DaemonRestarts
<1>3. /\ DOMAIN puts' = Numbers
      /\ \A n \in Numbers : puts'[n] = IF puts[n].pc = "replaced" THEN [puts[n] EXCEPT !.pc = "failed"] ELSE puts[n]
  BY DEF DaemonRestarts
<1>4. DaemonShape'
  BY <1>1, <1>2, <1>3 DEF DaemonShape
<1>5. ASSUME NEW v \in Visitors PROVE VisitSound(v)' /\ visits'[v].pc # "running"
  <2>1. VisitSound(v) /\ DOMAIN visits[v] = VisitFields
    BY DEF VisitInv, DaemonShape
  <2>2. CASE visits[v].pc \in {"loading", "acquiring", "running"}
    <3>1. visits'[v].pc = "answered" /\ \A x \in {"found", "at", "table", "target"} : visits'[v][x] = visits[v][x]
      BY <1>2, <2>1, <2>2 DEF VisitFields
    <3> QED
      BY <1>1, <2>1, <3>1 DEF VisitSound, Snap
  <2>3. CASE visits[v].pc \notin {"loading", "acquiring", "running"}
    <3>1. visits'[v] = visits[v]
      BY <1>2, <2>3
    <3> QED
      BY <1>1, <2>1, <2>3, <3>1, VisitKept
  <2> QED
    BY <2>2, <2>3
<1>6. VisitInv'
  BY <1>1, <1>5 DEF VisitInv
<1>7. AloneInv' /\ AgreedInv'
  <2>1. \A n \in Numbers : UnderWay(n)' => puts'[n] = puts[n] /\ UnderWay(n) /\ puts[n].pc # "replaced"
    BY <1>3 DEF UnderWay, DaemonShape
  <2> QED
    BY <1>1, <2>1 DEF AloneInv, AgreedInv
<1>8. ActiveInv'
  <2>1. RunningVisits' = {}
    BY <1>1, <1>5 DEF RunningVisits
  <2> QED
    BY <1>1, <2>1, FS_EmptySet, DaemonAssumption DEF ActiveInv
<1> QED
  BY <1>4, <1>6, <1>7, <1>8

\* The invariant holds in the state a node and its daemon start in.
LEMMA StartIsSound == DaemonInit => DaemonInv
<1> SUFFICES ASSUME DaemonInit PROVE DaemonInv
  OBVIOUS
<1>1. 1 \in Numbers
  <2>1. daemonWork.snaps \in Seq(Seq(RouteRecord)) /\ daemonWork.snaps # <<>>
    BY DaemonAssumption DEF DaemonInit
  <2> QED
    BY <2>1 DEF Numbers
<1>2. DaemonShape
  BY <1>1 DEF DaemonInit, DaemonShape, NewVisit, VisitFields
<1>3. VisitInv
  BY DEF DaemonInit, VisitInv, VisitSound, NewVisit
<1>4. AloneInv /\ AgreedInv
  BY <1>1 DEF DaemonInit, AloneInv, AgreedInv, UnderWay
<1>5. ActiveInv
  <2>1. RunningVisits = {}
    BY DEF DaemonInit, RunningVisits, NewVisit
  <2> QED
    BY <2>1, FS_EmptySet, DaemonAssumption DEF ActiveInv, DaemonInit
<1> QED
  BY <1>2, <1>3, <1>4, <1>5 DEF DaemonInv

\* A step that changes nothing keeps the invariant.
LEMMA DaemonStutters == DaemonInv /\ UNCHANGED daemonVars => DaemonInv'
<1> SUFFICES ASSUME DaemonInv, UNCHANGED daemonVars PROVE DaemonInv'
  OBVIOUS
<1>1. /\ KeepVisits /\ installed' = installed /\ routes' = routes /\ puts' = puts /\ agreed' = agreed
      /\ Numbers' = Numbers
  BY DEF daemonVars, KeepVisits, Numbers
<1>2. AloneInv' /\ AgreedInv'
  BY <1>1 DEF DaemonInv, AloneInv, AgreedInv, UnderWay
<1> QED
  BY <1>1, <1>2, PutStep DEF DaemonInv, DaemonShape

\* The node and its daemon stay in DaemonInv, for every set of snapshots and
\* requests and every limit, whatever PUTs overlap, publications fail and
\* daemons restart (wasip3-host.ts, main.rs).
THEOREM DaemonInvariant == DaemonSpec => []DaemonInv
<1>1. DaemonInv /\ [DaemonNext]_daemonVars => DaemonInv'
  BY PutKeeps, RequestKeeps, RestartKeeps, DaemonStutters DEF DaemonNext
<1> QED
  BY <1>1, StartIsSound, PTL DEF DaemonSpec

\* What the node checked is what the daemon runs (supervisor.ts, main.rs): with
\* one unambiguous snapshot on both sides a request runs the deployment the
\* node prepared, an answered PUT that nothing overlapped leaves both sides
\* with one table, and the limiter never lets too many in.
THEOREM DaemonRunsWhatNodeChecked == DaemonSpec => []DaemonRunsWhatWasChecked
<1>1. DaemonInv => DaemonRunsWhatWasChecked
  BY DEF DaemonInv, VisitInv, VisitSound, AgreedInv, ActiveInv, RunningVisits, DaemonRunsWhatWasChecked
<1> QED
  BY <1>1, DaemonInvariant, PTL

-----------------------------------------------------------------------------
(* The resident service.  What stop, exit and failure promise follows from *)
(* how the serve loop and the worker go together: the mailbox is closed    *)
(* only after the connections have ended (PhaseInv), the stop hook has run *)
(* exactly when the worker is past its loop (StopInv), and the semaphore   *)
(* is never over-committed (PermitInv).                                    *)

\* What is admitted has its connection; none is left when stop.cancel() is called, and none is admitted
\* later; the mailbox is closed only then.
PhaseInv ==
  /\ worker = "starting" <=> serve = "starting"
  /\ serve = "starting" => \A r \in Requests : pc[r] = "idle"
  /\ Stopping => \A r \in Requests : pc[r] \notin Active
  /\ closed => Stopping
  /\ \A r \in Requests : pc[r] \in Active => r \in connections

\* The stop hook is called at most once, on an empty closed mailbox, never
\* after a failed call, and a clean exit follows its success.
StopInv ==
  /\ worker \in {"starting", "idle", "running"} => stops = 0
  /\ worker \in {"stopping", "stopped"} => stops = 1 /\ closed /\ mailbox = <<>>
  /\ stops \in {0, 1}
  /\ poisoned => worker = "failed" /\ stops = 0
  /\ exit = "ok" => serve = "exited" /\ worker = "stopped"
  /\ worker = "aborted" => serve = "exited"

\* The permits handed out.
PermitInv == Cardinality(InFlight) <= MaxConcurrent

ResidentInv == TypeOK /\ PhaseInv /\ StopInv /\ PermitInv

\* The requests that hold a permit are finitely many.
LEMMA InFlightFinite == IsFiniteSet(InFlight) /\ Cardinality(InFlight) \in Nat
<1>1. InFlight \in SUBSET Requests
  BY DEF InFlight
<1>2. IsFiniteSet(Requests)
  BY ServiceAssumption
<1>3. IsFiniteSet(InFlight)
  BY <1>1, <1>2, FS_Subset
<1> QED
  BY <1>3, FS_CardinalityType

\* A step that gives no permit out keeps the semaphore within its limit.
LEMMA NoNewPermit ==
  ASSUME PermitInv, \A r \in Requests : pc'[r] \in Active => pc[r] \in Active
  PROVE  PermitInv'
<1>1. InFlight' \in SUBSET InFlight
  BY DEF InFlight
<1>2. Cardinality(InFlight') <= Cardinality(InFlight)
  BY <1>1, InFlightFinite, FS_Subset
<1>3. IsFiniteSet(InFlight') /\ Cardinality(InFlight') \in Nat
  BY <1>1, InFlightFinite, FS_Subset, FS_CardinalityType
<1> QED
  BY <1>2, <1>3, InFlightFinite, ServiceAssumption DEF PermitInv


\* Every step keeps the shape of the state.
LEMMA NextResidentType == ASSUME TypeOK, [Next]_vars PROVE TypeOK'
<1> USE ServiceAssumption DEF TypeOK, Active, Over, Ended, Deadline, NoCall, MoveTo, workerVars, serveVars
<1>1. CASE StartOk
  BY <1>1 DEF StartOk
<1>2. CASE StartFails
  BY <1>2 DEF StartFails
<1>3. ASSUME NEW r \in Requests, AdmitRequest(r) PROVE TypeOK'
  BY <1>3 DEF AdmitRequest
<1>28. ASSUME NEW r \in Requests, Connect(r) PROVE TypeOK'
  BY <1>28 DEF Connect
<1>29. ASSUME NEW r \in Requests, ConnectionEnds(r) PROVE TypeOK'
  BY <1>29 DEF ConnectionEnds
<1>4. ASSUME NEW r \in Requests, Refuse(r) PROVE TypeOK'
  BY <1>4 DEF Refuse
<1>5. ASSUME NEW r \in Requests, Disconnect(r) PROVE TypeOK'
  BY <1>5 DEF Disconnect
<1>6. ASSUME NEW r \in Requests, Expire(r) PROVE TypeOK'
  BY <1>6 DEF Expire
<1>7. ASSUME NEW r \in Requests, BodyReceived(r) PROVE TypeOK'
  BY <1>7 DEF BodyReceived
<1>8. ASSUME NEW r \in Requests, BodyFails(r) PROVE TypeOK'
  BY <1>8 DEF BodyFails
<1>9. ASSUME NEW r \in Requests, Enqueue(r) PROVE TypeOK'
  BY <1>9 DEF Enqueue
<1>10. ASSUME NEW r \in Requests, SendFails(r) PROVE TypeOK'
  BY <1>10 DEF SendFails
<1>11. ASSUME NEW r \in Requests, GiveUp(r) PROVE TypeOK'
  BY <1>11 DEF GiveUp
<1>12. ASSUME NEW r \in Requests, ReplyDropped(r) PROVE TypeOK'
  BY <1>12 DEF ReplyDropped
<1>13. CASE CloseMailbox
  BY <1>13 DEF CloseMailbox
<1>14. CASE SkipCall
  BY <1>14 DEF SkipCall, Receive
<1>15. CASE RunCall
  BY <1>15 DEF RunCall, Receive
<1>16. CASE HandlerOk
  BY <1>16 DEF HandlerOk
<1>17. CASE HandlerFails
  BY <1>17 DEF HandlerFails
<1>18. CASE WatchdogFires
  BY <1>18 DEF WatchdogFires
<1>19. CASE Rearm
  BY <1>19 DEF Rearm
<1>20. CASE CallStop
  BY <1>20 DEF CallStop
<1>21. CASE StopReturns
  BY <1>21 DEF StopReturns
<1>22. CASE Drain
  BY <1>22 DEF Drain
<1>23. CASE Joined
  BY <1>23 DEF Joined
<1>24. CASE WorkerJoined
  BY <1>24 DEF WorkerJoined
<1>25. CASE ShutdownTimeout
  BY <1>25 DEF ShutdownTimeout
<1>26. CASE Quiet
  BY <1>26 DEF Quiet, vars
<1>27. CASE UNCHANGED vars
  BY <1>27 DEF vars
<1> QED
  BY <1>1, <1>2, <1>3, <1>4, <1>5, <1>6, <1>7, <1>8, <1>9, <1>10, <1>11, <1>12, <1>13, <1>14, <1>15, <1>16, <1>17, <1>18, <1>19, <1>20, <1>21, <1>22, <1>23, <1>24, <1>25, <1>26, <1>27, <1>28, <1>29 DEF Next, RespondInner, WorkerStep

\* Every step keeps the serve loop and the worker in phase.
LEMMA NextPhaseInv == ASSUME TypeOK, PhaseInv, [Next]_vars PROVE PhaseInv'
<1> USE ServiceAssumption DEF PhaseInv, TypeOK, Active, Over, Ended, Stopping, MoveTo, workerVars, serveVars
<1>1. CASE StartOk
  BY <1>1 DEF StartOk
<1>2. CASE StartFails
  BY <1>2 DEF StartFails
<1>3. ASSUME NEW r \in Requests, AdmitRequest(r) PROVE PhaseInv'
  BY <1>3 DEF AdmitRequest
<1>28. ASSUME NEW r \in Requests, Connect(r) PROVE PhaseInv'
  BY <1>28 DEF Connect
<1>29. ASSUME NEW r \in Requests, ConnectionEnds(r) PROVE PhaseInv'
  BY <1>29 DEF ConnectionEnds
<1>4. ASSUME NEW r \in Requests, Refuse(r) PROVE PhaseInv'
  BY <1>4 DEF Refuse
<1>5. ASSUME NEW r \in Requests, Disconnect(r) PROVE PhaseInv'
  BY <1>5 DEF Disconnect
<1>6. ASSUME NEW r \in Requests, Expire(r) PROVE PhaseInv'
  BY <1>6 DEF Expire
<1>7. ASSUME NEW r \in Requests, BodyReceived(r) PROVE PhaseInv'
  BY <1>7 DEF BodyReceived
<1>8. ASSUME NEW r \in Requests, BodyFails(r) PROVE PhaseInv'
  BY <1>8 DEF BodyFails
<1>9. ASSUME NEW r \in Requests, Enqueue(r) PROVE PhaseInv'
  BY <1>9 DEF Enqueue
<1>10. ASSUME NEW r \in Requests, SendFails(r) PROVE PhaseInv'
  BY <1>10 DEF SendFails
<1>11. ASSUME NEW r \in Requests, GiveUp(r) PROVE PhaseInv'
  BY <1>11 DEF GiveUp
<1>12. ASSUME NEW r \in Requests, ReplyDropped(r) PROVE PhaseInv'
  BY <1>12 DEF ReplyDropped
<1>13. CASE CloseMailbox
  BY <1>13 DEF CloseMailbox
<1>14. CASE SkipCall
  BY <1>14 DEF SkipCall, Receive
<1>15. CASE RunCall
  BY <1>15 DEF RunCall, Receive
<1>16. CASE HandlerOk
  BY <1>16 DEF HandlerOk
<1>17. CASE HandlerFails
  BY <1>17 DEF HandlerFails
<1>18. CASE WatchdogFires
  BY <1>18 DEF WatchdogFires
<1>19. CASE Rearm
  BY <1>19 DEF Rearm
<1>20. CASE CallStop
  BY <1>20 DEF CallStop
<1>21. CASE StopReturns
  BY <1>21 DEF StopReturns
<1>22. CASE Drain
  BY <1>22 DEF Drain
<1>23. CASE Joined
  BY <1>23 DEF Joined, InFlight
<1>24. CASE WorkerJoined
  BY <1>24 DEF WorkerJoined
<1>25. CASE ShutdownTimeout
  BY <1>25 DEF ShutdownTimeout
<1>26. CASE Quiet
  BY <1>26 DEF Quiet, vars
<1>27. CASE UNCHANGED vars
  BY <1>27 DEF vars
<1> QED
  BY <1>1, <1>2, <1>3, <1>4, <1>5, <1>6, <1>7, <1>8, <1>9, <1>10, <1>11, <1>12, <1>13, <1>14, <1>15, <1>16, <1>17, <1>18, <1>19, <1>20, <1>21, <1>22, <1>23, <1>24, <1>25, <1>26, <1>27, <1>28, <1>29 DEF Next, RespondInner, WorkerStep

\* Every step keeps the stop hook to its place.
LEMMA NextStopInv == ASSUME TypeOK, PhaseInv, StopInv, [Next]_vars PROVE StopInv'
<1> USE ServiceAssumption DEF StopInv, PhaseInv, TypeOK, Ended, Stopping, MoveTo, workerVars, serveVars
<1>1. CASE StartOk
  BY <1>1 DEF StartOk
<1>2. CASE StartFails
  BY <1>2 DEF StartFails
<1>3. ASSUME NEW r \in Requests, AdmitRequest(r) PROVE StopInv'
  BY <1>3 DEF AdmitRequest
<1>28. ASSUME NEW r \in Requests, Connect(r) PROVE StopInv'
  BY <1>28 DEF Connect
<1>29. ASSUME NEW r \in Requests, ConnectionEnds(r) PROVE StopInv'
  BY <1>29 DEF ConnectionEnds
<1>4. ASSUME NEW r \in Requests, Refuse(r) PROVE StopInv'
  BY <1>4 DEF Refuse
<1>5. ASSUME NEW r \in Requests, Disconnect(r) PROVE StopInv'
  BY <1>5 DEF Disconnect
<1>6. ASSUME NEW r \in Requests, Expire(r) PROVE StopInv'
  BY <1>6 DEF Expire
<1>7. ASSUME NEW r \in Requests, BodyReceived(r) PROVE StopInv'
  BY <1>7 DEF BodyReceived
<1>8. ASSUME NEW r \in Requests, BodyFails(r) PROVE StopInv'
  BY <1>8 DEF BodyFails
<1>9. ASSUME NEW r \in Requests, Enqueue(r) PROVE StopInv'
  BY <1>9 DEF Enqueue
<1>10. ASSUME NEW r \in Requests, SendFails(r) PROVE StopInv'
  BY <1>10 DEF SendFails
<1>11. ASSUME NEW r \in Requests, GiveUp(r) PROVE StopInv'
  BY <1>11 DEF GiveUp
<1>12. ASSUME NEW r \in Requests, ReplyDropped(r) PROVE StopInv'
  BY <1>12 DEF ReplyDropped
<1>13. CASE CloseMailbox
  BY <1>13 DEF CloseMailbox
<1>14. CASE SkipCall
  BY <1>14 DEF SkipCall, Receive
<1>15. CASE RunCall
  BY <1>15 DEF RunCall, Receive
<1>16. CASE HandlerOk
  BY <1>16 DEF HandlerOk
<1>17. CASE HandlerFails
  BY <1>17 DEF HandlerFails
<1>18. CASE WatchdogFires
  BY <1>18 DEF WatchdogFires
<1>19. CASE Rearm
  BY <1>19 DEF Rearm
<1>20. CASE CallStop
  BY <1>20 DEF CallStop
<1>21. CASE StopReturns
  BY <1>21 DEF StopReturns
<1>22. CASE Drain
  BY <1>22 DEF Drain
<1>23. CASE Joined
  BY <1>23 DEF Joined
<1>24. CASE WorkerJoined
  BY <1>24 DEF WorkerJoined
<1>25. CASE ShutdownTimeout
  BY <1>25 DEF ShutdownTimeout
<1>26. CASE Quiet
  BY <1>26 DEF Quiet, vars
<1>27. CASE UNCHANGED vars
  BY <1>27 DEF vars
<1> QED
  BY <1>1, <1>2, <1>3, <1>4, <1>5, <1>6, <1>7, <1>8, <1>9, <1>10, <1>11, <1>12, <1>13, <1>14, <1>15, <1>16, <1>17, <1>18, <1>19, <1>20, <1>21, <1>22, <1>23, <1>24, <1>25, <1>26, <1>27, <1>28, <1>29 DEF Next, RespondInner, WorkerStep

\* Every step keeps the semaphore within its limit: only AdmitRequest hands a permit out.
LEMMA NextPermitInv == ASSUME TypeOK, PermitInv, [Next]_vars PROVE PermitInv'
<1>1. ASSUME NEW r \in Requests, AdmitRequest(r) PROVE PermitInv'
  <2>1. InFlight' = InFlight \cup {r}
    BY <1>1 DEF AdmitRequest, MoveTo, InFlight, Active, TypeOK
  <2>2. r \notin InFlight /\ Cardinality(InFlight) < MaxConcurrent
    BY <1>1 DEF AdmitRequest, InFlight, Active
  <2>3. Cardinality(InFlight') = Cardinality(InFlight) + 1
    BY <2>1, <2>2, InFlightFinite, FS_AddElement
  <2> QED
    BY <2>2, <2>3, InFlightFinite, ServiceAssumption DEF PermitInv
<1>2. ASSUME NEW r \in Requests,
             Connect(r) \/ ConnectionEnds(r) \/ Refuse(r) \/ Disconnect(r) \/ Expire(r)
      PROVE  PermitInv'
  <2>1. \A s \in Requests : pc'[s] \in Active => pc[s] \in Active
    BY <1>2 DEF Connect, ConnectionEnds, Refuse, Disconnect, Expire, MoveTo, Active, TypeOK
  <2> QED
    BY <2>1, NoNewPermit
<1>3. ASSUME NEW r \in Requests,
             BodyReceived(r) \/ BodyFails(r) \/ Enqueue(r) \/ SendFails(r) \/ GiveUp(r) \/ ReplyDropped(r)
      PROVE  PermitInv'
  <2>1. \A s \in Requests : pc'[s] \in Active => pc[s] \in Active
    BY <1>3 DEF BodyReceived, BodyFails, Enqueue, SendFails, GiveUp, ReplyDropped, MoveTo, Active, TypeOK
  <2> QED
    BY <2>1, NoNewPermit
<1>4. CASE SkipCall \/ RunCall \/ HandlerOk \/ HandlerFails
  <2>1. \A s \in Requests : pc'[s] \in Active => pc[s] \in Active
    BY <1>4 DEF SkipCall, RunCall, HandlerOk, HandlerFails, Receive, MoveTo, Active, TypeOK, workerVars, vars
  <2> QED
    BY <2>1, NoNewPermit
<1>5. CASE StartOk \/ StartFails \/ CloseMailbox \/ WatchdogFires \/ Rearm \/ CallStop \/ StopReturns
  <2>1. \A s \in Requests : pc'[s] \in Active => pc[s] \in Active
    BY <1>5 DEF StartOk, StartFails, CloseMailbox, WatchdogFires, Rearm, CallStop, StopReturns, MoveTo, Active, TypeOK, workerVars, vars
  <2> QED
    BY <2>1, NoNewPermit
<1>6. CASE Drain \/ Joined \/ WorkerJoined \/ ShutdownTimeout \/ Quiet
  <2>1. \A s \in Requests : pc'[s] \in Active => pc[s] \in Active
    BY <1>6 DEF Drain, Joined, WorkerJoined, ShutdownTimeout, Quiet, MoveTo, Active, TypeOK, workerVars, vars
  <2> QED
    BY <2>1, NoNewPermit
<1>7. CASE UNCHANGED vars
  <2>1. \A s \in Requests : pc'[s] \in Active => pc[s] \in Active
    BY <1>7 DEF MoveTo, Active, TypeOK, workerVars, vars
  <2> QED
    BY <2>1, NoNewPermit
<1> QED
  BY <1>1, <1>2, <1>3, <1>4, <1>5, <1>6, <1>7 DEF Next, RespondInner, WorkerStep

-----------------------------------------------------------------------------
\* The invariant holds when the service starts.
LEMMA InitResidentInv == Init => ResidentInv
<1> SUFFICES ASSUME Init PROVE ResidentInv
  OBVIOUS
<1>1. mailbox \in Seq(Requests) /\ Len(mailbox) = 0
  BY DEF Init
<1>2. TypeOK
  <2>1. pc \in [Requests -> {"idle"} \cup Active \cup Over] /\ connections \subseteq Requests
    BY DEF Init
  <2>2. Len(mailbox) <= MaxConcurrent
    BY <1>1, ServiceAssumption
  <2>3. worker # "running" /\ current \notin Requests
    BY ServiceAssumption DEF Init
  <2> QED
    BY <1>1, <2>1, <2>2, <2>3 DEF Init, TypeOK
<1>3. PhaseInv
  BY DEF Init, PhaseInv, Stopping, Active
<1>4. StopInv
  BY DEF Init, StopInv
<1>5. PermitInv
  <2>1. InFlight = {}
    BY DEF Init, InFlight, Active
  <2> QED
    BY <2>1, FS_EmptySet, ServiceAssumption DEF PermitInv
<1> QED
  BY <1>2, <1>3, <1>4, <1>5 DEF ResidentInv

\* ResidentInv is an invariant of the service.
LEMMA ResidentInvariant == Spec => []ResidentInv
<1>1. Init => ResidentInv
  BY InitResidentInv
<1>2. ResidentInv /\ [Next]_vars => ResidentInv'
  BY NextResidentType, NextPhaseInv, NextStopInv, NextPermitInv DEF ResidentInv
<1> QED
  BY <1>1, <1>2, PTL DEF Spec

\* The state of service.rs keeps its shape: a guest call is running exactly
\* while the worker is in a handler and the mailbox is within its capacity.
THEOREM ResidentTypeCorrect == Spec => []TypeOK
<1>1. ResidentInv => TypeOK
  BY DEF ResidentInv
<1> QED
  BY <1>1, ResidentInvariant, PTL

\* The stop hook runs at most once, with no request received, queued or
\* unanswered, and never on a Store in which a call failed; serve() returns Ok
\* only after it succeeded.
THEOREM StopIsOrderly == Spec => []OrderlyStop
<1>1. ResidentInv => StopAfterDrain
  BY DEF ResidentInv, TypeOK, PhaseInv, StopInv, StopAfterDrain, InFlight
<1>2. ResidentInv => NoStopAfterFailure
  BY DEF ResidentInv, StopInv, NoStopAfterFailure
<1>3. ResidentInv => CleanExit
  BY DEF ResidentInv, PhaseInv, StopInv, CleanExit, Stopping, InFlight
<1>4. ResidentInv => OrderlyStop
  BY <1>1, <1>2, <1>3 DEF OrderlyStop
<1> QED
  BY <1>4, ResidentInvariant, PTL

\* Besides the request it executes the service holds at most twice the limit,
\* whatever clients do.
THEOREM WorkIsBounded == Spec => []WorkBounded
<1>1. ResidentInv => WorkBounded
  <2> SUFFICES ASSUME ResidentInv PROVE WorkBounded
    OBVIOUS
  <2> DEFINE m == Len(mailbox)
  <2>1. m \in Nat /\ m <= MaxConcurrent /\ MaxConcurrent \in Nat /\ DOMAIN mailbox = 1..m
    BY ServiceAssumption DEF ResidentInv, TypeOK
  <2>2. IsFiniteSet(Queued) /\ Cardinality(Queued) \in Nat /\ Cardinality(Queued) <= m
    <3> DEFINE f == [i \in 1..m |-> mailbox[i]]
    <3>1. f \in Surjection(1..m, Queued)
      BY <2>1 DEF Surjection, Queued
    <3>2. IsFiniteSet(1..m) /\ Cardinality(1..m) = m
      <4>1. 1 \in Int /\ m \in Int
        BY <2>1
      <4>2. IsFiniteSet(1..m) /\ Cardinality(1..m) = IF 1 > m THEN 0 ELSE m - 1 + 1
        BY <4>1, FS_Interval
      <4> QED
        BY <2>1, <4>2
    <3>3. IsFiniteSet(Queued) /\ Cardinality(Queued) <= Cardinality(1..m)
      BY <3>1, <3>2, FS_Surjection
    <3> QED
      BY <3>2, <3>3, FS_CardinalityType
  <2>3. IsFiniteSet(Receiving) /\ Cardinality(Receiving) \in Nat /\ Cardinality(Receiving) <= MaxConcurrent
    <3>1. Receiving \in SUBSET InFlight
      BY DEF Receiving, InFlight, Active
    <3>2. IsFiniteSet(Receiving) /\ Cardinality(Receiving) <= Cardinality(InFlight)
      BY <3>1, InFlightFinite, FS_Subset
    <3>3. Cardinality(Receiving) \in Nat
      BY <3>2, FS_CardinalityType
    <3> QED
      BY <2>1, <3>2, <3>3, InFlightFinite DEF ResidentInv, PermitInv
  <2>4. /\ Cardinality(Queued \cup Receiving)
             = Cardinality(Queued) + Cardinality(Receiving) - Cardinality(Queued \cap Receiving)
        /\ Cardinality(Queued \cap Receiving) \in Nat
        /\ Cardinality(Queued \cup Receiving) \in Nat
    BY <2>2, <2>3, FS_Union, FS_Intersection, FS_CardinalityType
  <2> HIDE DEF m
  <2>5. Cardinality(Queued \cup Receiving) <= 2 * MaxConcurrent
    BY <2>1, <2>2, <2>3, <2>4
  <2> QED
    BY <2>5 DEF WorkBounded
<1> QED
  BY <1>1, ResidentInvariant, PTL

\* An admitted request fails only because of its own deadline or with the
\* whole generation, whatever the drain, the stop hook and other clients do.
THEOREM FailuresAreCaused == Spec => FailuresHaveCause
<1> DEFINE Caused == \A r \in Requests :
                       pc[r] \in Active /\ pc'[r] \in {"500", "503"} => r \in expired \/ worker' = "failed"
<1>1. ASSUME ResidentInv, [Next]_vars PROVE Caused
  <2> USE <1>1 DEF ResidentInv, TypeOK, Active, MoveTo, workerVars, serveVars
  <2>1. ASSUME NEW r \in Requests, Connect(r) \/ ConnectionEnds(r) \/ AdmitRequest(r) \/ Refuse(r) \/ Disconnect(r) \/ Expire(r)
        PROVE  Caused
    BY <2>1 DEF Connect, ConnectionEnds, AdmitRequest, Refuse, Disconnect, Expire
  <2>2. ASSUME NEW r \in Requests, BodyReceived(r) \/ BodyFails(r) \/ Enqueue(r) \/ GiveUp(r)
        PROVE  Caused
    BY <2>2 DEF BodyReceived, BodyFails, Enqueue, GiveUp
  <2>3. ASSUME NEW r \in Requests, SendFails(r) \/ ReplyDropped(r)
        PROVE  Caused
    <3>1. pc[r] \in Active /\ worker' = worker /\ \A s \in Requests : s # r => pc'[s] = pc[s]
      BY <2>3 DEF SendFails, ReplyDropped
    <3>2. ~closed /\ serve # "exited"
      BY <3>1 DEF PhaseInv, Stopping
    <3>3. worker \notin {"stopped", "aborted"}
      BY <3>2 DEF StopInv
    <3> QED
      BY <2>3, <3>1, <3>2, <3>3 DEF SendFails, ReplyDropped, Ended
  <2>4. CASE SkipCall
    BY <2>4 DEF SkipCall, Receive
  <2>5. CASE HandlerOk \/ HandlerFails
    BY <2>5 DEF HandlerOk, HandlerFails
  <2>6. CASE WorkerStep /\ ~SkipCall /\ ~HandlerOk /\ ~HandlerFails
    BY <2>6 DEF WorkerStep, CloseMailbox, RunCall, Receive, WatchdogFires, Rearm, CallStop, StopReturns
  <2>7. CASE StartOk \/ StartFails \/ Drain \/ Joined \/ WorkerJoined \/ ShutdownTimeout \/ Quiet \/ UNCHANGED vars
    BY <2>7 DEF StartOk, StartFails, Drain, Joined, WorkerJoined, ShutdownTimeout, Quiet, vars
  <2> QED
    BY <1>1, <2>1, <2>2, <2>3, <2>4, <2>5, <2>6, <2>7 DEF Next, RespondInner
<1>2. ResidentInv /\ [Next]_vars => [Caused]_vars
  BY <1>1
<1> QED
  BY <1>2, ResidentInvariant, PTL DEF Spec, FailuresHaveCause

-----------------------------------------------------------------------------
(* Volume databases and durable objects.  The invariant has three parts.   *)
(* VolumeInv: the operations of a database form a chain in the order they  *)
(* came, of which at most one runs and which the remembered queue ends and *)
(* counts; and the file holds what the callers were told, a transaction    *)
(* under way having read all of it.  AlarmInv: the file keeps the alarm    *)
(* that the callers set, but for the races of the dispatcher, whose own    *)
(* deletion is the only one that may be waiting.  BackupInv stands beside  *)
(* them: a backup whose file is not its own any more is one that the       *)
(* retention does not keep, and never will again.                          *)

\* The states of an operation in the queue of a database.

JobStates == {"queued", "running", "done", "failed", "lost"}

OpRecord == [kind : {"put", "transaction", "setAlarm", "getAlarm", "deleteAlarm"}, arg : Nat]

HeldRecord == [log : Seq(Nat), alarm : Nat]

JobRecord == [db : VolumeDbs, op : OpRecord, after : Nat, st : JobStates,
              alive : BOOLEAN, local : Seq(Nat), out : Seq(Nat)]

FileRecord == [log : Seq(Nat), alarm : Nat, version : Int, ok : BOOLEAN]

CatalogRow == [schema : Int]

QueueRecord == [tail : Nat, active : BOOLEAN, pending : Nat]

\* The catalog, the files, the pool, the queues, the operations and the backups keep their shapes.
VolumeShape ==
  /\ DOMAIN catalog \subseteq VolumeDbs /\ catalog \in [DOMAIN catalog -> CatalogRow]
  /\ DOMAIN catalog \subseteq DOMAIN dbFiles
  /\ DOMAIN dbFiles \subseteq VolumeDbs /\ dbFiles \in [DOMAIN dbFiles -> FileRecord]
  /\ DOMAIN wq \subseteq VolumeDbs /\ wq \in [DOMAIN wq -> QueueRecord]
  /\ pool \in Seq(VolumeDbs) /\ Len(pool) <= MaxOpen
  /\ jobs \in Seq(JobRecord)
  /\ kept \in [VolumeDbs -> HeldRecord]

\* The operations of a database, and those of them that wait or run.
Mine(d) == {j \in DOMAIN jobs : jobs[j].db = d}
Live(d) == {j \in Mine(d) : jobs[j].st \in {"queued", "running"}}

\* Operations of a database begin in the order they came ...
InOrder(d) == \A i \in Live(d), j \in Mine(d) : jobs[j].st # "queued" => i >= j
\* ... since each one waits for the one that came before it, which was the tail.
Chained(d) == \A i, j \in Live(d) : i < j => jobs[j].after \in Mine(d) /\ jobs[j].after >= i
\* A queue that is remembered has its tail, and something that waits or runs.
TailIsLast(d) ==
  d \in DOMAIN wq => wq[d].tail \in Mine(d) /\ (\A j \in Mine(d) : j <= wq[d].tail) /\ wq[d].pending > 0
\* The count of a queue is that of its operations.
Counts(d) == Waiting(d) = Cardinality(Live(d)) /\ Waiting(d) <= MaxPending

QueueOf(d) == InOrder(d) /\ Chained(d) /\ TailIsLast(d) /\ Counts(d)

QueueInv == \A d \in VolumeDbs : QueueOf(d)

\* A database holds what its callers were told.
HoldsLog(d) == FileOf(d).ok => FileOf(d).log = kept[d].log
\* What a transaction read is still what the file holds, until its handle is closed.
RunsOnFile(j) ==
  jobs[j].st = "running" =>
    /\ jobs[j].op.kind = "transaction"
    /\ jobs[j].alive => /\ jobs[j].db \in DOMAIN dbFiles /\ FileOf(jobs[j].db).ok
                        /\ jobs[j].local = FileOf(jobs[j].db).log

LogInv ==
  /\ \A d \in VolumeDbs : HoldsLog(d)
  /\ \A j \in DOMAIN jobs : RunsOnFile(j)

VolumeInv == VolumeShape /\ QueueInv /\ LogInv

DispatcherSteps == {"idle", "list", "listing", "handle", "get", "check", "clear"}

DispatcherShape ==
  /\ dsp \in [pc : DispatcherSteps, runs : Nat, now : Nat, todo : SUBSET VolumeDbs,
              due : SUBSET (VolumeDbs \X AlarmTimes), job : Nat, cur : {<<>>} \union (VolumeDbs \X AlarmTimes)]
  /\ dsp.pc \in {"get", "check", "clear"} => dsp.cur \in VolumeDbs \X AlarmTimes
  /\ dsp.pc \in {"listing", "check", "clear"} => dsp.job \in DOMAIN jobs

\* A deletion by the dispatcher.
Clears(j) == jobs[j].op.kind = "deleteAlarm" /\ jobs[j].op.arg # 0

\* The dispatcher's deletion deleted the alarm that the database d was to keep, and it has yet to notice.
Cleared(d) ==
  /\ dsp.pc = "clear" /\ dsp.cur[1] = d
  /\ jobs[dsp.job].st = "done" /\ jobs[dsp.job].out = <<kept[d].alarm>>

\* A deletion that waits is the one that the dispatcher waits for.
ClearsForDispatcher(j) ==
  jobs[j].st = "queued" /\ Clears(j) => dsp.pc = "clear" /\ dsp.job = j /\ dsp.cur = <<jobs[j].db, jobs[j].op.arg>>

HoldsAlarm(d) ==
  FileOf(d).ok /\ kept[d].alarm # 0 => FileOf(d).alarm = kept[d].alarm \/ d \in raced \/ Cleared(d)

AlarmInv ==
  /\ DispatcherShape
  /\ volTime \in Nat /\ called \in Nat /\ script \in VolumeScripts
  /\ \A j \in DOMAIN jobs : ClearsForDispatcher(j)
  /\ \A d \in VolumeDbs : HoldsAlarm(d)

ObjectInv == VolumeInv /\ AlarmInv

\* A backup that the retention does not keep.
Beyond(rows, b) ==
  \/ KeepLatest >= 0 /\ rankOf(rows, b) >= KeepLatest
  \/ KeepLatest < 0 /\ RetentionMs >= 0 /\ backupCreatedBefore(rows[b], volTime - RetentionMs)

\* The file of a backup is what was exported.
HasFile(rows, dir, b) ==
  b \in DOMAIN dir /\ dir[b].file = rows[b].file /\ dir[b].seal = rows[b].seal

\* Every file is that of a database, and every row that the retention keeps has its own.
BackupsKept(rows, dir) ==
  /\ IsFiniteSet(DOMAIN rows) /\ DOMAIN rows \subseteq Nat
  /\ \A b \in DOMAIN dir : dir[b].file \in FileRecord /\ dir[b].file.ok
  /\ \A b \in DOMAIN rows : rows[b].db \in VolumeDbs /\ rows[b].created \in Int
  /\ \A b \in DOMAIN rows : HasFile(rows, dir, b) \/ Beyond(rows, b)

BackupInv == BackupsKept(backups, backupDir)

\* a may be b with its handle closed.
Same(a, b) ==
  /\ a \in JobRecord /\ a.db = b.db /\ a.op = b.op /\ a.after = b.after /\ a.st = b.st
  /\ a.local = b.local /\ a.out = b.out
  /\ a.alive => b.alive

\* Some handles were closed, and nothing else was done to the operations.
Closes(js) ==
  /\ js \in Seq(JobRecord) /\ Len(js) = Len(jobs) /\ DOMAIN js = DOMAIN jobs
  /\ \A j \in DOMAIN jobs : Same(js[j], jobs[j])

\* Operations are numbered, and have their shape.
LEMMA JobsShape ==
  ASSUME jobs \in Seq(JobRecord)
  PROVE  /\ DOMAIN jobs = 1..Len(jobs) /\ Len(jobs) \in Nat /\ IsFiniteSet(DOMAIN jobs)
         /\ \A j \in DOMAIN jobs : jobs[j] \in JobRecord /\ jobs[j].db \in VolumeDbs /\ jobs[j].st \in JobStates
<1>1. DOMAIN jobs = 1..Len(jobs) /\ Len(jobs) \in Nat /\ \A j \in DOMAIN jobs : jobs[j] \in JobRecord
  OBVIOUS
<1>2. IsFiniteSet(1..Len(jobs))
  BY <1>1, FS_Interval
<1> QED
  BY <1>1, <1>2 DEF JobRecord

\* close() of a handle, at an eviction, a restore or closeAll(), stops the operations under way on it.
LEMMA CutCloses ==
  ASSUME jobs \in Seq(JobRecord), NEW shut
  PROVE  /\ Closes(Cut(jobs, shut))
         /\ \A j \in DOMAIN jobs : jobs[j].st = "running" /\ jobs[j].db \in shut => ~Cut(jobs, shut)[j].alive
<1> DEFINE js == Cut(jobs, shut)
<1>1. DOMAIN jobs = 1..Len(jobs) /\ Len(jobs) \in Nat /\ \A j \in DOMAIN jobs : jobs[j] \in JobRecord
  BY JobsShape
<1>2. js = [j \in 1..Len(jobs) |-> js[j]]
  BY <1>1 DEF Cut
<1>3. ASSUME NEW j \in DOMAIN jobs
      PROVE  /\ js[j] \in JobRecord /\ Same(js[j], jobs[j])
             /\ jobs[j].st = "running" /\ jobs[j].db \in shut => ~js[j].alive
  <2>1. jobs[j] \in JobRecord
    BY <1>1
  <2>2. js[j] = IF jobs[j].st = "running" /\ jobs[j].db \in shut THEN [jobs[j] EXCEPT !.alive = FALSE] ELSE jobs[j]
    BY DEF Cut
  <2> HIDE DEF js
  <2> QED
    BY <2>1, <2>2 DEF JobRecord, Same
<1> HIDE DEF js
<1>4. js \in Seq(JobRecord) /\ Len(js) = Len(jobs) /\ DOMAIN js = DOMAIN jobs
  <2>1. js \in [1..Len(jobs) -> JobRecord]
    BY <1>1, <1>2, <1>3
  <2> QED
    BY <1>1, <2>1
<1> QED
  BY <1>3, <1>4 DEF Closes, js

\* Operations that stay as they are.
LEMMA NoneCloses == ASSUME jobs \in Seq(JobRecord) PROVE Closes(jobs)
BY DEF Closes, Same

\* What waits or runs is counted.
LEMMA LiveIsFinite ==
  ASSUME jobs \in Seq(JobRecord), NEW d
  PROVE  Live(d) \in SUBSET DOMAIN jobs /\ IsFiniteSet(Live(d)) /\ Cardinality(Live(d)) \in Nat
<1>1. Live(d) \in SUBSET DOMAIN jobs
  BY DEF Live, Mine
<1> QED
  BY <1>1, JobsShape, FS_Subset, FS_CardinalityType

\* The row of a queue stays, but for what is not about its order.
QueueRowStays(d) ==
  /\ d \in DOMAIN wq' <=> d \in DOMAIN wq
  /\ d \in DOMAIN wq => wq'[d].tail = wq[d].tail /\ wq'[d].pending = wq[d].pending

\* A queue depends on nothing of its operations but their order and their states.
LEMMA QueueStays ==
  ASSUME NEW d, QueueOf(d), QueueRowStays(d), Mine(d)' = Mine(d),
         \A j \in Mine(d) : jobs'[j].after = jobs[j].after /\ jobs'[j].st = jobs[j].st
  PROVE  QueueOf(d)'
<1>1. Live(d)' = Live(d) /\ \A i \in Live(d) : i \in Mine(d)
  BY DEF Live
<1>2. Waiting(d)' = Waiting(d)
  BY DEF Waiting, QueueRowStays
<1>3. InOrder(d)'
  BY <1>1 DEF QueueOf, InOrder
<1>4. Chained(d)'
  BY <1>1 DEF QueueOf, Chained
<1>5. TailIsLast(d)'
  BY DEF QueueOf, TailIsLast, QueueRowStays
<1>6. Counts(d)'
  BY <1>1, <1>2 DEF QueueOf, Counts
<1> QED
  BY <1>3, <1>4, <1>5, <1>6 DEF QueueOf

\* An operation joins the end of its queue: enqueue().
LEMMA QueueGrows ==
  ASSUME jobs \in Seq(JobRecord), wq \in [DOMAIN wq -> QueueRecord], DOMAIN wq \subseteq VolumeDbs, QueueInv,
         NEW js, Closes(js), NEW d \in VolumeDbs, NEW op \in OpRecord,
         ~QueueFull(d), enqueue(js, d, op)
  PROVE  /\ QueueInv' /\ DOMAIN wq' \subseteq VolumeDbs /\ wq' \in [DOMAIN wq' -> QueueRecord]
         /\ jobs' \in Seq(JobRecord) /\ Len(jobs') = Len(jobs) + 1
         /\ DOMAIN jobs' = DOMAIN jobs \union {Len(jobs) + 1} /\ Len(jobs) + 1 \notin DOMAIN jobs
         /\ \A j \in DOMAIN jobs : jobs'[j] = js[j]
         /\ jobs'[Len(jobs) + 1].db = d /\ jobs'[Len(jobs) + 1].op = op /\ jobs'[Len(jobs) + 1].st = "queued"
<1> DEFINE tail == stateFor(d).tail
           new == [db |-> d, op |-> op, after |-> tail, st |-> "queued", alive |-> TRUE, local |-> <<>>, out |-> <<>>]
<1> USE DEF QueueRecord
<1>1. DOMAIN jobs = 1..Len(jobs) /\ Len(jobs) \in Nat
  BY JobsShape
<1> DEFINE n == Len(jobs) + 1
<1>2. stateFor(d) \in QueueRecord /\ stateFor(d).pending = Waiting(d)
  BY DEF stateFor, Waiting
<1>3. new \in JobRecord
  BY <1>2 DEF JobRecord, JobStates
<1>4. js \in Seq(JobRecord) /\ Len(js) = Len(jobs) /\ DOMAIN js = DOMAIN jobs
      /\ \A j \in DOMAIN jobs : Same(js[j], jobs[j])
  BY DEF Closes
<1> DEFINE row == [stateFor(d) EXCEPT !.tail = n, !.pending = @ + 1]
<1>5. jobs' = Append(js, new) /\ wq' = With(wq, d, row)
  BY <1>4 DEF enqueue
<1>6. wq' = [e \in DOMAIN wq \union {d} |-> IF e = d THEN row ELSE wq[e]]
  BY <1>5 DEF With
<1>7. row \in QueueRecord /\ row.tail = n /\ row.pending = Waiting(d) + 1
  <2>1. ASSUME NEW q \in QueueRecord, NEW m \in Nat, NEW r, r = [q EXCEPT !.tail = m, !.pending = @ + 1]
        PROVE  r \in QueueRecord /\ r.tail = m /\ r.pending = q.pending + 1
    <3>1. q = [tail |-> q.tail, active |-> q.active, pending |-> q.pending]
      OBVIOUS
    <3>2. r = [tail |-> m, active |-> q.active, pending |-> q.pending + 1]
      BY <2>1, <3>1
    <3> QED
      BY <3>2
  <2>2. n \in Nat
    BY <1>1
  <2> HIDE DEF n
  <2> QED
    BY <1>2, <2>1, <2>2 DEF row
<1> HIDE DEF new, row
<1>8. /\ jobs' \in Seq(JobRecord) /\ Len(jobs') = n /\ DOMAIN jobs' = DOMAIN jobs \union {n} /\ n \notin DOMAIN jobs
      /\ \A j \in DOMAIN jobs : jobs'[j] = js[j]
      /\ jobs'[n] = new
  BY <1>1, <1>3, <1>4, <1>5
<1>9. \A j \in DOMAIN jobs : jobs'[j].db = jobs[j].db /\ jobs'[j].after = jobs[j].after /\ jobs'[j].st = jobs[j].st
  BY <1>4, <1>8 DEF Same
<1>10. jobs'[n].db = d /\ jobs'[n].after = tail /\ jobs'[n].st = "queued" /\ jobs'[n].op = op
  BY <1>8 DEF new
<1> HIDE DEF tail
<1>11. Mine(d)' = Mine(d) \union {n} /\ n \notin Mine(d) /\ \A i \in Mine(d) : i \in Nat /\ i < n
  BY <1>1, <1>8, <1>9, <1>10 DEF Mine
<1>12. Live(d)' = Live(d) \union {n} /\ n \notin Live(d) /\ \A i \in Live(d) : i \in Mine(d)
  BY <1>9, <1>10, <1>11 DEF Live, Mine
<1>13. Waiting(d)' = Waiting(d) + 1 /\ Waiting(d) \in Nat
  BY <1>2, <1>6, <1>7 DEF Waiting
<1>14. InOrder(d)'
  <2>1. ASSUME NEW i \in Live(d)', NEW j \in Mine(d)', jobs'[j].st # "queued" PROVE i >= j
    <3>1. j \in Mine(d) /\ jobs[j].st # "queued"
      BY <1>9, <1>10, <1>11, <2>1 DEF Mine
    <3>2. CASE i = n
      BY <1>1, <1>11, <3>1, <3>2
    <3>3. CASE i # n
      BY <1>12, <3>1, <3>3 DEF QueueInv, QueueOf, InOrder
    <3> QED
      BY <3>2, <3>3
  <2> QED
    BY <2>1 DEF InOrder
<1>15. Chained(d)'
  <2>1. ASSUME NEW i \in Live(d)', NEW j \in Live(d)', i < j
        PROVE  jobs'[j].after \in Mine(d)' /\ jobs'[j].after >= i
    <3>1. i \in Live(d) /\ i \in Mine(d)
      BY <1>1, <1>11, <1>12, <2>1
    <3>2. CASE j = n
      <4>1. d \in DOMAIN wq
        <5>1. Cardinality(Live(d)) # 0
          BY <3>1, LiveIsFinite, FS_EmptySet
        <5> QED
          BY <5>1 DEF QueueInv, QueueOf, Counts, Waiting
      <4>2. tail = wq[d].tail
        BY <4>1 DEF stateFor, tail
      <4> QED
        BY <1>10, <1>11, <3>1, <3>2, <4>1, <4>2 DEF QueueInv, QueueOf, TailIsLast
    <3>3. CASE j # n
      <4>1. j \in Live(d) /\ j \in DOMAIN jobs
        BY <1>12, <3>3 DEF Mine
      <4> QED
        BY <1>9, <1>11, <2>1, <3>1, <4>1 DEF QueueInv, QueueOf, Chained
    <3> QED
      BY <3>2, <3>3
  <2> QED
    BY <2>1 DEF Chained
<1>16. TailIsLast(d)'
  <2>1. wq'[d].tail = n /\ wq'[d].pending = Waiting(d) + 1
    BY <1>6, <1>7
  <2>2. n \in Mine(d)' /\ \A j \in Mine(d)' : j <= n
    BY <1>1, <1>11
  <2> QED
    BY <1>13, <2>1, <2>2 DEF TailIsLast
<1>17. Counts(d)'
  <2>1. Cardinality(Live(d) \union {n}) = Cardinality(Live(d)) + 1
    BY <1>12, LiveIsFinite, FS_AddElement
  <2>2. Waiting(d) < MaxPending
    BY <1>13, VolumeAssumption DEF QueueFull
  <2>3. Waiting(d) = Cardinality(Live(d))
    BY DEF QueueInv, QueueOf, Counts
  <2> QED
    BY <1>12, <1>13, <2>1, <2>2, <2>3, VolumeAssumption DEF Counts
<1>18. ASSUME NEW e \in VolumeDbs, e # d PROVE QueueOf(e)'
  <2>1. Mine(e)' = Mine(e) /\ \A j \in Mine(e) : j \in DOMAIN jobs
    BY <1>8, <1>9, <1>10, <1>18 DEF Mine
  <2>2. QueueRowStays(e)
    BY <1>6, <1>18 DEF QueueRowStays
  <2> QED
    BY <1>9, <2>1, <2>2, QueueStays DEF QueueInv
<1>19. QueueInv'
  BY <1>14, <1>15, <1>16, <1>17, <1>18 DEF QueueInv, QueueOf
<1>20. DOMAIN wq' \subseteq VolumeDbs /\ wq' \in [DOMAIN wq' -> QueueRecord]
  BY <1>6, <1>7
<1> QED
  BY <1>8, <1>10, <1>19, <1>20

\* The operation that is first in its queue.
First(j, d) == j \in Live(d) /\ \A i \in Live(d) : i >= j

\* The operation that a queue lets begin is the first one: it waited for the one before it to end.
LEMMA ReadyIsFirst ==
  ASSUME jobs \in Seq(JobRecord), QueueInv, NEW j \in DOMAIN jobs, Ready(j)
  PROVE  First(j, jobs[j].db)
<1> DEFINE d == jobs[j].db
<1>1. DOMAIN jobs = 1..Len(jobs) /\ Len(jobs) \in Nat /\ d \in VolumeDbs
  BY JobsShape
<1>2. j \in Live(d) /\ jobs[j].after \notin Unfinished
  BY DEF Ready, Live, Mine
<1>3. ASSUME NEW i \in Live(d), i < j PROVE FALSE
  <2>1. jobs[j].after \in Mine(d) /\ jobs[j].after >= i
    BY <1>1, <1>2, <1>3 DEF QueueInv, QueueOf, Chained
  <2>2. jobs[j].after \in DOMAIN jobs /\ jobs[jobs[j].after].st \notin {"queued", "running"}
    BY <1>2, <2>1 DEF Unfinished, Mine
  <2>3. i >= jobs[j].after
    BY <1>1, <2>1, <2>2 DEF QueueInv, QueueOf, InOrder
  <2>4. i \in DOMAIN jobs /\ i \in Unfinished
    BY <1>3 DEF Live, Mine, Unfinished
  <2>5. i = jobs[j].after
    BY <1>1, <2>1, <2>2, <2>3, <2>4
  <2> QED
    BY <1>2, <2>4, <2>5
<1>4. \A i \in Live(d) : i \in Nat
  BY <1>1 DEF Live, Mine
<1>5. j \in Nat
  BY <1>1
<1> QED
  BY <1>2, <1>3, <1>4, <1>5 DEF First

\* So is the one that runs.
LEMMA RunningIsFirst ==
  ASSUME jobs \in Seq(JobRecord), QueueInv, NEW j \in DOMAIN jobs, jobs[j].st = "running"
  PROVE  First(j, jobs[j].db)
<1>1. jobs[j].db \in VolumeDbs
  BY JobsShape
<1> QED
  BY <1>1 DEF QueueInv, QueueOf, InOrder, First, Live, Mine

\* An operation j moves on, and every other one stays where it is.
Moves(j, st) ==
  /\ DOMAIN jobs' = DOMAIN jobs
  /\ \A i \in DOMAIN jobs : jobs'[i].db = jobs[i].db /\ jobs'[i].after = jobs[i].after
  /\ \A i \in DOMAIN jobs : i # j => jobs'[i].st = jobs[i].st
  /\ jobs'[j].st = st

\* Another queue has nothing to do with it.
LEMMA OtherQueueStays ==
  ASSUME NEW j, NEW st, Moves(j, st), NEW d, j \notin Mine(d), QueueRowStays(d), QueueOf(d)
  PROVE  QueueOf(d)'
<1>1. Mine(d)' = Mine(d) /\ \A i \in Mine(d) : i \in DOMAIN jobs /\ i # j
  BY DEF Mine, Moves
<1> QED
  BY <1>1, QueueStays DEF Moves

\* The first operation of a queue begins.
LEMMA QueueBegins ==
  ASSUME jobs \in Seq(JobRecord), wq \in [DOMAIN wq -> QueueRecord], DOMAIN wq \subseteq VolumeDbs, QueueInv,
         NEW d \in VolumeDbs, NEW j, First(j, d), Moves(j, "running"), wq' = [wq EXCEPT ![d].active = TRUE]
  PROVE  QueueInv' /\ DOMAIN wq' \subseteq VolumeDbs /\ wq' \in [DOMAIN wq' -> QueueRecord]
<1> USE DEF QueueRecord
<1>1. wq' \in [DOMAIN wq -> QueueRecord] /\ DOMAIN wq' = DOMAIN wq
      /\ \A e \in DOMAIN wq : wq'[e].tail = wq[e].tail /\ wq'[e].pending = wq[e].pending
  <2>1. DOMAIN wq' = DOMAIN wq /\ \A e \in DOMAIN wq : e # d => wq'[e] = wq[e]
    OBVIOUS
  <2>2. ASSUME NEW e \in DOMAIN wq, e = d PROVE wq'[e] = [tail |-> wq[e].tail, active |-> TRUE, pending |-> wq[e].pending]
    <3>1. wq[e] = [tail |-> wq[e].tail, active |-> wq[e].active, pending |-> wq[e].pending]
      OBVIOUS
    <3>2. wq'[e] = [wq[e] EXCEPT !.active = TRUE]
      BY <2>2
    <3> QED
      BY <3>1, <3>2
  <2>3. wq' = [e \in DOMAIN wq |-> wq'[e]]
    OBVIOUS
  <2>4. ASSUME NEW e \in DOMAIN wq
        PROVE  wq'[e] \in QueueRecord /\ wq'[e].tail = wq[e].tail /\ wq'[e].pending = wq[e].pending
    <3>1. wq[e] \in QueueRecord
      OBVIOUS
    <3>2. CASE e = d
      BY <2>2, <3>1, <3>2
    <3>3. CASE e # d
      BY <2>1, <3>1, <3>3
    <3> QED
      BY <3>2, <3>3
  <2> QED
    BY <2>1, <2>3, <2>4
<1>2. ASSUME NEW e \in VolumeDbs PROVE QueueRowStays(e)
  BY <1>1 DEF QueueRowStays
<1>3. j \in DOMAIN jobs /\ j \in Mine(d) /\ jobs[j].db = d /\ j \in Live(d)
  BY DEF First, Live, Mine
<1>4. ASSUME NEW e \in VolumeDbs, e # d PROVE QueueOf(e)'
  BY <1>2, <1>3, <1>4, OtherQueueStays DEF QueueInv, Mine
<1>5. Mine(d)' = Mine(d) /\ \A i \in Mine(d) : i \in DOMAIN jobs
  BY DEF Mine, Moves
<1>6. Live(d)' = Live(d)
  BY <1>3, <1>5 DEF Live, Moves
<1>7. InOrder(d)'
  <2>1. ASSUME NEW i \in Live(d), NEW k \in Mine(d), jobs'[k].st # "queued" PROVE i >= k
    <3>1. CASE k = j
      BY <3>1 DEF First
    <3>2. CASE k # j
      BY <1>5, <2>1, <3>2 DEF QueueInv, QueueOf, InOrder, Moves
    <3> QED
      BY <3>1, <3>2
  <2> QED
    BY <1>5, <1>6, <2>1 DEF InOrder
<1>8. Chained(d)'
  BY <1>5, <1>6 DEF QueueInv, QueueOf, Chained, Moves, Live
<1>9. TailIsLast(d)'
  BY <1>1, <1>5 DEF QueueInv, QueueOf, TailIsLast
<1>10. Counts(d)'
  <2>1. Waiting(d)' = Waiting(d)
    BY <1>1 DEF Waiting
  <2> QED
    BY <1>6, <2>1 DEF QueueInv, QueueOf, Counts
<1> QED
  BY <1>1, <1>4, <1>7, <1>8, <1>9, <1>10 DEF QueueInv, QueueOf

\* The first operation of a queue ends, well or not: finally, the queue counts one less, or is forgotten.
LEMMA QueueEnds ==
  ASSUME jobs \in Seq(JobRecord), wq \in [DOMAIN wq -> QueueRecord], DOMAIN wq \subseteq VolumeDbs, QueueInv,
         NEW d \in VolumeDbs, NEW j, First(j, d), NEW st \in {"done", "failed"}, Moves(j, st), wq' = finished(d)
  PROVE  QueueInv' /\ DOMAIN wq' \subseteq VolumeDbs /\ wq' \in [DOMAIN wq' -> QueueRecord]
<1> USE DEF QueueRecord
<1>1. j \in DOMAIN jobs /\ j \in Mine(d) /\ jobs[j].db = d /\ j \in Live(d)
  BY DEF First, Live, Mine
<1>2. d \in DOMAIN wq /\ wq[d].pending = Cardinality(Live(d)) /\ wq[d] \in QueueRecord
  <2>1. Cardinality(Live(d)) # 0
    BY <1>1, LiveIsFinite, FS_EmptySet
  <2> QED
    BY <2>1 DEF QueueInv, QueueOf, Counts, Waiting
<1>3. Mine(d)' = Mine(d) /\ \A i \in Mine(d) : i \in DOMAIN jobs
  BY DEF Mine, Moves
<1>4. Live(d)' = Live(d) \ {j}
  BY <1>1, <1>3 DEF Live, Moves
<1>5. Cardinality(Live(d)') = Cardinality(Live(d)) - 1 /\ Cardinality(Live(d)) \in Nat
  <2>1. IsFiniteSet(Live(d)) /\ Cardinality(Live(d)) \in Nat
    BY LiveIsFinite
  <2>2. Cardinality(Live(d) \ {j}) = Cardinality(Live(d)) - 1
    BY <1>1, <2>1, FS_RemoveElement
  <2> QED
    BY <1>4, <2>1, <2>2
<1>6. InOrder(d)'
  <2>1. ASSUME NEW i \in Live(d), NEW k \in Mine(d), jobs'[k].st # "queued" PROVE i >= k
    <3>1. CASE k = j
      BY <3>1 DEF First
    <3>2. CASE k # j
      BY <1>3, <2>1, <3>2 DEF QueueInv, QueueOf, InOrder, Moves
    <3> QED
      BY <3>1, <3>2
  <2> QED
    BY <1>3, <1>4, <2>1 DEF InOrder
<1>7. Chained(d)'
  BY <1>3, <1>4 DEF QueueInv, QueueOf, Chained, Moves, Live
<1>8. CASE wq[d].pending = 1
  <2>1. wq' = [e \in DOMAIN wq \ {d} |-> wq[e]]
    BY <1>2, <1>8 DEF finished, Without
  <2>2. TailIsLast(d)'
    BY <2>1 DEF TailIsLast
  <2>3. Counts(d)'
    <3>1. Waiting(d)' = 0
      BY <2>1 DEF Waiting
    <3> QED
      BY <1>2, <1>5, <1>8, <3>1, VolumeAssumption DEF Counts
  <2>4. ASSUME NEW e \in VolumeDbs, e # d PROVE QueueOf(e)'
    <3>1. QueueRowStays(e)
      BY <2>1, <2>4 DEF QueueRowStays
    <3> QED
      BY <1>1, <2>4, <3>1, OtherQueueStays DEF QueueInv, Mine
  <2> QED
    BY <1>6, <1>7, <2>1, <2>2, <2>3, <2>4 DEF QueueInv, QueueOf
<1>9. CASE wq[d].pending # 1
  <2>1. wq' = [wq EXCEPT ![d].active = FALSE, ![d].pending = @ - 1]
    BY <1>2, <1>9 DEF finished
  <2>2. DOMAIN wq' = DOMAIN wq /\ \A e \in DOMAIN wq : e # d => wq'[e] = wq[e]
    BY <2>1
  <2>3. wq'[d] = [tail |-> wq[d].tail, active |-> FALSE, pending |-> wq[d].pending - 1]
    <3>1. wq[d] = [tail |-> wq[d].tail, active |-> wq[d].active, pending |-> wq[d].pending]
      BY <1>2
    <3>2. wq'[d] = [wq[d] EXCEPT !.active = FALSE, !.pending = wq[d].pending - 1]
      BY <1>2, <2>1, <3>1
    <3> QED
      BY <3>1, <3>2
  <2>4. wq[d].pending > 1
    BY <1>2, <1>9 DEF QueueInv, QueueOf, TailIsLast
  <2>5. wq' \in [DOMAIN wq' -> QueueRecord]
    <3>1. wq' = [e \in DOMAIN wq |-> wq'[e]]
      BY <2>1
    <3>2. wq'[d] \in QueueRecord
      BY <1>2, <2>3, <2>4
    <3> QED
      BY <2>2, <3>1, <3>2
  <2>6. TailIsLast(d)'
    BY <1>2, <1>3, <2>2, <2>3, <2>4 DEF QueueInv, QueueOf, TailIsLast
  <2>7. Counts(d)'
    <3>1. Waiting(d)' = Waiting(d) - 1 /\ Waiting(d) \in Nat
      BY <1>2, <2>2, <2>3 DEF Waiting
    <3> QED
      BY <1>5, <3>1, VolumeAssumption DEF Counts, QueueInv, QueueOf
  <2>8. ASSUME NEW e \in VolumeDbs, e # d PROVE QueueOf(e)'
    <3>1. QueueRowStays(e)
      BY <2>2, <2>8 DEF QueueRowStays
    <3> QED
      BY <1>1, <2>8, <3>1, OtherQueueStays DEF QueueInv, Mine
  <2> QED
    BY <1>6, <1>7, <2>2, <2>5, <2>6, <2>7, <2>8 DEF QueueInv, QueueOf
<1> QED
  BY <1>8, <1>9

\* The larger of two integers is one of them.
LEMMA MaxOfTwo == ASSUME NEW m \in Int, NEW n \in Int PROVE Max({m, n}) \in {m, n}
<1>1. \E x \in {m, n} : \A y \in {m, n} : x >= y
  <2>1. CASE m >= n
    BY <2>1
  <2>2. CASE ~(m >= n)
    BY <2>2
  <2> QED
    BY <2>1, <2>2
<1> QED
  BY <1>1 DEF Max

\* Closing and opening handles keeps the pool a list of databases, and its limit: poolClose(), evictOverflow().
LEMMA PoolClosed == ASSUME NEW p \in Seq(VolumeDbs), NEW d PROVE poolClose(p, d) \in Seq(VolumeDbs)
<1>1. CASE {i \in DOMAIN p : p[i] = d} = {}
  BY <1>1 DEF poolClose
<1>2. CASE {i \in DOMAIN p : p[i] = d} # {}
  <2>1. PICK i \in DOMAIN p : poolClose(p, d) = SubSeq(p, 1, i - 1) \o SubSeq(p, i + 1, Len(p))
    BY <1>2 DEF poolClose, RemoveAt
  <2>2. i \in Int /\ 1 <= i /\ i <= Len(p) /\ Len(p) \in Nat /\ \A k \in 1..Len(p) : p[k] \in VolumeDbs
    OBVIOUS
  <2>3. SubSeq(p, 1, i - 1) \in Seq(VolumeDbs)
    <3>1. \A k \in 1..(i - 1) : p[k] \in VolumeDbs
      BY <2>2
    <3> QED
      BY <2>2, <3>1, SubSeqProperties
  <2>4. SubSeq(p, i + 1, Len(p)) \in Seq(VolumeDbs)
    <3>1. \A k \in (i + 1)..Len(p) : p[k] \in VolumeDbs
      BY <2>2
    <3> QED
      BY <2>2, <3>1, SubSeqProperties
  <2> QED
    BY <2>1, <2>3, <2>4, ConcatProperties
<1> QED
  BY <1>1, <1>2

\* A pool that opens a database stays within its limit.
LEMMA PoolOpened ==
  ASSUME NEW p \in Seq(VolumeDbs), NEW d \in VolumeDbs
  PROVE  poolOpen(p, d) \in Seq(VolumeDbs) /\ Len(poolOpen(p, d)) <= MaxOpen
<1> DEFINE q == Append(poolClose(p, d), d)
           m == Len(q) - MaxOpen + 1
           first == Max({1, m})
<1>1. q \in Seq(VolumeDbs) /\ Len(q) \in Nat /\ \A k \in 1..Len(q) : q[k] \in VolumeDbs
  <2>1. poolClose(p, d) \in Seq(VolumeDbs)
    BY PoolClosed
  <2>2. q \in Seq(VolumeDbs)
    BY <2>1
  <2> QED
    BY <2>2
<1>2. poolOpen(p, d) = SubSeq(q, first, Len(q))
  BY DEF poolOpen, evictOverflow
<1> HIDE DEF q
<1>3. m \in Int /\ first = IF m >= 1 THEN m ELSE 1
  BY <1>1, VolumeAssumption, MaxOne
<1> HIDE DEF first
<1>4. \A k \in first..Len(q) : q[k] \in VolumeDbs
  BY <1>1, <1>3
<1>5. SubSeq(q, first, Len(q)) \in Seq(VolumeDbs)
      /\ Len(SubSeq(q, first, Len(q))) = IF first <= Len(q) THEN Len(q) - first + 1 ELSE 0
  BY <1>1, <1>3, <1>4, SubSeqProperties
<1> QED
  BY <1>1, <1>2, <1>3, <1>5, VolumeAssumption

\* A table, or a set of files, in which one entry was written.
LEMMA WithShape ==
  ASSUME NEW f, NEW S, f \in [DOMAIN f -> S], NEW x, NEW v \in S
  PROVE  With(f, x, v) \in [DOMAIN f \union {x} -> S] /\ DOMAIN With(f, x, v) = DOMAIN f \union {x}
BY DEF With

\* The file of a database that was written, and those of the others.
LEMMA FileWritten ==
  ASSUME NEW d, NEW f, dbFiles' = With(dbFiles, d, f)
  PROVE  FileOf(d)' = f /\ d \in DOMAIN dbFiles' /\ DOMAIN dbFiles' = DOMAIN dbFiles \union {d}
         /\ \A e : e # d => FileOf(e)' = FileOf(e)
BY DEF FileOf, With

\* A database's file, made when it is opened, is a file.
LEMMA FileShape == ASSUME VolumeShape, NEW d PROVE FileOf(d) \in FileRecord
BY DEF VolumeShape, FileOf, EmptyFile, FileRecord

\* What is remembered of an operation: whose it was, that it began, and how it ended.
Remembers ==
  \A j \in DOMAIN jobs :
    /\ j \in DOMAIN jobs' /\ jobs'[j].db = jobs[j].db /\ jobs'[j].op = jobs[j].op
    /\ jobs'[j].st = "queued" => jobs[j].st = "queued"
    /\ jobs[j].st \in {"done", "failed"} => jobs'[j].st = jobs[j].st /\ jobs'[j].out = jobs[j].out

\* The operation j moves on to st, having read out; handles may have been closed.
JobMoves(j, st, out) ==
  /\ jobs' \in Seq(JobRecord) /\ Len(jobs') = Len(jobs) /\ Moves(j, st)
  /\ jobs'[j].op = jobs[j].op /\ jobs'[j].out = out
  /\ \A i \in DOMAIN jobs : i # j => Same(jobs'[i], jobs[i])

\* The operation j is written anew.
Rewrites(js, j, r) == jobs' = [js EXCEPT ![j] = r]

\* What an operation that moves on is and is not.
LEMMA MovedJob ==
  ASSUME jobs \in Seq(JobRecord), NEW js, Closes(js), NEW j \in DOMAIN jobs, NEW r \in JobRecord,
         Rewrites(js, j, r), r.db = jobs[j].db, r.op = jobs[j].op, r.after = jobs[j].after
  PROVE  JobMoves(j, r.st, r.out) /\ jobs'[j] = r
<1>1. js \in Seq(JobRecord) /\ Len(js) = Len(jobs) /\ DOMAIN js = DOMAIN jobs
      /\ \A i \in DOMAIN jobs : Same(js[i], jobs[i])
  BY DEF Closes
<1>2. jobs' \in Seq(JobRecord) /\ Len(jobs') = Len(jobs) /\ DOMAIN jobs' = DOMAIN jobs
      /\ jobs'[j] = r /\ \A i \in DOMAIN jobs : i # j => jobs'[i] = js[i]
  BY <1>1 DEF Rewrites
<1>3. \A i \in DOMAIN jobs : i # j => Same(jobs'[i], jobs[i])
  BY <1>1, <1>2
<1>4. Moves(j, r.st)
  BY <1>2, <1>3 DEF Moves, Same
<1> QED
  BY <1>2, <1>3, <1>4 DEF JobMoves

\* The fields of an operation that was written anew.
LEMMA JobFields ==
  ASSUME NEW q \in JobRecord, NEW e, e = [x \in DOMAIN q |-> e[x]]
  PROVE  /\ e = [db |-> e.db, op |-> e.op, after |-> e.after, st |-> e.st, alive |-> e.alive, local |-> e.local, out |-> e.out]
         /\ DOMAIN q = {"db", "op", "after", "st", "alive", "local", "out"}
<1> DEFINE r == [db |-> e.db, op |-> e.op, after |-> e.after, st |-> e.st, alive |-> e.alive, local |-> e.local, out |-> e.out]
<1>1. DOMAIN q = {"db", "op", "after", "st", "alive", "local", "out"}
  BY DEF JobRecord
<1>2. r.db = e.db /\ r.op = e.op /\ r.after = e.after /\ r.st = e.st /\ r.alive = e.alive /\ r.local = e.local /\ r.out = e.out
  OBVIOUS
<1>3. r = [x \in DOMAIN q |-> r[x]]
  BY <1>1
<1> HIDE DEF r
<1>4. \A x \in DOMAIN q : e[x] = r[x]
  BY <1>1, <1>2
<1>5. [x \in DOMAIN q |-> e[x]] = [x \in DOMAIN q |-> r[x]]
  BY <1>4
<1> QED
  BY <1>1, <1>3, <1>5 DEF r

\* An operation ends.
LEMMA DoneMoves ==
  ASSUME jobs \in Seq(JobRecord), NEW js, Closes(js), NEW j \in DOMAIN jobs, NEW st \in JobStates, NEW out \in Seq(Nat),
         jobs' = Done(js, j, st, out)
  PROVE  JobMoves(j, st, out)
<1>1. js[j] \in JobRecord /\ Same(js[j], jobs[j]) /\ j \in DOMAIN js /\ js \in Seq(JobRecord)
  BY DEF Closes, Same
<1>2. PICK q : q = js[j]
  OBVIOUS
<1> DEFINE r == [db |-> q.db, op |-> q.op, after |-> q.after, st |-> st, alive |-> q.alive, local |-> <<>>, out |-> out]
<1>3. q = [db |-> q.db, op |-> q.op, after |-> q.after, st |-> q.st, alive |-> q.alive, local |-> q.local, out |-> q.out]
  BY <1>1, <1>2 DEF JobRecord
<1>4. Rewrites(js, j, r)
  <2>1. jobs' = [js EXCEPT ![j] = [q EXCEPT !.st = st, !.out = out, !.local = <<>>]]
    BY <1>1, <1>2 DEF Done
  <2>2. [q EXCEPT !.st = st, !.out = out, !.local = <<>>] = r
    <3> DEFINE e == [q EXCEPT !.st = st, !.out = out, !.local = <<>>]
    <3>1. e = [x \in DOMAIN q |-> e[x]]
      OBVIOUS
    <3>2. DOMAIN q = {"db", "op", "after", "st", "alive", "local", "out"}
      BY <1>3
    <3>3. e.db = r.db /\ e.op = r.op /\ e.after = r.after /\ e.st = r.st
          /\ e.alive = r.alive /\ e.local = r.local /\ e.out = r.out
      BY <3>2
    <3> HIDE DEF e
    <3>4. q \in JobRecord
      BY <1>1, <1>2
    <3>5. e = [db |-> e.db, op |-> e.op, after |-> e.after, st |-> e.st, alive |-> e.alive, local |-> e.local, out |-> e.out]
      BY ONLY <3>1, <3>4, JobFields
    <3>6. e = r
      BY ONLY <3>3, <3>5 DEF r
    <3> QED
      BY <3>6 DEF e
  <2> QED
    BY <2>1, <2>2 DEF Rewrites
<1>5. r \in JobRecord /\ r.db = jobs[j].db /\ r.op = jobs[j].op /\ r.after = jobs[j].after /\ r.st = st /\ r.out = out
  BY <1>1, <1>2 DEF JobRecord, Same
<1> HIDE DEF r
<1>6. JobMoves(j, r.st, r.out)
  BY <1>4, <1>5, MovedJob
<1> QED
  BY <1>5, <1>6

\* An operation ends that read nothing.
LEMMA EndMoves ==
  ASSUME jobs \in Seq(JobRecord), NEW js, Closes(js), NEW j \in DOMAIN jobs, NEW st \in JobStates,
         jobs' = Done(js, j, st, <<>>)
  PROVE  JobMoves(j, st, <<>>)
<1>1. PICK out \in Seq(Nat) : out = <<>>
  <2>1. <<>> \in Seq(Nat)
    OBVIOUS
  <2> QED
    BY ONLY <2>1
<1>2. jobs' = Done(js, j, st, out)
  BY <1>1
<1>3. JobMoves(j, st, out)
  BY <1>2, DoneMoves
<1> QED
  BY <1>1, <1>3

\* A transaction begins, with what it read.
Begins(js, j, log) == jobs' = [js EXCEPT ![j].st = "running", ![j].local = log]

\* An operation that begins a transaction moves on, and holds what it read.
LEMMA BeginMoves ==
  ASSUME jobs \in Seq(JobRecord), NEW js, Closes(js), NEW j \in DOMAIN jobs, NEW log \in Seq(Nat),
         Begins(js, j, log)
  PROVE  JobMoves(j, "running", js[j].out) /\ jobs'[j].local = log
<1>1. js[j] \in JobRecord /\ Same(js[j], jobs[j]) /\ j \in DOMAIN js /\ js \in Seq(JobRecord)
  BY DEF Closes, Same
<1>2. PICK q : q = js[j]
  OBVIOUS
<1> DEFINE r == [db |-> q.db, op |-> q.op, after |-> q.after, st |-> "running", alive |-> q.alive, local |-> log, out |-> q.out]
<1>3. q = [db |-> q.db, op |-> q.op, after |-> q.after, st |-> q.st, alive |-> q.alive, local |-> q.local, out |-> q.out]
  BY <1>1, <1>2 DEF JobRecord
<1>4. Rewrites(js, j, r)
  <2>1. jobs' = [js EXCEPT ![j] = [q EXCEPT !.st = "running", !.local = log]]
    BY <1>1, <1>2 DEF Begins
  <2>2. [q EXCEPT !.st = "running", !.local = log] = r
    <3> DEFINE e == [q EXCEPT !.st = "running", !.local = log]
    <3>1. e = [x \in DOMAIN q |-> e[x]]
      OBVIOUS
    <3>2. DOMAIN q = {"db", "op", "after", "st", "alive", "local", "out"}
      BY <1>3
    <3>3. e.db = r.db /\ e.op = r.op /\ e.after = r.after /\ e.st = r.st
          /\ e.alive = r.alive /\ e.local = r.local /\ e.out = r.out
      BY <3>2
    <3> HIDE DEF e
    <3>4. q \in JobRecord
      BY <1>1, <1>2
    <3>5. e = [db |-> e.db, op |-> e.op, after |-> e.after, st |-> e.st, alive |-> e.alive, local |-> e.local, out |-> e.out]
      BY ONLY <3>1, <3>4, JobFields
    <3>6. e = r
      BY ONLY <3>3, <3>5 DEF r
    <3> QED
      BY <3>6 DEF e
  <2> QED
    BY <2>1, <2>2 DEF Rewrites
<1>5. /\ r \in JobRecord /\ r.db = jobs[j].db /\ r.op = jobs[j].op /\ r.after = jobs[j].after
      /\ r.st = "running" /\ r.out = q.out /\ r.local = log
  BY <1>1, <1>2 DEF JobRecord, JobStates, Same
<1> HIDE DEF r
<1>6. JobMoves(j, r.st, r.out) /\ jobs'[j] = r
  BY <1>4, <1>5, MovedJob
<1> QED
  BY <1>2, <1>5, <1>6

\* Nothing is forgotten when operations are cut off, or one moves on from where it waits or runs.
LEMMA ClosesRemembers == ASSUME Closes(jobs') PROVE Remembers
BY DEF Closes, Remembers, Same

\* An operation that waited or ran and moves on takes no result away.
LEMMA MoveRemembers ==
  ASSUME NEW j, NEW st, NEW out, JobMoves(j, st, out), st # "queued", jobs[j].st \in {"queued", "running"}
  PROVE  Remembers
BY DEF JobMoves, Moves, Same, Remembers

\* The queues while handles are closed.
LEMMA QueuesStay == ASSUME QueueInv, Closes(jobs'), wq' = wq PROVE QueueInv'
<1>1. ASSUME NEW d \in VolumeDbs PROVE QueueOf(d)'
  <2>1. QueueRowStays(d)
    BY DEF QueueRowStays
  <2>2. Mine(d)' = Mine(d) /\ \A j \in Mine(d) : jobs'[j].after = jobs[j].after /\ jobs'[j].st = jobs[j].st
    BY DEF Mine, Closes, Same
  <2> QED
    BY <2>1, <2>2, QueueStays DEF QueueInv
<1> QED
  BY <1>1 DEF QueueInv

\* The files stay, but for what is not about their contents.
FileStays(d) ==
  /\ d \in DOMAIN dbFiles => d \in DOMAIN dbFiles'
  /\ FileOf(d)'.ok <=> FileOf(d).ok
  /\ FileOf(d)'.log = FileOf(d).log /\ FileOf(d)'.alarm = FileOf(d).alarm

FilesStay == \A d \in VolumeDbs : FileStays(d)

\* What runs goes on running, on the file it read.
LEMMA RunStays ==
  ASSUME NEW j, RunsOnFile(j), Same(jobs'[j], jobs[j]), FileStays(jobs[j].db)
  PROVE  RunsOnFile(j)'
<1> USE DEF RunsOnFile, Same, FileStays
<1> SUFFICES ASSUME jobs'[j].st = "running"
             PROVE  /\ jobs'[j].op.kind = "transaction"
                    /\ jobs'[j].alive => /\ jobs[j].db \in DOMAIN dbFiles' /\ FileOf(jobs[j].db)'.ok
                                         /\ jobs'[j].local = FileOf(jobs[j].db)'.log
  BY DEF FileOf
<1> QED
  OBVIOUS

\* Files and operations agree as before when neither writes.
LEMMA LogStays ==
  ASSUME VolumeShape, LogInv, FilesStay, kept' = kept, NEW D \in SUBSET DOMAIN jobs,
         \A j \in D : Same(jobs'[j], jobs[j]), \A j \in DOMAIN jobs' \ D : jobs'[j].st # "running"
  PROVE  (\A d \in VolumeDbs : HoldsLog(d)) ' /\ (\A j \in DOMAIN jobs : RunsOnFile(j))'
<1>1. ASSUME NEW d \in VolumeDbs PROVE HoldsLog(d)'
  BY DEF LogInv, HoldsLog, FilesStay, FileStays
<1>2. ASSUME NEW j \in D PROVE RunsOnFile(j)'
  <2>1. jobs[j].db \in VolumeDbs
    BY JobsShape DEF VolumeShape
  <2> QED
    BY <2>1, RunStays DEF LogInv, FilesStay
<1>3. ASSUME NEW j \in DOMAIN jobs' \ D PROVE RunsOnFile(j)'
  BY DEF RunsOnFile
<1> QED
  BY <1>1, <1>2, <1>3

\* Nobody was told anything new about an alarm, and no alarm was written.
AlarmsStay(d) == (FileOf(d)'.ok => FileOf(d).ok /\ FileOf(d)'.alarm = FileOf(d).alarm) /\ kept'[d].alarm = kept[d].alarm

\* ensureDatabase() makes a database's row and file, at the least, and leaves what the file holds.
LEMMA Ensures ==
  ASSUME VolumeShape, NEW d \in VolumeDbs, ensureDatabase(d, 1)
  PROVE  /\ DOMAIN catalog' \subseteq VolumeDbs /\ catalog' \in [DOMAIN catalog' -> CatalogRow]
         /\ DOMAIN catalog' \subseteq DOMAIN dbFiles'
         /\ DOMAIN dbFiles' \subseteq VolumeDbs /\ dbFiles' \in [DOMAIN dbFiles' -> FileRecord]
         /\ pool' \in Seq(VolumeDbs) /\ Len(pool') <= MaxOpen
         /\ FilesStay /\ kept' = kept /\ backups' = backups /\ backupDir' = backupDir
<1> DEFINE row == [schema |-> IF d \in DOMAIN catalog THEN Max({catalog[d].schema, 1}) ELSE 1]
<1>1. catalog' = With(catalog, d, row)
  BY DEF ensureDatabase, Ensured
<1>2. row \in CatalogRow
  <2>1. d \in DOMAIN catalog => catalog[d].schema \in Int
    BY DEF VolumeShape, CatalogRow
  <2>2. d \in DOMAIN catalog => Max({catalog[d].schema, 1}) \in Int
    BY <2>1, MaxOfTwo
  <2> QED
    BY <2>2 DEF CatalogRow
<1> HIDE DEF row
<1>3. DOMAIN catalog' \subseteq VolumeDbs /\ catalog' \in [DOMAIN catalog' -> CatalogRow] /\ catalog'[d].schema \in Int
      /\ DOMAIN catalog' = DOMAIN catalog \union {d}
  <2>1. DOMAIN catalog' = DOMAIN catalog \union {d} /\ catalog'[d] = row /\ catalog' \in [DOMAIN catalog' -> CatalogRow]
    <3>1. catalog \in [DOMAIN catalog -> CatalogRow]
      BY DEF VolumeShape
    <3>2. /\ With(catalog, d, row) \in [DOMAIN catalog \union {d} -> CatalogRow]
          /\ DOMAIN With(catalog, d, row) = DOMAIN catalog \union {d} /\ With(catalog, d, row)[d] = row
      BY <1>2, <3>1 DEF With
    <3> QED
      BY <1>1, <3>2
  <2> QED
    BY <1>2, <2>1 DEF VolumeShape, CatalogRow
<1>4. FileOf(d) \in FileRecord
  BY FileShape
<1> USE DEF VolumeShape
<1>5. CASE FileOf(d).ok
  <2> DEFINE f == initializeDatabaseFile(FileOf(d), catalog'[d].schema)
  <2>1. pool' = poolOpen(pool, d) /\ dbFiles' = With(dbFiles, d, f)
    BY <1>5 DEF ensureDatabase
  <2>2. f \in FileRecord /\ f.ok = FileOf(d).ok /\ f.log = FileOf(d).log /\ f.alarm = FileOf(d).alarm
    <3>1. PICK q \in FileRecord : q = FileOf(d)
      BY <1>4
    <3>2. PICK v \in Int : v = Max({q.version, catalog'[d].schema})
      <4>1. q.version \in Int
        BY <3>1 DEF FileRecord
      <4> QED
        BY <1>3, <4>1, MaxOfTwo
    <3>3. f = [q EXCEPT !.version = v]
      BY <3>1, <3>2 DEF initializeDatabaseFile
    <3>4. q = [log |-> q.log, alarm |-> q.alarm, version |-> q.version, ok |-> q.ok]
      BY DEF FileRecord
    <3>5. f = [log |-> q.log, alarm |-> q.alarm, version |-> v, ok |-> q.ok]
      BY <3>3, <3>4
    <3> HIDE DEF f
    <3> QED
      BY <3>1, <3>5 DEF FileRecord
  <2> HIDE DEF f
  <2>3. DOMAIN dbFiles' \subseteq VolumeDbs /\ dbFiles' \in [DOMAIN dbFiles' -> FileRecord]
    <3>1. dbFiles \in [DOMAIN dbFiles -> FileRecord]
      BY DEF VolumeShape
    <3>2. /\ With(dbFiles, d, f) \in [DOMAIN dbFiles \union {d} -> FileRecord]
          /\ DOMAIN With(dbFiles, d, f) = DOMAIN dbFiles \union {d}
      BY ONLY <2>2, <3>1, WithShape, ZenonT(60)
    <3> QED
      BY <2>1, <3>2 DEF VolumeShape
  <2>4. ASSUME NEW e \in VolumeDbs PROVE FileStays(e)
    BY <2>1, <2>2, FileWritten DEF FileStays
  <2>5. DOMAIN catalog' \subseteq DOMAIN dbFiles'
    BY <1>3, <2>1, FileWritten
  <2> QED
    BY <1>3, <2>1, <2>3, <2>4, <2>5, PoolOpened DEF FilesStay, ensureDatabase
<1>6. CASE ~FileOf(d).ok
  <2>1. pool' = pool /\ dbFiles' = dbFiles
    BY <1>6 DEF ensureDatabase
  <2>2. ASSUME NEW e \in VolumeDbs PROVE FileStays(e)
    BY <2>1 DEF FileStays, FileOf
  <2>3. d \in DOMAIN dbFiles
    BY <1>6 DEF FileOf, EmptyFile
  <2> QED
    BY <1>3, <2>1, <2>2, <2>3 DEF FilesStay, ensureDatabase
<1> QED
  BY <1>5, <1>6

\* What an operation enqueued leaves: itself, last; or nothing.
JoinsLast(d, op) ==
  \/ DOMAIN jobs' = DOMAIN jobs /\ Len(jobs') = Len(jobs)
  \/ /\ Len(jobs') = Len(jobs) + 1 /\ DOMAIN jobs' = DOMAIN jobs \union {Len(jobs')}
     /\ jobs'[Len(jobs')].op = op /\ jobs'[Len(jobs')].db = d /\ jobs'[Len(jobs')].st = "queued"

\* enqueue() on its own, or after an opening that closed handles.
LEMMA Enqueues ==
  ASSUME VolumeShape, QueueInv, NEW js, Closes(js), NEW d \in VolumeDbs, NEW op \in OpRecord,
         ~QueueFull(d), enqueue(js, d, op)
  PROVE  /\ QueueInv' /\ DOMAIN wq' \subseteq VolumeDbs /\ wq' \in [DOMAIN wq' -> QueueRecord] /\ jobs' \in Seq(JobRecord)
         /\ Remembers /\ JoinsLast(d, op)
         /\ Len(jobs') = Len(jobs) + 1
         /\ (\A j \in DOMAIN jobs : Same(jobs'[j], jobs[j])) /\ \A j \in DOMAIN jobs' \ DOMAIN jobs : jobs'[j].st # "running"
<1>1. jobs \in Seq(JobRecord) /\ wq \in [DOMAIN wq -> QueueRecord] /\ DOMAIN wq \subseteq VolumeDbs
  BY DEF VolumeShape
<1>2. /\ QueueInv' /\ DOMAIN wq' \subseteq VolumeDbs /\ wq' \in [DOMAIN wq' -> QueueRecord]
      /\ jobs' \in Seq(JobRecord) /\ Len(jobs') = Len(jobs) + 1
      /\ DOMAIN jobs' = DOMAIN jobs \union {Len(jobs) + 1} /\ Len(jobs) + 1 \notin DOMAIN jobs
      /\ \A j \in DOMAIN jobs : jobs'[j] = js[j]
      /\ jobs'[Len(jobs) + 1].db = d /\ jobs'[Len(jobs) + 1].op = op /\ jobs'[Len(jobs) + 1].st = "queued"
  BY <1>1, QueueGrows
<1>3. \A j \in DOMAIN jobs : Same(jobs'[j], jobs[j])
  BY <1>2 DEF Closes
<1>4. Remembers
  BY <1>2, <1>3 DEF Remembers, Same
<1>5. JoinsLast(d, op)
  BY <1>2 DEF JoinsLast
<1> QED
  BY <1>2, <1>3, <1>4, <1>5

\* runExclusive(): the database is ensured, and the operation joins its queue unless that is full.
LEMMA RunsExclusive ==
  ASSUME VolumeInv, NEW d \in VolumeDbs, NEW op \in OpRecord, runExclusive(d, op)
  PROVE  VolumeInv' /\ Remembers /\ JoinsLast(d, op) /\ \A e \in VolumeDbs : AlarmsStay(e)
<1> USE DEF VolumeInv
<1>1. /\ DOMAIN catalog' \subseteq VolumeDbs /\ catalog' \in [DOMAIN catalog' -> CatalogRow]
      /\ DOMAIN catalog' \subseteq DOMAIN dbFiles'
      /\ DOMAIN dbFiles' \subseteq VolumeDbs /\ dbFiles' \in [DOMAIN dbFiles' -> FileRecord]
      /\ pool' \in Seq(VolumeDbs) /\ Len(pool') <= MaxOpen
      /\ FilesStay /\ kept' = kept /\ backups' = backups /\ backupDir' = backupDir
  BY Ensures DEF runExclusive
<1>2. Closes(jobs) /\ Closes(Opened(jobs, d)) /\ jobs \in Seq(JobRecord)
  BY NoneCloses, CutCloses DEF Opened, VolumeShape
<1>3. /\ QueueInv' /\ DOMAIN wq' \subseteq VolumeDbs /\ wq' \in [DOMAIN wq' -> QueueRecord] /\ jobs' \in Seq(JobRecord)
      /\ Remembers /\ JoinsLast(d, op)
      /\ (\A j \in DOMAIN jobs : Same(jobs'[j], jobs[j])) /\ \A j \in DOMAIN jobs' \ DOMAIN jobs : jobs'[j].st # "running"
  <2>1. CASE QueueFull(d) \/ ~FileOf(d).ok
    <3>1. Closes(jobs') /\ wq' = wq
      BY <1>2, <2>1 DEF runExclusive
    <3>2. QueueInv' /\ Remembers
      BY <3>1, QueuesStay, ClosesRemembers
    <3> QED
      BY <3>1, <3>2 DEF Closes, JoinsLast, VolumeShape
  <2>2. CASE ~(QueueFull(d) \/ ~FileOf(d).ok)
    <3>1. enqueue(Opened(jobs, d), d, op) /\ ~QueueFull(d)
      BY <2>2 DEF runExclusive
    <3> QED
      BY <1>2, <3>1, Enqueues
  <2> QED
    BY <2>1, <2>2
<1>4. VolumeShape'
  BY <1>1, <1>3 DEF VolumeShape
<1>5. LogInv'
  <2>1. (\A e \in VolumeDbs : HoldsLog(e))' /\ (\A j \in DOMAIN jobs : RunsOnFile(j))'
    BY <1>1, <1>3, LogStays
  <2> QED
    BY <2>1 DEF LogInv
<1>6. \A e \in VolumeDbs : AlarmsStay(e)
  BY <1>1 DEF AlarmsStay, FilesStay, FileStays
<1> QED
  BY <1>3, <1>4, <1>5, <1>6

\* listDueAlarms() has an operation of its own join a queue.
LEMMA ListEnqueues ==
  ASSUME VolumeInv, NEW d \in VolumeDbs, NEW op \in OpRecord, ~QueueFull(d), enqueue(jobs, d, op),
         UNCHANGED <<catalog, dbFiles, pool, backups, backupDir, kept>>
  PROVE  VolumeInv' /\ Remembers /\ JoinsLast(d, op) /\ Len(jobs') = Len(jobs) + 1 /\ \A e \in VolumeDbs : AlarmsStay(e)
<1> USE DEF VolumeInv
<1>1. Closes(jobs)
  BY NoneCloses DEF VolumeShape
<1>2. /\ QueueInv' /\ DOMAIN wq' \subseteq VolumeDbs /\ wq' \in [DOMAIN wq' -> QueueRecord] /\ jobs' \in Seq(JobRecord)
      /\ Remembers /\ JoinsLast(d, op) /\ Len(jobs') = Len(jobs) + 1
      /\ (\A j \in DOMAIN jobs : Same(jobs'[j], jobs[j])) /\ \A j \in DOMAIN jobs' \ DOMAIN jobs : jobs'[j].st # "running"
  BY <1>1, Enqueues
<1>3. VolumeShape'
  BY <1>2 DEF VolumeShape
<1>4. \A e : FileOf(e)' = FileOf(e)
  BY DEF FileOf
<1>5. FilesStay
  BY <1>4 DEF FilesStay, FileStays
<1>6. LogInv'
  <2>1. (\A e \in VolumeDbs : HoldsLog(e))' /\ (\A j \in DOMAIN jobs : RunsOnFile(j))'
    BY <1>2, <1>5, LogStays
  <2> QED
    BY <2>1 DEF LogInv
<1>7. \A e \in VolumeDbs : AlarmsStay(e)
  BY <1>4 DEF AlarmsStay
<1> QED
  BY <1>2, <1>3, <1>6, <1>7

\* An operation that fails leaves the files as they are.
LEMMA JobFails ==
  ASSUME VolumeInv, NEW j \in DOMAIN jobs, First(j, jobs[j].db), jobs' = Done(jobs, j, "failed", <<>>),
         wq' = finished(jobs[j].db), UNCHANGED <<catalog, dbFiles, pool, kept, backups, backupDir>>
  PROVE  VolumeInv' /\ Remembers /\ DOMAIN jobs' = DOMAIN jobs /\ \A e \in VolumeDbs : AlarmsStay(e)
<1> USE DEF VolumeInv
<1> DEFINE d == jobs[j].db
<1>1. jobs \in Seq(JobRecord) /\ Closes(jobs) /\ d \in VolumeDbs /\ jobs[j].st \in {"queued", "running"}
  <2>1. jobs \in Seq(JobRecord) /\ jobs[j].st \in {"queued", "running"}
    BY DEF VolumeShape, First, Live
  <2> QED
    BY <2>1, NoneCloses, JobsShape
<1>2. JobMoves(j, "failed", <<>>)
  <2>1. "failed" \in JobStates
    BY DEF JobStates
  <2> QED
    BY <1>1, <2>1, EndMoves
<1>3. Remembers
  BY <1>1, <1>2, MoveRemembers
<1>4. QueueInv' /\ DOMAIN wq' \subseteq VolumeDbs /\ wq' \in [DOMAIN wq' -> QueueRecord]
  <2>1. Moves(j, "failed")
    BY <1>2 DEF JobMoves
  <2> QED
    BY <1>1, <2>1, QueueEnds DEF VolumeShape
<1>5. VolumeShape'
  BY <1>2, <1>4 DEF VolumeShape, JobMoves
<1>6. \A e : FileOf(e)' = FileOf(e)
  BY DEF FileOf
<1>7. FilesStay
  BY <1>6 DEF FilesStay, FileStays
<1>8. LogInv'
  <2>1. (\A i \in DOMAIN jobs \ {j} : Same(jobs'[i], jobs[i])) /\ \A i \in DOMAIN jobs' \ (DOMAIN jobs \ {j}) : jobs'[i].st # "running"
    BY <1>2 DEF JobMoves, Moves
  <2>2. (\A e \in VolumeDbs : HoldsLog(e))' /\ (\A i \in DOMAIN jobs : RunsOnFile(i))'
    BY <1>7, <2>1, LogStays
  <2> QED
    BY <2>2 DEF LogInv
<1>9. \A e \in VolumeDbs : AlarmsStay(e)
  BY <1>6 DEF AlarmsStay
<1> QED
  BY <1>3, <1>4, <1>5, <1>8, <1>9, <1>2 DEF JobMoves, Moves

\* A transaction begins: it reads the file, and is the only one under way.
LEMMA JobBegins ==
  ASSUME VolumeInv, NEW j \in DOMAIN jobs, First(j, jobs[j].db), FileOf(jobs[j].db).ok, jobs[j].op.kind = "transaction",
         jobs[j].db \in DOMAIN catalog,
         Begins(Opened(jobs, jobs[j].db), j, FileOf(jobs[j].db).log),
         pool' = poolOpen(pool, jobs[j].db), wq' = [wq EXCEPT ![jobs[j].db].active = TRUE],
         UNCHANGED <<catalog, dbFiles, kept, backups, backupDir>>
  PROVE  VolumeInv' /\ Remembers /\ DOMAIN jobs' = DOMAIN jobs /\ \A e \in VolumeDbs : AlarmsStay(e)
<1> USE DEF VolumeInv
<1> DEFINE d == jobs[j].db
           js == Opened(jobs, d)
<1>1. jobs \in Seq(JobRecord) /\ Closes(js) /\ d \in VolumeDbs /\ jobs[j].st \in {"queued", "running"}
  <2>1. jobs \in Seq(JobRecord) /\ jobs[j].st \in {"queued", "running"}
    BY DEF VolumeShape, First, Live
  <2>2. Closes(js)
    BY <2>1, CutCloses DEF Opened
  <2> QED
    BY <2>1, <2>2, JobsShape
<1>2. FileOf(d) \in FileRecord /\ FileOf(d).log \in Seq(Nat)
  BY FileShape DEF FileRecord
<1>3. JobMoves(j, "running", js[j].out) /\ jobs'[j].local = FileOf(d).log
  BY <1>1, <1>2, BeginMoves
<1>4. Remembers
  BY <1>1, <1>3, MoveRemembers
<1>5. QueueInv' /\ DOMAIN wq' \subseteq VolumeDbs /\ wq' \in [DOMAIN wq' -> QueueRecord]
  <2>1. Moves(j, "running")
    BY <1>3 DEF JobMoves
  <2> QED
    BY <1>1, <2>1, QueueBegins DEF VolumeShape
<1>6. VolumeShape'
  <2>1. pool' \in Seq(VolumeDbs) /\ Len(pool') <= MaxOpen
    BY <1>1, PoolOpened DEF VolumeShape
  <2> QED
    BY <1>3, <1>5, <2>1 DEF VolumeShape, JobMoves
<1>7. \A e : FileOf(e)' = FileOf(e)
  BY DEF FileOf
<1>8. FilesStay
  BY <1>7 DEF FilesStay, FileStays
<1>9. LogInv'
  <2>1. ASSUME NEW e \in VolumeDbs PROVE HoldsLog(e)'
    BY <1>7 DEF LogInv, HoldsLog
  <2>2. ASSUME NEW i \in DOMAIN jobs' PROVE RunsOnFile(i)'
    <3>1. i \in DOMAIN jobs /\ jobs[i].db \in VolumeDbs
      BY <1>1, <1>3, JobsShape DEF JobMoves, Moves
    <3>2. CASE i # j
      <4>1. Same(jobs'[i], jobs[i])
        BY <1>3, <3>1, <3>2 DEF JobMoves
      <4> QED
        BY <1>8, <3>1, <4>1, RunStays DEF LogInv, FilesStay
    <3>3. CASE i = j
      <4>1. jobs'[j].db = d /\ jobs'[j].op = jobs[j].op /\ jobs'[j].local = FileOf(d).log
        BY <1>3 DEF JobMoves, Moves
      <4> QED
        BY <1>7, <3>3, <4>1 DEF RunsOnFile, VolumeShape
    <3> QED
      BY <3>2, <3>3
  <2> QED
    BY <2>1, <2>2 DEF LogInv
<1>10. \A e \in VolumeDbs : AlarmsStay(e)
  BY <1>7 DEF AlarmsStay
<1> QED
  BY <1>4, <1>5, <1>6, <1>9, <1>10, <1>3 DEF JobMoves, Moves

\* Of a database's operations only the first one of the queue can run.
LEMMA OnlyFirstRuns ==
  ASSUME QueueInv, NEW d \in VolumeDbs, NEW j, First(j, d), jobs \in Seq(JobRecord),
         NEW i \in DOMAIN jobs, jobs[i].db = d, jobs[i].st = "running"
  PROVE  i = j
<1>1. i \in Live(d) /\ i \in Mine(d) /\ jobs[i].st # "queued" /\ j \in Live(d)
  BY DEF Live, Mine, First
<1>2. j >= i /\ i >= j
  BY <1>1 DEF QueueInv, QueueOf, InOrder, First
<1>3. i \in Nat /\ j \in Nat
  BY <1>1, JobsShape DEF Live, Mine
<1> QED
  BY <1>2, <1>3

\* What a synchronous operation leaves in the file, and what its caller may count on, agree on the log,
\* and on the alarm unless the dispatcher deleted it.
LEMMA AppliedIsAcknowledged ==
  ASSUME NEW f \in FileRecord, NEW op \in OpRecord, op.kind # "transaction", NEW d \in VolumeDbs,
         kept \in [VolumeDbs -> HeldRecord]
  PROVE  /\ Applied(f, op) \in FileRecord /\ Applied(f, op).ok = f.ok
         /\ Acknowledged(d, op) \in [VolumeDbs -> HeldRecord]
         /\ \A e \in VolumeDbs : e # d => Acknowledged(d, op)[e] = kept[e]
         /\ f.log = kept[d].log => Applied(f, op).log = Acknowledged(d, op)[d].log
         /\ \/ Applied(f, op).alarm = Acknowledged(d, op)[d].alarm
            \/ Applied(f, op).alarm = f.alarm /\ Acknowledged(d, op)[d].alarm = kept[d].alarm
            \/ op.kind = "deleteAlarm" /\ op.arg # 0 /\ Acknowledged(d, op)[d].alarm = kept[d].alarm
<1>0. op.arg \in Nat
  BY DEF OpRecord
<1> USE DEF HeldRecord
<1> DEFINE k == kept[d]
<1>1. f = [log |-> f.log, alarm |-> f.alarm, version |-> f.version, ok |-> f.ok] /\ f.log \in Seq(Nat) /\ f.alarm \in Nat
  BY DEF FileRecord
<1>2. k = [log |-> k.log, alarm |-> k.alarm] /\ k.log \in Seq(Nat) /\ k.alarm \in Nat
  OBVIOUS
<1>3. CASE op.kind = "put"
  <2>1. Applied(f, op) = [f EXCEPT !.log = Append(@, op.arg)] /\ Acknowledged(d, op) = [kept EXCEPT ![d].log = Append(@, op.arg)]
    BY <1>3 DEF Applied, Acknowledged
  <2>2. Applied(f, op) = [log |-> Append(f.log, op.arg), alarm |-> f.alarm, version |-> f.version, ok |-> f.ok]
    BY <1>1, <2>1
  <2>3. Acknowledged(d, op) = [kept EXCEPT ![d] = [log |-> Append(k.log, op.arg), alarm |-> k.alarm]]
    BY <1>2, <2>1
  <2>4. Append(f.log, op.arg) \in Seq(Nat) /\ Append(k.log, op.arg) \in Seq(Nat)
    BY <1>0, <1>1, <1>2
  <2> QED
    BY <1>1, <1>2, <2>2, <2>3, <2>4 DEF FileRecord
<1>4. CASE op.kind = "setAlarm"
  <2>1. Applied(f, op) = [f EXCEPT !.alarm = op.arg] /\ Acknowledged(d, op) = [kept EXCEPT ![d].alarm = op.arg]
    BY <1>4 DEF Applied, Acknowledged
  <2>2. Applied(f, op) = [log |-> f.log, alarm |-> op.arg, version |-> f.version, ok |-> f.ok]
    BY <1>1, <2>1
  <2>3. Acknowledged(d, op) = [kept EXCEPT ![d] = [log |-> k.log, alarm |-> op.arg]]
    BY <1>2, <2>1
  <2> QED
    BY <1>0, <1>1, <1>2, <2>2, <2>3 DEF FileRecord
<1>5. CASE op.kind = "deleteAlarm"
  <2>1. Applied(f, op) = [f EXCEPT !.alarm = 0]
        /\ Acknowledged(d, op) = IF op.arg = 0 THEN [kept EXCEPT ![d].alarm = 0] ELSE kept
    BY <1>5 DEF Applied, Acknowledged
  <2>2. Applied(f, op) = [log |-> f.log, alarm |-> 0, version |-> f.version, ok |-> f.ok]
    BY <1>1, <2>1
  <2>3. op.arg = 0 => Acknowledged(d, op) = [kept EXCEPT ![d] = [log |-> k.log, alarm |-> 0]]
    BY <1>2, <2>1
  <2>4. Applied(f, op) \in FileRecord /\ Applied(f, op).ok = f.ok /\ Applied(f, op).log = f.log /\ Applied(f, op).alarm = 0
    BY <1>1, <2>2 DEF FileRecord
  <2>5. CASE op.arg = 0
    <3>0. PICK h \in HeldRecord : h.log = k.log /\ h.alarm = 0 /\ Acknowledged(d, op) = [kept EXCEPT ![d] = h]
      BY <1>2, <2>3, <2>5
    <3> HIDE DEF HeldRecord
    <3>1. /\ Acknowledged(d, op) \in [VolumeDbs -> HeldRecord]
          /\ \A e \in VolumeDbs : e # d => Acknowledged(d, op)[e] = kept[e]
          /\ Acknowledged(d, op)[d].log = k.log /\ Acknowledged(d, op)[d].alarm = 0
      BY <3>0
    <3> QED
      BY <2>4, <3>1
  <2>6. CASE op.arg # 0
    <3>1. Acknowledged(d, op) = kept
      BY <2>1, <2>6
    <3> QED
      BY <1>5, <2>4, <2>6, <3>1
  <2> QED
    BY <2>5, <2>6
<1>6. CASE op.kind \notin {"put", "setAlarm", "deleteAlarm"}
  <2>1. Applied(f, op) = f /\ Acknowledged(d, op) = kept
    BY <1>6 DEF Applied, Acknowledged
  <2> QED
    BY <2>1
<1> QED
  BY <1>3, <1>4, <1>5, <1>6

\* What a write of an operation does to the alarm of its database.
AlarmWritten(j, d) ==
  \/ FileOf(d)'.alarm = kept'[d].alarm
  \/ AlarmsStay(d)
  \/ /\ Clears(j) /\ jobs[j].st = "queued" /\ FileOf(d).ok /\ kept'[d].alarm = kept[d].alarm
     /\ jobs'[j].st = "done" /\ jobs'[j].out = <<FileOf(d).alarm>>

\* A synchronous operation is done: it writes the file under begin immediate and commit.
LEMMA JobRuns ==
  ASSUME VolumeInv, NEW j \in DOMAIN jobs, First(j, jobs[j].db), jobs[j].st = "queued",
         FileOf(jobs[j].db).ok, jobs[j].op.kind # "transaction",
         jobs' = Done(Opened(jobs, jobs[j].db), j, "done", <<FileOf(jobs[j].db).alarm>>),
         pool' = poolOpen(pool, jobs[j].db), dbFiles' = With(dbFiles, jobs[j].db, Applied(FileOf(jobs[j].db), jobs[j].op)),
         kept' = Acknowledged(jobs[j].db, jobs[j].op), wq' = finished(jobs[j].db),
         UNCHANGED <<catalog, backups, backupDir>>
  PROVE  /\ VolumeInv' /\ Remembers /\ DOMAIN jobs' = DOMAIN jobs /\ AlarmWritten(j, jobs[j].db)
         /\ \A e \in VolumeDbs : e # jobs[j].db => AlarmsStay(e)
<1> USE DEF VolumeInv
<1>1. PICK d \in VolumeDbs : d = jobs[j].db
  BY JobsShape DEF VolumeShape
<1>2. PICK op \in OpRecord : op = jobs[j].op
  BY JobsShape DEF VolumeShape, JobRecord
<1>3. PICK f \in FileRecord : f = FileOf(d)
  BY FileShape
<1>4. PICK js : js = Opened(jobs, d)
  OBVIOUS
<1>5. jobs \in Seq(JobRecord) /\ Closes(js) /\ jobs[j].st \in {"queued", "running"}
  BY <1>4, CutCloses DEF VolumeShape, Opened
<1>6. PICK out \in Seq(Nat) : out = <<f.alarm>>
  <2>1. f.alarm \in Nat
    BY DEF FileRecord
  <2>2. <<f.alarm>> \in Seq(Nat)
    BY <2>1
  <2> QED
    BY ONLY <2>2
<1>7. JobMoves(j, "done", out)
  <2>1. jobs' = Done(js, j, "done", out)
    BY <1>1, <1>3, <1>4, <1>6
  <2>2. "done" \in JobStates
    BY DEF JobStates
  <2> QED
    BY <1>5, <2>1, <2>2, DoneMoves
<1>8. Remembers
  BY <1>5, <1>7, MoveRemembers
<1>9. QueueInv' /\ DOMAIN wq' \subseteq VolumeDbs /\ wq' \in [DOMAIN wq' -> QueueRecord]
  <2>1. Moves(j, "done")
    BY <1>7 DEF JobMoves
  <2>2. First(j, d) /\ wq' = finished(d)
    BY <1>1
  <2> QED
    BY <1>5, <2>1, <2>2, QueueEnds DEF VolumeShape
<1>10. PICK g : g = Applied(f, op)
  OBVIOUS
<1>11. dbFiles' = With(dbFiles, d, g) /\ kept' = Acknowledged(d, op)
  BY <1>1, <1>2, <1>3, <1>10
<1>12. /\ g \in FileRecord /\ g.ok = f.ok
       /\ kept' \in [VolumeDbs -> HeldRecord]
       /\ \A e \in VolumeDbs : e # d => kept'[e] = kept[e]
       /\ f.log = kept[d].log => g.log = kept'[d].log
       /\ \/ g.alarm = kept'[d].alarm
          \/ g.alarm = f.alarm /\ kept'[d].alarm = kept[d].alarm
          \/ op.kind = "deleteAlarm" /\ op.arg # 0 /\ kept'[d].alarm = kept[d].alarm
  <2>1. op.kind # "transaction" /\ kept \in [VolumeDbs -> HeldRecord]
    BY <1>2 DEF VolumeShape
  <2> QED
    BY <1>10, <1>11, <2>1, AppliedIsAcknowledged
<1>13. FileOf(d)' = g /\ DOMAIN dbFiles' = DOMAIN dbFiles \union {d} /\ \A e : e # d => FileOf(e)' = FileOf(e)
  BY <1>11, FileWritten
<1>14. VolumeShape'
  <2>1. pool' \in Seq(VolumeDbs) /\ Len(pool') <= MaxOpen
    BY <1>1, PoolOpened DEF VolumeShape
  <2>2. dbFiles' \in [DOMAIN dbFiles \union {d} -> FileRecord]
    <3>1. dbFiles \in [DOMAIN dbFiles -> FileRecord] /\ g \in FileRecord
      BY <1>12 DEF VolumeShape
    <3>2. With(dbFiles, d, g) \in [DOMAIN dbFiles \union {d} -> FileRecord]
      BY ONLY <3>1, WithShape
    <3> QED
      BY <1>11, <3>2
  <2> QED
    BY <1>7, <1>9, <1>12, <1>13, <2>1, <2>2 DEF VolumeShape, JobMoves
<1>15. \A e \in VolumeDbs : e # d => FileStays(e)
  BY <1>13 DEF FileStays
<1>16. LogInv'
  <2>1. ASSUME NEW e \in VolumeDbs PROVE HoldsLog(e)'
    <3>1. CASE e = d
      BY <1>1, <1>3, <1>12, <1>13, <3>1 DEF LogInv, HoldsLog
    <3>2. CASE e # d
      BY <1>12, <1>13, <3>2 DEF LogInv, HoldsLog
    <3> QED
      BY <3>1, <3>2
  <2>2. ASSUME NEW i \in DOMAIN jobs' PROVE RunsOnFile(i)'
    <3>1. i \in DOMAIN jobs /\ jobs[i].db \in VolumeDbs
      BY <1>5, <1>7, JobsShape DEF JobMoves, Moves
    <3>2. CASE i = j
      BY <1>7, <3>2 DEF JobMoves, Moves, RunsOnFile
    <3>3. CASE i # j /\ jobs[i].st = "running"
      <4>1. jobs[i].db # d
        BY <1>1, <1>5, <3>1, <3>3, OnlyFirstRuns
      <4>2. Same(jobs'[i], jobs[i])
        BY <1>7, <3>1, <3>3 DEF JobMoves
      <4> QED
        BY <1>15, <3>1, <4>1, <4>2, RunStays DEF LogInv
    <3>4. CASE i # j /\ jobs[i].st # "running"
      BY <1>7, <3>1, <3>4 DEF JobMoves, Moves, RunsOnFile
    <3> QED
      BY <3>2, <3>3, <3>4
  <2> QED
    BY <2>1, <2>2 DEF LogInv
<1>17. AlarmWritten(j, d)
  <2>1. f.ok
    BY <1>1, <1>3
  <2>2. jobs'[j].st = "done" /\ jobs'[j].out = <<f.alarm>>
    BY <1>6, <1>7 DEF JobMoves, Moves
  <2>3. CASE g.alarm = kept'[d].alarm
    BY <1>13, <2>3 DEF AlarmWritten
  <2>4. CASE g.alarm = f.alarm /\ kept'[d].alarm = kept[d].alarm
    BY <1>3, <1>13, <2>1, <2>4 DEF AlarmWritten, AlarmsStay
  <2>5. CASE op.kind = "deleteAlarm" /\ op.arg # 0 /\ kept'[d].alarm = kept[d].alarm
    BY <1>2, <1>3, <2>1, <2>2, <2>5 DEF AlarmWritten, Clears
  <2> QED
    BY <1>12, <2>3, <2>4, <2>5
<1>18. \A e \in VolumeDbs : e # d => AlarmsStay(e)
  BY <1>12, <1>13 DEF AlarmsStay
<1> QED
  BY <1>1, <1>8, <1>9, <1>14, <1>16, <1>17, <1>18, <1>7 DEF JobMoves, Moves

\* A transaction commits what it wrote over what it read: the file has not changed in between.
LEMMA TransactionCommits ==
  ASSUME VolumeInv, NEW j \in DOMAIN jobs, jobs[j].st = "running", jobs[j].alive,
         dbFiles' = [dbFiles EXCEPT ![jobs[j].db].log = Append(jobs[j].local, jobs[j].op.arg)],
         kept' = Acknowledged(jobs[j].db, jobs[j].op), jobs' = Done(jobs, j, "done", <<>>), wq' = finished(jobs[j].db),
         UNCHANGED <<catalog, pool, backups, backupDir>>
  PROVE  VolumeInv' /\ Remembers /\ DOMAIN jobs' = DOMAIN jobs /\ \A e \in VolumeDbs : AlarmsStay(e)
<1> USE DEF VolumeInv
<1>1. PICK d \in VolumeDbs : d = jobs[j].db
  BY JobsShape DEF VolumeShape
<1>2. PICK n \in Nat : n = jobs[j].op.arg
  BY JobsShape DEF VolumeShape, JobRecord, OpRecord
<1>3. jobs \in Seq(JobRecord) /\ Closes(jobs) /\ First(j, d)
  BY <1>1, NoneCloses, RunningIsFirst DEF VolumeShape
<1>4. JobMoves(j, "done", <<>>)
  <2>1. "done" \in JobStates
    BY DEF JobStates
  <2> QED
    BY <1>3, <2>1, EndMoves
<1>5. Remembers
  BY <1>4, MoveRemembers
<1>6. QueueInv' /\ DOMAIN wq' \subseteq VolumeDbs /\ wq' \in [DOMAIN wq' -> QueueRecord]
  <2>1. Moves(j, "done") /\ wq' = finished(d)
    BY <1>1, <1>4 DEF JobMoves
  <2> QED
    BY <1>3, <2>1, QueueEnds DEF VolumeShape
<1>7. d \in DOMAIN dbFiles /\ jobs[j].op.kind = "transaction" /\ FileOf(d).ok
      /\ jobs[j].local = FileOf(d).log /\ FileOf(d).log = kept[d].log
  BY <1>1 DEF LogInv, RunsOnFile, HoldsLog
<1>8. PICK f \in FileRecord : f = FileOf(d) /\ f = dbFiles[d]
  BY <1>7, FileShape DEF FileOf
<1> DEFINE log == Append(f.log, n)
           g == [log |-> log, alarm |-> f.alarm, version |-> f.version, ok |-> f.ok]
<1>9. f.log \in Seq(Nat) /\ log \in Seq(Nat) /\ g \in FileRecord
  BY DEF FileRecord
<1>10. dbFiles' = [dbFiles EXCEPT ![d] = g]
  <2>1. f = [log |-> f.log, alarm |-> f.alarm, version |-> f.version, ok |-> f.ok]
    BY DEF FileRecord
  <2>2. PICK h : h = [f EXCEPT !.log = log]
    OBVIOUS
  <2>3. h = g
    BY <2>1, <2>2
  <2>4. dbFiles' = [dbFiles EXCEPT ![d].log = log]
    BY <1>1, <1>2, <1>7, <1>8
  <2>5. dbFiles' = [dbFiles EXCEPT ![d] = h]
    BY <1>7, <1>8, <2>2, <2>4
  <2> HIDE DEF log, g
  <2> QED
    BY <2>3, <2>5
<1>11. FileOf(d)' = g /\ DOMAIN dbFiles' = DOMAIN dbFiles /\ \A e : e # d => FileOf(e)' = FileOf(e)
  <2> HIDE DEF g
  <2> QED
    BY <1>7, <1>10 DEF FileOf
<1>12. kept' = [kept EXCEPT ![d].log = Append(@, n)] /\ kept \in [VolumeDbs -> HeldRecord]
  <2>1. jobs[j].op.kind \in {"put", "transaction"}
    BY <1>7
  <2> QED
    BY <1>1, <1>2, <1>7, <2>1 DEF Acknowledged, VolumeShape
<1>13. /\ kept' \in [VolumeDbs -> HeldRecord] /\ kept'[d].log = log /\ kept'[d].alarm = kept[d].alarm
       /\ \A e \in VolumeDbs : e # d => kept'[e] = kept[e]
  <2>1. PICK k \in HeldRecord : k = kept[d]
    BY <1>12
  <2>2. k = [log |-> k.log, alarm |-> k.alarm] /\ k.log = f.log
    BY <1>7, <1>8, <2>1 DEF HeldRecord
  <2>3. PICK h : h = [k EXCEPT !.log = Append(@, n)] /\ kept' = [kept EXCEPT ![d] = h]
    BY <1>12, <2>1
  <2>4. h = [log |-> log, alarm |-> k.alarm]
    BY <2>2, <2>3
  <2>5. [log |-> log, alarm |-> k.alarm] \in HeldRecord
    BY <1>9 DEF HeldRecord
  <2>6. h \in HeldRecord /\ h.log = log /\ h.alarm = k.alarm
    BY <2>4, <2>5
  <2> HIDE DEF log
  <2> QED
    BY <1>12, <2>1, <2>3, <2>6
<1> HIDE DEF g, log
<1>14. VolumeShape'
  <2>1. dbFiles' \in [DOMAIN dbFiles -> FileRecord]
    BY <1>9, <1>10 DEF VolumeShape
  <2> QED
    BY <1>4, <1>6, <1>11, <1>13, <2>1 DEF VolumeShape, JobMoves
<1>15. \A e \in VolumeDbs : e # d => FileStays(e)
  BY <1>11 DEF FileStays
<1>16. LogInv'
  <2>1. ASSUME NEW e \in VolumeDbs PROVE HoldsLog(e)'
    <3>1. CASE e = d
      BY <1>11, <1>13, <3>1 DEF HoldsLog, g
    <3>2. CASE e # d
      BY <1>11, <1>13, <3>2 DEF LogInv, HoldsLog
    <3> QED
      BY <3>1, <3>2
  <2>2. ASSUME NEW i \in DOMAIN jobs' PROVE RunsOnFile(i)'
    <3>1. i \in DOMAIN jobs /\ jobs[i].db \in VolumeDbs
      BY <1>3, <1>4, JobsShape DEF JobMoves, Moves
    <3>2. CASE i = j
      BY <1>4, <3>2 DEF JobMoves, Moves, RunsOnFile
    <3>3. CASE i # j /\ jobs[i].st = "running"
      <4>1. jobs[i].db # d
        BY <1>3, <3>1, <3>3, OnlyFirstRuns
      <4>2. Same(jobs'[i], jobs[i])
        BY <1>4, <3>1, <3>3 DEF JobMoves
      <4> QED
        BY <1>15, <3>1, <4>1, <4>2, RunStays DEF LogInv
    <3>4. CASE i # j /\ jobs[i].st # "running"
      BY <1>4, <3>1, <3>4 DEF JobMoves, Moves, RunsOnFile
    <3> QED
      BY <3>2, <3>3, <3>4
  <2> QED
    BY <2>1, <2>2 DEF LogInv
<1>17. ASSUME NEW e \in VolumeDbs PROVE AlarmsStay(e)
  <2>1. CASE e = d
    <3>1. FileOf(d)'.ok = f.ok /\ FileOf(d)'.alarm = f.alarm
      BY <1>11 DEF g
    <3> QED
      BY <1>7, <1>8, <1>13, <2>1, <3>1 DEF AlarmsStay
  <2>2. CASE e # d
    BY <1>11, <1>13, <2>2 DEF AlarmsStay
  <2> QED
    BY <2>1, <2>2
<1> QED
  BY <1>5, <1>6, <1>14, <1>16, <1>17, <1>4 DEF JobMoves, Moves

\* The file of a database was opened and perhaps made: exportDatabase() opens it first.
LEMMA Exports ==
  ASSUME VolumeInv, NEW d \in VolumeDbs, NEW b, exportDatabase(d, b)
  PROVE  VolumeInv' /\ Remembers /\ DOMAIN jobs' = DOMAIN jobs /\ \A e \in VolumeDbs : AlarmsStay(e)
<1> USE DEF VolumeInv
<1>1. /\ d \in DOMAIN catalog /\ FileOf(d).ok /\ pool' = poolOpen(pool, d) /\ jobs' = Opened(jobs, d)
      /\ dbFiles' = With(dbFiles, d, FileOf(d)) /\ UNCHANGED <<catalog, wq, kept>>
  BY DEF exportDatabase
<1>2. Closes(jobs')
  BY <1>1, CutCloses DEF VolumeShape, Opened
<1>3. QueueInv' /\ Remembers
  BY <1>1, <1>2, QueuesStay, ClosesRemembers
<1>4. dbFiles' = dbFiles
  BY <1>1 DEF With, FileOf, VolumeShape
<1>5. VolumeShape'
  BY <1>1, <1>2, <1>4, PoolOpened DEF VolumeShape, Closes
<1>6. \A e : FileOf(e)' = FileOf(e)
  BY <1>4 DEF FileOf
<1>7. FilesStay
  BY <1>4, <1>6 DEF FilesStay, FileStays
<1>8. (\A e \in VolumeDbs : HoldsLog(e))' /\ (\A j \in DOMAIN jobs : RunsOnFile(j))'
  BY <1>1, <1>2, <1>7, LogStays DEF Closes
<1>9. LogInv'
  BY <1>8 DEF LogInv
<1>10. \A e \in VolumeDbs : AlarmsStay(e)
  BY <1>1, <1>6 DEF AlarmsStay
<1> QED
  BY <1>2, <1>3, <1>5, <1>9, <1>10 DEF Closes

\* pruneBackups() touches no database.
LEMMA Prunes ==
  ASSUME VolumeInv, NEW dbs, pruneBackups(dbs)
  PROVE  VolumeInv' /\ Remembers /\ DOMAIN jobs' = DOMAIN jobs /\ \A e \in VolumeDbs : AlarmsStay(e)
<1> USE DEF VolumeInv
<1>2. UNCHANGED <<catalog, dbFiles, pool, wq, jobs, kept>>
  BY DEF pruneBackups
<1>3. Closes(jobs')
  BY <1>2, NoneCloses DEF VolumeShape
<1>4. QueueInv' /\ Remembers
  BY <1>2, <1>3, QueuesStay, ClosesRemembers
<1>5. VolumeShape'
  BY <1>2 DEF VolumeShape
<1>6. \A e : FileOf(e)' = FileOf(e)
  BY <1>2 DEF FileOf
<1>7. FilesStay
  BY <1>2, <1>6 DEF FilesStay, FileStays
<1>8. (\A e \in VolumeDbs : HoldsLog(e))' /\ (\A j \in DOMAIN jobs : RunsOnFile(j))'
  BY <1>2, <1>3, <1>7, LogStays DEF Closes
<1>9. LogInv'
  BY <1>8 DEF LogInv
<1>10. \A e \in VolumeDbs : AlarmsStay(e)
  BY <1>2, <1>6 DEF AlarmsStay
<1> QED
  BY <1>2, <1>4, <1>5, <1>9, <1>10

\* restoreDatabase() closes the handle, so that nothing under way on the database can commit any more.
LEMMA Restores ==
  ASSUME VolumeInv, BackupInv, NEW d \in VolumeDbs, NEW b, NEW byPath, restoreDatabase(d, b, byPath)
  PROVE  /\ VolumeInv' /\ Remembers /\ DOMAIN jobs' = DOMAIN jobs
         /\ FileOf(d)'.alarm = kept'[d].alarm /\ \A e \in VolumeDbs : e # d => AlarmsStay(e)
<1> USE DEF VolumeInv
<1>1. PICK f : f = backupDir[b].file
  OBVIOUS
<1>2. f \in FileRecord /\ f.ok
  BY <1>1 DEF restoreDatabase, restoreSource, decryptBackupIfNeeded, BackupInv, BackupsKept
<1>3. /\ dbFiles' = With(dbFiles, d, f) /\ catalog' = With(catalog, d, [schema |-> f.version])
      /\ pool' = poolOpen(poolClose(pool, d), d) /\ kept' = [kept EXCEPT ![d] = [log |-> f.log, alarm |-> f.alarm]]
      /\ UNCHANGED <<wq, backups, backupDir>>
  BY <1>1 DEF restoreDatabase
<1>4. PICK shut : jobs' = Cut(jobs, shut) /\ d \in shut
  BY DEF restoreDatabase
<1>5. Closes(jobs') /\ \A j \in DOMAIN jobs : jobs[j].st = "running" /\ jobs[j].db = d => ~jobs'[j].alive
  BY <1>4, CutCloses DEF VolumeShape
<1>6. QueueInv' /\ Remembers
  BY <1>3, <1>5, QueuesStay, ClosesRemembers
<1>7. FileOf(d)' = f /\ DOMAIN dbFiles' = DOMAIN dbFiles \union {d} /\ \A e : e # d => FileOf(e)' = FileOf(e)
  BY <1>3, FileWritten
<1>8. /\ kept' \in [VolumeDbs -> HeldRecord] /\ kept'[d].log = f.log /\ kept'[d].alarm = f.alarm
      /\ \A e \in VolumeDbs : e # d => kept'[e] = kept[e]
  <2>1. [log |-> f.log, alarm |-> f.alarm] \in HeldRecord
    BY <1>2 DEF HeldRecord, FileRecord
  <2> QED
    BY <1>3, <2>1 DEF VolumeShape
<1>9. VolumeShape'
  <2>1. pool' \in Seq(VolumeDbs) /\ Len(pool') <= MaxOpen
    <3>1. poolClose(pool, d) \in Seq(VolumeDbs)
      BY PoolClosed DEF VolumeShape
    <3> QED
      BY <1>3, <3>1, PoolOpened
  <2>2. dbFiles' \in [DOMAIN dbFiles \union {d} -> FileRecord]
    <3>1. dbFiles \in [DOMAIN dbFiles -> FileRecord]
      BY DEF VolumeShape
    <3>2. With(dbFiles, d, f) \in [DOMAIN dbFiles \union {d} -> FileRecord]
      BY ONLY <1>2, <3>1, WithShape
    <3> QED
      BY <1>3, <3>2
  <2>3. catalog' \in [DOMAIN catalog \union {d} -> CatalogRow] /\ DOMAIN catalog' = DOMAIN catalog \union {d}
    <3>1. PICK r \in CatalogRow : r = [schema |-> f.version]
      BY <1>2 DEF FileRecord, CatalogRow
    <3>2. catalog \in [DOMAIN catalog -> CatalogRow] /\ catalog' = With(catalog, d, r)
      BY <1>3, <3>1 DEF VolumeShape
    <3> QED
      BY <3>2 DEF With
  <2> QED
    BY <1>3, <1>5, <1>7, <1>8, <2>1, <2>2, <2>3 DEF VolumeShape, Closes
<1>10. \A e \in VolumeDbs : e # d => FileStays(e)
  BY <1>7 DEF FileStays
<1>11. LogInv'
  <2>1. ASSUME NEW e \in VolumeDbs PROVE HoldsLog(e)'
    <3>1. CASE e = d
      BY <1>7, <1>8, <3>1 DEF HoldsLog
    <3>2. CASE e # d
      BY <1>7, <1>8, <3>2 DEF LogInv, HoldsLog
    <3> QED
      BY <3>1, <3>2
  <2>2. ASSUME NEW j \in DOMAIN jobs' PROVE RunsOnFile(j)'
    <3>1. j \in DOMAIN jobs /\ jobs[j].db \in VolumeDbs /\ Same(jobs'[j], jobs[j])
      BY <1>5, JobsShape DEF Closes, VolumeShape
    <3>2. CASE jobs[j].db = d
      BY <1>5, <3>1, <3>2 DEF LogInv, RunsOnFile, Same
    <3>3. CASE jobs[j].db # d
      BY <1>10, <3>1, <3>3, RunStays DEF LogInv
    <3> QED
      BY <3>2, <3>3
  <2> QED
    BY <2>1, <2>2 DEF LogInv
<1>12. \A e \in VolumeDbs : e # d => AlarmsStay(e)
  BY <1>7, <1>8 DEF AlarmsStay
<1> QED
  BY <1>5, <1>6, <1>7, <1>8, <1>9, <1>11, <1>12 DEF Closes

\* A restart: nothing waits or runs any more; a restore cut short may leave a file that does not open.
LEMMA Restarts ==
  ASSUME VolumeInv, RestartVolume
  PROVE  /\ VolumeInv' /\ Remembers /\ DOMAIN jobs' = DOMAIN jobs /\ (\A e \in VolumeDbs : AlarmsStay(e))
         /\ \A j \in DOMAIN jobs' : jobs'[j].st \notin {"queued", "running"}
<1> USE DEF VolumeInv
<1>0. pool' = <<>> /\ wq' = <<>> /\ UNCHANGED <<catalog, backups, backupDir, kept>>
  BY DEF RestartVolume
<1>1. jobs' = [j \in DOMAIN jobs |-> IF jobs[j].st \in {"queued", "running"}
                                    THEN [jobs[j] EXCEPT !.st = "lost", !.local = <<>>] ELSE jobs[j]]
  BY DEF RestartVolume
<1>2. jobs \in Seq(JobRecord) /\ DOMAIN jobs = 1..Len(jobs) /\ Len(jobs) \in Nat /\ \A j \in DOMAIN jobs : jobs[j] \in JobRecord
  BY JobsShape DEF VolumeShape
<1>3. ASSUME NEW j \in DOMAIN jobs
      PROVE  /\ jobs'[j] \in JobRecord /\ jobs'[j].db = jobs[j].db /\ jobs'[j].op = jobs[j].op
             /\ jobs'[j].st \notin {"queued", "running"}
             /\ jobs[j].st \in {"done", "failed"} => jobs'[j].st = jobs[j].st /\ jobs'[j].out = jobs[j].out
  <2>1. PICK q \in JobRecord : q = jobs[j]
    BY <1>2
  <2>2. q = [db |-> q.db, op |-> q.op, after |-> q.after, st |-> q.st, alive |-> q.alive, local |-> q.local, out |-> q.out]
    BY DEF JobRecord
  <2>3. CASE q.st \in {"queued", "running"}
    <3> DEFINE e == [q EXCEPT !.st = "lost", !.local = <<>>]
    <3>1. jobs'[j] = e
      BY <1>1, <2>1, <2>3
    <3>2. DOMAIN q = {"db", "op", "after", "st", "alive", "local", "out"} /\ e = [x \in DOMAIN q |-> e[x]]
      BY <2>2
    <3>3. e.db = q.db /\ e.op = q.op /\ e.after = q.after /\ e.st = "lost" /\ e.alive = q.alive /\ e.local = <<>> /\ e.out = q.out
      BY <3>2
    <3> HIDE DEF e
    <3>4. e = [db |-> e.db, op |-> e.op, after |-> e.after, st |-> e.st, alive |-> e.alive, local |-> e.local, out |-> e.out]
      BY ONLY <2>1, <3>2, JobFields
    <3>5. e.local \in Seq(Nat)
      BY <3>3
    <3>6. e.db \in VolumeDbs /\ e.op \in OpRecord /\ e.after \in Nat /\ e.st \in JobStates /\ e.alive \in BOOLEAN /\ e.out \in Seq(Nat)
      BY <2>1, <3>3 DEF JobRecord, JobStates
    <3>7. e \in JobRecord
      BY <3>4, <3>5, <3>6 DEF JobRecord
    <3> QED
      BY <2>1, <2>3, <3>1, <3>3, <3>7
  <2>4. CASE q.st \notin {"queued", "running"}
    BY <1>1, <2>1, <2>4
  <2> QED
    BY <2>3, <2>4
<1>4. jobs' \in Seq(JobRecord) /\ DOMAIN jobs' = DOMAIN jobs
  <2>1. jobs' = [j \in 1..Len(jobs) |-> jobs'[j]]
    BY <1>1, <1>2
  <2>2. jobs' \in [1..Len(jobs) -> JobRecord]
    BY <1>2, <1>3, <2>1
  <2> QED
    BY <1>2, <2>2
<1>5. Remembers
  BY <1>3, <1>4 DEF Remembers
<1>6. QueueInv'
  <2>1. \A d \in VolumeDbs : Live(d)' = {}
    <3>1. \A j \in DOMAIN jobs' : jobs'[j].st \notin {"queued", "running"}
      BY <1>3, <1>4
    <3> QED
      BY <3>1 DEF Live, Mine
  <2>2. DOMAIN wq' = {}
    BY <1>0
  <2>3. \A d : Waiting(d)' = 0
    BY <2>2 DEF Waiting
  <2>4. ASSUME NEW d \in VolumeDbs PROVE QueueOf(d)'
    <3>1. InOrder(d)' /\ Chained(d)'
      BY <2>1 DEF InOrder, Chained
    <3>2. TailIsLast(d)'
      BY <2>2 DEF TailIsLast
    <3>3. Counts(d)'
      BY <2>1, <2>3, VolumeAssumption, FS_EmptySet DEF Counts
    <3> QED
      BY <3>1, <3>2, <3>3 DEF QueueOf
  <2> QED
    BY <2>4 DEF QueueInv
<1>7. /\ DOMAIN dbFiles' = DOMAIN dbFiles /\ dbFiles' \in [DOMAIN dbFiles -> FileRecord]
      /\ \A e \in VolumeDbs : FileOf(e)'.ok => FileOf(e)' = FileOf(e)
  <2>1. CASE dbFiles' = dbFiles
    BY <2>1 DEF FileOf, VolumeShape
  <2>2. ASSUME NEW d \in DOMAIN dbFiles, dbFiles' = [dbFiles EXCEPT ![d].ok = FALSE]
        PROVE  /\ DOMAIN dbFiles' = DOMAIN dbFiles /\ dbFiles' \in [DOMAIN dbFiles -> FileRecord]
               /\ \A e \in VolumeDbs : FileOf(e)'.ok => FileOf(e)' = FileOf(e)
    <3>1. PICK f \in FileRecord : f = dbFiles[d]
      BY DEF VolumeShape
    <3>2. f = [log |-> f.log, alarm |-> f.alarm, version |-> f.version, ok |-> f.ok]
      BY DEF FileRecord
    <3>3. PICK g : g = [f EXCEPT !.ok = FALSE]
      OBVIOUS
    <3>4. g = [log |-> f.log, alarm |-> f.alarm, version |-> f.version, ok |-> FALSE]
      BY <3>2, <3>3
    <3>5. g \in FileRecord /\ ~g.ok
      BY <3>4 DEF FileRecord
    <3>6. dbFiles' = [dbFiles EXCEPT ![d] = g]
      BY <2>2, <3>1, <3>3
    <3> QED
      BY <3>5, <3>6 DEF FileOf, VolumeShape
  <2>3. dbFiles' = dbFiles \/ \E d \in DOMAIN dbFiles : dbFiles' = [dbFiles EXCEPT ![d].ok = FALSE]
    BY DEF RestartVolume
  <2> QED
    BY <2>1, <2>2, <2>3
<1>8. VolumeShape'
  <2>1. pool' \in Seq(VolumeDbs) /\ Len(pool') <= MaxOpen
    BY <1>0, VolumeAssumption
  <2>2. DOMAIN wq' = {} /\ wq' \in [DOMAIN wq' -> QueueRecord]
    BY <1>0
  <2> QED
    BY <1>0, <1>4, <1>7, <2>1, <2>2 DEF VolumeShape
<1>9. LogInv'
  <2>1. ASSUME NEW e \in VolumeDbs PROVE HoldsLog(e)'
    BY <1>0, <1>7 DEF LogInv, HoldsLog
  <2>2. (\A j \in DOMAIN jobs : RunsOnFile(j))'
    BY <1>3, <1>4 DEF RunsOnFile
  <2> QED
    BY <2>1, <2>2 DEF LogInv
<1>10. \A e \in VolumeDbs : AlarmsStay(e)
  BY <1>0, <1>7 DEF AlarmsStay
<1> QED
  BY <1>3, <1>4, <1>5, <1>6, <1>8, <1>9, <1>10

\* Nothing at all is done to the databases.
LEMMA VolumeStays ==
  ASSUME VolumeInv, UNCHANGED <<catalog, dbFiles, pool, wq, jobs, backups, backupDir>>,
         kept' \in [VolumeDbs -> HeldRecord], \A d \in VolumeDbs : kept'[d].log = kept[d].log
  PROVE  VolumeInv' /\ Remembers /\ DOMAIN jobs' = DOMAIN jobs
<1> USE DEF VolumeInv
<1>1. Closes(jobs')
  BY NoneCloses DEF VolumeShape
<1>2. QueueInv' /\ Remembers
  BY <1>1, QueuesStay, ClosesRemembers
<1>3. \A e : FileOf(e)' = FileOf(e)
  BY DEF FileOf
<1>4. FilesStay
  BY <1>3 DEF FilesStay, FileStays
<1>5. \A d \in VolumeDbs : HoldsLog(d)'
  BY <1>3 DEF LogInv, HoldsLog
<1>6. \A j \in DOMAIN jobs : RunsOnFile(j)'
  <2>1. ASSUME NEW j \in DOMAIN jobs PROVE RunsOnFile(j)'
    <3>1. jobs[j].db \in VolumeDbs /\ Same(jobs'[j], jobs[j])
      BY <1>1, JobsShape DEF Closes, VolumeShape
    <3> QED
      BY <1>4, <3>1, RunStays DEF LogInv, FilesStay
  <2> QED
    BY <2>1
<1>7. VolumeShape'
  BY DEF VolumeShape
<1> QED
  BY <1>2, <1>5, <1>6, <1>7 DEF LogInv

\* Each step of an operation in its queue: it fails, begins or is done.
LEMMA JobSteps ==
  ASSUME VolumeInv, NEW j \in DOMAIN jobs, RunJob(j) \/ EndTransaction(j)
  PROVE  /\ VolumeInv' /\ Remembers /\ DOMAIN jobs' = DOMAIN jobs
         /\ \A e \in VolumeDbs : AlarmsStay(e) \/ (e = jobs[j].db /\ AlarmWritten(j, e))
<1> USE DEF VolumeInv
<1> DEFINE d == jobs[j].db
<1>1. jobs \in Seq(JobRecord) /\ d \in VolumeDbs
  BY JobsShape DEF VolumeShape
<1>2. jobs[j].st \in {"queued", "running"} => First(j, d)
  <2>1. CASE RunJob(j)
    BY <1>1, <2>1, ReadyIsFirst DEF RunJob
  <2>2. CASE EndTransaction(j)
    BY <1>1, <2>2, RunningIsFirst DEF EndTransaction
  <2> QED
    BY <2>1, <2>2
<1>3. jobs[j].st \in {"queued", "running"} /\ First(j, d)
  BY <1>2 DEF RunJob, EndTransaction, Ready
<1>4. CASE /\ jobs' = Done(jobs, j, "failed", <<>>) /\ wq' = finished(d)
           /\ UNCHANGED <<catalog, dbFiles, pool, kept, backups, backupDir>>
  BY <1>3, <1>4, JobFails
<1>5. CASE RunJob(j) /\ d \in DOMAIN catalog /\ FileOf(d).ok
  <2>1. /\ jobs[j].st = "queued" /\ pool' = poolOpen(pool, d) /\ UNCHANGED <<catalog, backups, backupDir>>
    BY <1>5 DEF RunJob, Ready
  <2>2. CASE /\ jobs[j].op.kind = "transaction" /\ Begins(Opened(jobs, d), j, FileOf(d).log)
             /\ wq' = [wq EXCEPT ![d].active = TRUE] /\ UNCHANGED <<dbFiles, kept>>
    BY <1>3, <1>5, <2>1, <2>2, JobBegins
  <2>3. CASE /\ jobs[j].op.kind # "transaction" /\ jobs' = Done(Opened(jobs, d), j, "done", <<FileOf(d).alarm>>)
             /\ dbFiles' = With(dbFiles, d, Applied(FileOf(d), jobs[j].op)) /\ kept' = Acknowledged(d, jobs[j].op)
             /\ wq' = finished(d)
    <3>1. /\ VolumeInv' /\ Remembers /\ AlarmWritten(j, d)
          /\ DOMAIN jobs' = DOMAIN jobs /\ \A e \in VolumeDbs : e # d => AlarmsStay(e)
      BY <1>3, <1>5, <2>1, <2>3, JobRuns
    <3> QED
      BY <3>1
  <2> QED
    BY <1>5, <2>2, <2>3 DEF RunJob, Begins
<1>6. CASE RunJob(j) /\ ~(d \in DOMAIN catalog /\ FileOf(d).ok)
  BY <1>4, <1>6 DEF RunJob
<1>7. CASE EndTransaction(j)
  <2>1. CASE /\ jobs[j].alive /\ dbFiles' = [dbFiles EXCEPT ![d].log = Append(jobs[j].local, jobs[j].op.arg)]
             /\ kept' = Acknowledged(d, jobs[j].op) /\ jobs' = Done(jobs, j, "done", <<>>)
    BY <1>7, <2>1, TransactionCommits DEF EndTransaction
  <2>2. CASE UNCHANGED <<dbFiles, kept>> /\ jobs' = Done(jobs, j, "failed", <<>>)
    BY <1>4, <1>7, <2>2 DEF EndTransaction
  <2> QED
    BY <1>7, <2>1, <2>2 DEF EndTransaction
<1> QED
  BY <1>5, <1>6, <1>7

\* What may be done to the alarm of a database without losing it.
AlarmSafe(d) == AlarmsStay(d) \/ FileOf(d)'.alarm = kept'[d].alarm

\* Nothing new waits to delete an alarm for the dispatcher.
NothingClears == \A j \in DOMAIN jobs' \ DOMAIN jobs : ~Clears(j)'

\* Alarms are held while the dispatcher does not move.
LEMMA AlarmsHeld ==
  ASSUME AlarmInv, Remembers, dsp' = dsp, raced' = raced, NothingClears, \A d \in VolumeDbs : AlarmSafe(d)
  PROVE  DispatcherShape' /\ (\A j \in DOMAIN jobs : ClearsForDispatcher(j))' /\ \A d \in VolumeDbs : HoldsAlarm(d)'
<1>1. DispatcherShape'
  BY DEF AlarmInv, DispatcherShape, Remembers
<1>2. ASSUME NEW j \in DOMAIN jobs' PROVE ClearsForDispatcher(j)'
  <2>1. CASE j \in DOMAIN jobs
    BY <2>1 DEF AlarmInv, ClearsForDispatcher, Clears, Remembers
  <2>2. CASE j \notin DOMAIN jobs
    BY <2>2 DEF NothingClears, ClearsForDispatcher
  <2> QED
    BY <2>1, <2>2
<1>3. ASSUME NEW d \in VolumeDbs, AlarmsStay(d) PROVE HoldsAlarm(d)'
  <2>1. Cleared(d) => Cleared(d)'
    BY <1>3 DEF AlarmInv, DispatcherShape, Cleared, Remembers, AlarmsStay
  <2> QED
    BY <1>3, <2>1 DEF AlarmInv, HoldsAlarm, AlarmsStay
<1>4. ASSUME NEW d \in VolumeDbs, FileOf(d)'.alarm = kept'[d].alarm PROVE HoldsAlarm(d)'
  BY <1>4 DEF HoldsAlarm
<1> QED
  BY <1>1, <1>2, <1>3, <1>4 DEF AlarmSafe

\* They are when it moves, but not from or to where it waits for a deletion.
LEMMA AlarmsHeldByDispatcher ==
  ASSUME AlarmInv, Remembers, dsp.pc # "clear", raced' = raced, NothingClears, \A d \in VolumeDbs : AlarmSafe(d)
  PROVE  (\A j \in DOMAIN jobs : ClearsForDispatcher(j))' /\ \A d \in VolumeDbs : HoldsAlarm(d)'
<1>1. ASSUME NEW j \in DOMAIN jobs' PROVE ClearsForDispatcher(j)'
  <2>1. CASE j \in DOMAIN jobs
    BY <2>1 DEF AlarmInv, ClearsForDispatcher, Clears, Remembers
  <2>2. CASE j \notin DOMAIN jobs
    BY <2>2 DEF NothingClears, ClearsForDispatcher
  <2> QED
    BY <2>1, <2>2
<1>2. ASSUME NEW d \in VolumeDbs, AlarmsStay(d) PROVE HoldsAlarm(d)'
  <2>1. ~Cleared(d)
    BY DEF Cleared
  <2> QED
    BY <1>2, <2>1 DEF AlarmInv, HoldsAlarm, AlarmsStay
<1>3. ASSUME NEW d \in VolumeDbs, FileOf(d)'.alarm = kept'[d].alarm PROVE HoldsAlarm(d)'
  BY <1>3 DEF HoldsAlarm
<1> QED
  BY <1>1, <1>2, <1>3 DEF AlarmSafe

\* A backup that does not keep its rank is itself among those that go: whatever is deleted beyond the newest
\* k backups of a database, the others that are beyond them stay so.
LEMMA RankKept ==
  ASSUME NEW rows, IsFiniteSet(DOMAIN rows), DOMAIN rows \subseteq Nat, \A c \in DOMAIN rows : rows[c].created \in Int,
         NEW k \in Int, NEW done \in SUBSET DOMAIN rows, \A c \in done : rankOf(rows, c) >= k,
         NEW b \in DOMAIN rows \ done, rankOf(rows, b) >= k
  PROVE  rankOf(Without(rows, done), b) >= k
<1> DEFINE N(c) == {x \in DOMAIN rows : newer(rows, x, c)}
<1>1. \A c : IsFiniteSet(N(c)) /\ Cardinality(N(c)) \in Nat /\ rankOf(rows, c) = Cardinality(N(c))
  BY FS_Subset, FS_CardinalityType DEF rankOf
<1>2. \A c \in DOMAIN rows : \A x \in N(c) : x \notin N(x) /\ N(x) \subseteq N(c)
  BY DEF newer
<1>3. rankOf(Without(rows, done), b) = Cardinality(N(b) \ done)
  <2>1. {x \in DOMAIN Without(rows, done) : newer(Without(rows, done), x, b)} = N(b) \ done
    BY DEF Without, newer
  <2> QED
    BY <2>1 DEF rankOf
<1>4. IsFiniteSet(N(b) \ done) /\ Cardinality(N(b) \ done) \in Nat
  BY <1>1, FS_Subset, FS_CardinalityType
<1>5. N(b) \subseteq DOMAIN rows
  OBVIOUS
<1> HIDE DEF N
<1>6. CASE N(b) \cap done = {}
  <2>1. N(b) \ done = N(b)
    BY <1>6
  <2> QED
    BY <1>1, <1>3, <2>1
<1>7. CASE N(b) \cap done # {}
  <2> DEFINE Ranks == {Cardinality(N(c)) : c \in N(b) \cap done}
  <2>1. Ranks \in SUBSET Nat /\ Ranks # {}
    BY <1>1, <1>7
  <2>2. PICK c \in N(b) \cap done : \A m \in Ranks : Cardinality(N(c)) <= m
    <3>1. PICK m \in Ranks : \A n \in Ranks : m <= n
      BY <2>1, LeastNat
    <3> QED
      BY <3>1
  <2>3. ASSUME NEW x \in N(c), x \in done PROVE FALSE
    <3>1. x \in N(b) /\ x \in N(c) /\ x \notin N(x) /\ N(x) \subseteq N(c)
      BY <1>2, <1>5, <2>3
    <3>2. Cardinality(N(x)) <= Cardinality(N(c)) /\ Cardinality(N(x)) # Cardinality(N(c))
      BY <1>1, <3>1, FS_Subset
    <3>3. Cardinality(N(c)) <= Cardinality(N(x))
      BY <2>2, <2>3, <3>1
    <3> QED
      BY <1>1, <3>2, <3>3
  <2>4. N(c) \subseteq N(b) \ done
    BY <1>2, <2>2, <2>3
  <2>5. Cardinality(N(c)) <= Cardinality(N(b) \ done)
    BY <1>4, <2>4, FS_Subset
  <2>6. Cardinality(N(c)) >= k
    BY <1>1, <2>2
  <2> QED
    BY <1>1, <1>3, <1>4, <2>5, <2>6
<1> QED
  BY <1>6, <1>7

\* What the retention does not keep, it does not keep later on.
LEMMA BackupsLater ==
  ASSUME NEW rows, NEW dir, BackupsKept(rows, dir), volTime \in Nat, volTime' \in Nat, volTime' >= volTime
  PROVE  BackupsKept(rows, dir)'
<1>1. ASSUME NEW b \in DOMAIN rows, Beyond(rows, b) PROVE Beyond(rows, b)'
  BY <1>1, VolumeAssumption DEF Beyond, backupCreatedBefore, BackupsKept, rankOf, newer
<1> QED
  BY <1>1 DEF BackupsKept, HasFile

\* deleteBackup(), however far it came: the rows that stay have their files, or stay beyond the retention.
LEMMA BackupsDeleted ==
  ASSUME NEW rows, NEW dir, BackupsKept(rows, dir), NEW dbs, volTime' = volTime,
         deleteBackups(rows, dir, prunedBackups(rows, dbs, KeepLatest, RetentionMs))
  PROVE  BackupInv'
<1> DEFINE gone == prunedBackups(rows, dbs, KeepLatest, RetentionMs)
<1>1. gone \subseteq DOMAIN rows /\ \A b \in gone : Beyond(rows, b)
  BY DEF prunedBackups, Beyond
<1> HIDE DEF gone
<1>2. PICK done \in SUBSET gone, lost \in SUBSET gone : backups' = Without(rows, done) /\ backupDir' = Without(dir, lost)
  <2>1. PICK done \in SUBSET gone :
          /\ backups' = Without(rows, done)
          /\ backupDir' = Without(dir, done) \/ \E b \in gone \ done : backupDir' = Without(dir, done \union {b})
    BY DEF deleteBackups, gone
  <2> QED
    BY <2>1
<1>3. /\ DOMAIN backups' = DOMAIN rows \ done /\ DOMAIN backupDir' = DOMAIN dir \ lost
      /\ \A b \in DOMAIN backups' : backups'[b] = rows[b]
      /\ \A b \in DOMAIN backupDir' : backupDir'[b] = dir[b]
  BY <1>2 DEF Without
<1>4. ASSUME NEW b \in DOMAIN backups', Beyond(rows, b) PROVE Beyond(backups', b)
  <2>1. CASE KeepLatest >= 0
    <3>1. done \in SUBSET DOMAIN rows /\ \A c \in done : rankOf(rows, c) >= KeepLatest
      BY <1>1, <2>1, VolumeAssumption DEF Beyond
    <3>2. rankOf(rows, b) >= KeepLatest /\ b \in DOMAIN rows \ done
      BY <1>3, <1>4, <2>1, VolumeAssumption DEF Beyond
    <3>3. rankOf(backups', b) >= KeepLatest
      BY <1>2, <3>1, <3>2, RankKept, VolumeAssumption DEF BackupsKept
    <3> QED
      BY <2>1, <3>3 DEF Beyond
  <2>2. CASE ~(KeepLatest >= 0)
    BY <1>3, <1>4, <2>2 DEF Beyond
  <2> QED
    BY <2>1, <2>2
<1>5. ASSUME NEW b \in DOMAIN backups' PROVE HasFile(backups', backupDir', b) \/ Beyond(backups', b)
  <2>1. CASE Beyond(rows, b)
    BY <1>4, <2>1
  <2>2. CASE ~Beyond(rows, b)
    BY <1>1, <1>3, <2>2 DEF BackupsKept, HasFile
  <2> QED
    BY <2>1, <2>2
<1>6. IsFiniteSet(DOMAIN backups')
  BY <1>3, FS_Subset DEF BackupsKept
<1>7. BackupsKept(backups', backupDir')
  BY <1>3, <1>5, <1>6 DEF BackupsKept
<1> QED
  BY <1>7 DEF BackupInv, BackupsKept, HasFile, Beyond, rankOf, newer, backupCreatedBefore

\* Nothing is done to the backups.
LEMMA BackupsStay ==
  ASSUME BackupInv, UNCHANGED <<backups, backupDir, volTime>>
  PROVE  BackupInv'
BY DEF BackupInv, BackupsKept, HasFile, Beyond, rankOf, newer, backupCreatedBefore

\* exportDatabase() adds a file and its row, or the file alone, beside a row that has lost its own.
LEMMA BackupExported ==
  ASSUME ObjectInv, BackupInv, NEW d \in VolumeDbs, NEW b \in Nat, volTime \in Nat, volTime' = volTime, exportDatabase(d, b)
  PROVE  BackupInv'
<1>1. PICK f \in FileRecord : f = FileOf(d) /\ f.ok
  <2>1. FileOf(d) \in FileRecord
    BY FileShape DEF ObjectInv, VolumeInv
  <2> QED
    BY <2>1 DEF exportDatabase
<1>2. PICK e : e = encryptBackupIfConfigured
  OBVIOUS
<1> DEFINE dir == With(backupDir, b, [file |-> f, seal |-> e])
           row == [db |-> d, file |-> f, created |-> volTime, seal |-> e]
           rows == With(backups, b, row)
<1>3. /\ b \notin DOMAIN backupDir
      /\ \/ b \notin DOMAIN backups /\ deleteBackups(rows, dir, prunedBackups(rows, {d}, KeepLatest, RetentionMs))
         \/ backupDir' = dir /\ backups' = backups
         \/ UNCHANGED <<backups, backupDir>>
  BY <1>1, <1>2 DEF exportDatabase
<1>4. /\ DOMAIN dir = DOMAIN backupDir \union {b} /\ dir[b].file = f /\ dir[b].seal = e
      /\ \A c \in DOMAIN backupDir : c # b => dir[c] = backupDir[c]
  BY DEF With
<1>5. /\ DOMAIN rows = DOMAIN backups \union {b} /\ rows[b] = row
      /\ \A c \in DOMAIN backups : c # b => rows[c] = backups[c]
  BY DEF With
<1>6. row.db = d /\ row.file = f /\ row.created = volTime /\ row.seal = e
  OBVIOUS
<1> HIDE DEF dir, row, rows
<1>7. CASE backupDir' = dir /\ backups' = backups
  <2>1. BackupsKept(backups, dir)
    BY <1>1, <1>3, <1>4 DEF BackupInv, BackupsKept, HasFile
  <2> QED
    BY <1>7, <2>1, BackupsLater DEF BackupInv
<1>8. CASE b \notin DOMAIN backups /\ deleteBackups(rows, dir, prunedBackups(rows, {d}, KeepLatest, RetentionMs))
  <2>1. IsFiniteSet(DOMAIN rows) /\ DOMAIN rows \subseteq Nat
    BY <1>5, FS_AddElement DEF BackupInv, BackupsKept
  <2>2. ASSUME NEW c \in DOMAIN backups, Beyond(backups, c) PROVE Beyond(rows, c)
    <3>1. rankOf(rows, c) >= rankOf(backups, c) /\ rankOf(rows, c) \in Nat /\ rankOf(backups, c) \in Nat
      <4>1. {x \in DOMAIN backups : newer(backups, x, c)} \subseteq {x \in DOMAIN rows : newer(rows, x, c)}
        BY <1>5, <1>8 DEF newer
      <4>2. IsFiniteSet({x \in DOMAIN rows : newer(rows, x, c)})
        BY <2>1, FS_Subset
      <4> QED
        BY <4>1, <4>2, FS_Subset, FS_CardinalityType DEF rankOf
    <3>2. rows[c] = backups[c]
      BY <1>5, <1>8
    <3> QED
      BY <2>2, <3>1, <3>2, VolumeAssumption DEF Beyond
  <2>3. ASSUME NEW c \in DOMAIN rows PROVE HasFile(rows, dir, c) \/ Beyond(rows, c)
    <3>1. CASE c = b
      BY <1>4, <1>5, <1>6, <3>1 DEF HasFile
    <3>2. CASE c # b
      BY <1>4, <1>5, <2>2, <3>2 DEF HasFile, BackupInv, BackupsKept
    <3> QED
      BY <3>1, <3>2
  <2>4. BackupsKept(rows, dir)
    <3>1. \A c \in DOMAIN dir : dir[c].file \in FileRecord /\ dir[c].file.ok
      BY <1>1, <1>4 DEF BackupInv, BackupsKept
    <3>2. \A c \in DOMAIN rows : rows[c].db \in VolumeDbs /\ rows[c].created \in Int
      BY <1>5, <1>6 DEF BackupInv, BackupsKept
    <3> QED
      BY <2>1, <2>3, <3>1, <3>2 DEF BackupsKept
  <2> QED
    BY <1>8, <2>4, BackupsDeleted
<1> QED
  BY <1>3, <1>7, <1>8, BackupsStay

\* The calls leave the backups so that they can be restored.
LEMMA CallsKeepBackups ==
  ASSUME ObjectInv, BackupInv, Call
  PROVE  BackupInv'
<1> DEFINE c == script.calls[called + 1]
<1>1. script \in VolumeScripts /\ called \in Nat /\ volTime \in Nat
  BY DEF ObjectInv, AlarmInv
<1>2. c \in VolumeCalls
  <2>1. script.calls \in Seq(VolumeCalls)
    BY <1>1, ObjectAssumption
  <2>2. called + 1 \in DOMAIN script.calls
    BY <1>1, <2>1 DEF Call
  <2> QED
    BY <2>1, <2>2
<1>3. c.db \in VolumeDbs /\ c.arg \in Nat
  BY <1>2 DEF VolumeCalls
<1> HIDE DEF c
<1>4. volTime' \in Nat /\ volTime' >= volTime /\ (c.do # "tick" => volTime' = volTime)
  BY <1>1 DEF Call, c
<1>5. CASE c.do = "export" /\ exportDatabase(c.db, c.arg)
  BY <1>1, <1>3, <1>4, <1>5, BackupExported
<1>6. CASE c.do = "prune" /\ pruneBackups(VolumeDbs)
  BY <1>4, <1>6, BackupsDeleted DEF pruneBackups, BackupInv
<1>7. CASE UNCHANGED <<backups, backupDir>>
  BY <1>1, <1>4, <1>7, BackupsLater DEF BackupInv
<1> QED
  BY <1>5, <1>6, <1>7 DEF Call, c, VolumeCall, ObjectCall, runExclusive, ensureDatabase, restoreDatabase, RestartVolume, storeVars

\* The calls of a run, made one by one.
LEMMA CallsKeep ==
  ASSUME ObjectInv, BackupInv, Call
  PROVE  ObjectInv'
<1> USE DEF ObjectInv
<1> DEFINE c == script.calls[called + 1]
<1>1. script \in VolumeScripts /\ called \in Nat /\ volTime \in Nat
  BY DEF AlarmInv
<1>2. script' = script /\ called' \in Nat /\ volTime' \in Nat
  BY <1>1 DEF Call
<1>3. c \in VolumeCalls /\ (c.do = "deleteAlarm" => c.arg = 0)
  <2>1. script.calls \in Seq(VolumeCalls)
        /\ \A i \in DOMAIN script.calls : script.calls[i].do = "deleteAlarm" => script.calls[i].arg = 0
    BY <1>1, ObjectAssumption
  <2>2. called + 1 \in DOMAIN script.calls
    BY <1>1, <2>1 DEF Call
  <2> QED
    BY <2>1, <2>2
<1>4. c.db \in VolumeDbs /\ c.arg \in Nat /\ c.do \in STRING
  BY <1>3 DEF VolumeCalls
<1> HIDE DEF c
<1>5. CASE VolumeCall(c) /\ UNCHANGED <<dsp, raced>>
  <2>1. VolumeInv' /\ Remembers /\ NothingClears /\ \A d \in VolumeDbs : AlarmSafe(d)
    <3>1. ASSUME NEW op \in OpRecord, runExclusive(c.db, op), op.kind = "deleteAlarm" => op.arg = 0
          PROVE  VolumeInv' /\ Remembers /\ NothingClears /\ \A d \in VolumeDbs : AlarmSafe(d)
      <4>1. VolumeInv' /\ Remembers /\ JoinsLast(c.db, op) /\ \A d \in VolumeDbs : AlarmsStay(d)
        BY <1>4, <3>1, RunsExclusive
      <4>2. NothingClears
        BY <3>1, <4>1 DEF JoinsLast, NothingClears, Clears
      <4> QED
        BY <4>1, <4>2 DEF AlarmSafe
    <3>2. CASE c.do \in {"put", "transaction"} /\ ObjectCall(c)
      <4>1. runExclusive(c.db, Op(c.do, called + 1))
        BY <3>2 DEF ObjectCall
      <4>2. Op(c.do, called + 1) \in OpRecord /\ Op(c.do, called + 1).kind # "deleteAlarm"
        BY <1>1, <1>4, <3>2 DEF Op, OpRecord
      <4> QED
        BY <3>1, <4>1, <4>2
    <3>3. CASE c.do \in {"setAlarm", "deleteAlarm"} /\ ObjectCall(c)
      <4>1. runExclusive(c.db, Op(c.do, c.arg))
        BY <3>3 DEF ObjectCall
      <4>2. Op(c.do, c.arg) \in OpRecord /\ (Op(c.do, c.arg).kind = "deleteAlarm" => Op(c.do, c.arg).arg = 0)
        BY <1>3, <1>4, <3>3 DEF Op, OpRecord
      <4> QED
        BY <3>1, <4>1, <4>2
    <3>4. CASE exportDatabase(c.db, c.arg)
      BY <1>4, <3>4, Exports DEF NothingClears, AlarmSafe
    <3>5. CASE UNCHANGED storeVars
      <4>1. VolumeInv' /\ Remembers /\ DOMAIN jobs' = DOMAIN jobs
        BY <3>5, VolumeStays DEF storeVars, VolumeInv, VolumeShape
      <4>2. \A d : FileOf(d)' = FileOf(d)
        BY <3>5 DEF storeVars, FileOf
      <4>3. \A d : AlarmSafe(d)
        BY <3>5, <4>2 DEF storeVars, AlarmSafe, AlarmsStay
      <4> QED
        BY <4>1, <4>3 DEF NothingClears
    <3>6. CASE restoreDatabase(c.db, c.arg, c.byPath)
      BY <1>4, <3>6, Restores DEF NothingClears, AlarmSafe
    <3>7. CASE pruneBackups(VolumeDbs)
      BY <3>7, Prunes DEF NothingClears, AlarmSafe
    <3> QED
      BY <1>5, <3>2, <3>3, <3>4, <3>5, <3>6, <3>7 DEF VolumeCall
  <2>2. DispatcherShape' /\ (\A j \in DOMAIN jobs : ClearsForDispatcher(j))' /\ \A d \in VolumeDbs : HoldsAlarm(d)'
    BY <1>5, <2>1, AlarmsHeld
  <2> QED
    BY <1>1, <1>2, <2>1, <2>2 DEF AlarmInv
<1>6. CASE RestartVolume /\ dsp' = Rested /\ raced' = RacedSoFar
  <2>1. /\ VolumeInv' /\ Remembers /\ DOMAIN jobs' = DOMAIN jobs /\ (\A e \in VolumeDbs : AlarmsStay(e))
        /\ \A j \in DOMAIN jobs' : jobs'[j].st \notin {"queued", "running"}
    BY <1>6, Restarts
  <2>2. DispatcherShape'
    BY <1>6 DEF AlarmInv, DispatcherShape, Rested, Sleeping, DispatcherSteps
  <2>3. (\A j \in DOMAIN jobs : ClearsForDispatcher(j))'
    BY <2>1 DEF ClearsForDispatcher
  <2>4. ASSUME NEW d \in VolumeDbs PROVE HoldsAlarm(d)'
    <3>1. Cleared(d) => d \in raced'
      BY <1>6 DEF Cleared, RacedSoFar, DeletedAnother
    <3>2. raced \subseteq raced'
      BY <1>6 DEF RacedSoFar
    <3> QED
      BY <2>1, <3>1, <3>2 DEF AlarmInv, HoldsAlarm, AlarmsStay
  <2> QED
    BY <1>1, <1>2, <2>1, <2>2, <2>3, <2>4 DEF AlarmInv
<1> QED
  BY <1>5, <1>6 DEF Call, c

\* The steps of the operations that wait and run.
LEMMA JobsKeep ==
  ASSUME ObjectInv, UNCHANGED <<volTime, script, called, dsp, raced>>, NEW j \in DOMAIN jobs, RunJob(j) \/ EndTransaction(j)
  PROVE  ObjectInv'
<1> USE DEF ObjectInv
<1>1. /\ VolumeInv' /\ Remembers /\ DOMAIN jobs' = DOMAIN jobs
      /\ \A e \in VolumeDbs : AlarmsStay(e) \/ (e = jobs[j].db /\ AlarmWritten(j, e))
  BY JobSteps
<1>2. DispatcherShape'
  BY <1>1 DEF AlarmInv, DispatcherShape
<1>3. ASSUME NEW i \in DOMAIN jobs' PROVE ClearsForDispatcher(i)'
  BY <1>1 DEF AlarmInv, ClearsForDispatcher, Clears, Remembers
<1>4. ASSUME NEW d \in VolumeDbs PROVE HoldsAlarm(d)'
  <2>1. CASE AlarmsStay(d)
    <3>1. Cleared(d) => Cleared(d)'
      BY <1>1, <2>1 DEF AlarmInv, DispatcherShape, Cleared, Remembers, AlarmsStay
    <3> QED
      BY <2>1, <3>1 DEF AlarmInv, HoldsAlarm, AlarmsStay
  <2>2. CASE FileOf(d)'.alarm = kept'[d].alarm
    BY <2>2 DEF HoldsAlarm
  <2>3. CASE /\ d = jobs[j].db
             /\ Clears(j) /\ jobs[j].st = "queued" /\ FileOf(d).ok /\ kept'[d].alarm = kept[d].alarm
             /\ jobs'[j].st = "done" /\ jobs'[j].out = <<FileOf(d).alarm>>
    <3>1. dsp.pc = "clear" /\ dsp.job = j /\ dsp.cur = <<d, jobs[j].op.arg>>
      BY <2>3 DEF AlarmInv, ClearsForDispatcher
    <3>2. ~Cleared(d)
      BY <2>3, <3>1 DEF Cleared
    <3>3. CASE FileOf(d).alarm = kept[d].alarm
      <4>1. Cleared(d)'
        BY <2>3, <3>1, <3>3 DEF Cleared
      <4> QED
        BY <4>1 DEF HoldsAlarm
    <3>4. CASE FileOf(d).alarm # kept[d].alarm
      BY <2>3, <3>2, <3>4 DEF AlarmInv, HoldsAlarm
    <3> QED
      BY <3>3, <3>4
  <2> QED
    BY <1>1, <2>1, <2>2, <2>3 DEF AlarmWritten
<1> QED
  BY <1>1, <1>2, <1>3, <1>4 DEF AlarmInv

\* The dispatcher touches no database in a step of its own.
LEMMA DispatcherTouchesNothing ==
  ASSUME ObjectInv, UNCHANGED storeVars
  PROVE  /\ VolumeInv' /\ Remembers /\ DOMAIN jobs' = DOMAIN jobs /\ NothingClears
         /\ (\A d \in VolumeDbs : AlarmsStay(d)) /\ \A d \in VolumeDbs : AlarmSafe(d)
<1>1. VolumeInv' /\ Remembers /\ DOMAIN jobs' = DOMAIN jobs
  BY VolumeStays DEF ObjectInv, storeVars, VolumeInv, VolumeShape
<1>2. \A d : FileOf(d)' = FileOf(d)
  BY DEF storeVars, FileOf
<1>3. \A d : AlarmsStay(d)
  BY <1>2 DEF storeVars, AlarmsStay
<1> QED
  BY <1>1, <1>3 DEF NothingClears, AlarmSafe

\* getAlarm(), as an operation.
LEMMA GetsAlarm == \E op \in OpRecord : op = Op("getAlarm", 0) /\ op.kind = "getAlarm"
<1>1. Op("getAlarm", 0) \in OpRecord /\ Op("getAlarm", 0).kind = "getAlarm"
  BY DEF Op, OpRecord
<1> QED
  BY <1>1

\* The steps of the dispatcher, one by one: dispatchDurableObjectAlarms() and clearHandledAlarm().
LEMMA DispatcherKeeps ==
  ASSUME ObjectInv, UNCHANGED <<volTime, script, called>>, DispatchStep
  PROVE  ObjectInv'
<1> USE DEF ObjectInv
<1>0. script' \in VolumeScripts /\ called' \in Nat /\ volTime' \in Nat
  BY DEF AlarmInv
<1>1. ASSUME VolumeInv', Remembers, DispatcherShape', dsp.pc # "clear", raced' = raced, NothingClears,
             \A d \in VolumeDbs : AlarmSafe(d)
      PROVE  ObjectInv'
  <2>1. (\A j \in DOMAIN jobs : ClearsForDispatcher(j))' /\ \A d \in VolumeDbs : HoldsAlarm(d)'
    BY <1>1, AlarmsHeldByDispatcher
  <2> QED
    BY <1>0, <1>1, <2>1 DEF AlarmInv
<1>2. dsp \in [pc : DispatcherSteps, runs : Nat, now : Nat, todo : SUBSET VolumeDbs,
               due : SUBSET (VolumeDbs \X AlarmTimes), job : Nat, cur : {<<>>} \union (VolumeDbs \X AlarmTimes)]
      /\ (dsp.pc \in {"get", "check", "clear"} => dsp.cur \in VolumeDbs \X AlarmTimes)
      /\ (dsp.pc \in {"listing", "check", "clear"} => dsp.job \in DOMAIN jobs)
  BY DEF AlarmInv, DispatcherShape
<1>3. CASE AlarmTick
  <2>1. DispatcherShape'
    <3>1. dsp' = [pc |-> "list", runs |-> dsp.runs + 1, now |-> volTime, todo |-> DOMAIN catalog, due |-> {}, job |-> 0,
                  cur |-> <<>>]
      BY <1>3 DEF AlarmTick, Sleeping
    <3>2. dsp.runs + 1 \in Nat /\ volTime \in Nat /\ DOMAIN catalog \in SUBSET VolumeDbs
      BY <1>2 DEF AlarmInv, VolumeInv, VolumeShape
    <3> QED
      BY <3>1, <3>2 DEF DispatcherShape, DispatcherSteps
  <2> QED
    BY <1>1, <1>3, <2>1, DispatcherTouchesNothing DEF AlarmTick
<1>4. CASE listDueAlarms
  <2>1. PICK d \in dsp.todo :
          \/ dsp' = Rested /\ UNCHANGED <<jobs, wq>>
          \/ /\ ~QueueFull(d) /\ enqueue(jobs, d, Op("getAlarm", 0))
             /\ dsp' = [dsp EXCEPT !.pc = "listing", !.todo = @ \ {d}, !.job = Len(jobs) + 1]
    BY <1>4 DEF listDueAlarms
  <2>2. d \in VolumeDbs
    BY <1>2
  <2>3. dsp.pc = "list" /\ UNCHANGED <<catalog, dbFiles, pool, backups, backupDir, cipher, kept, raced>>
    BY <1>4 DEF listDueAlarms
  <2>4. CASE dsp' = Rested /\ UNCHANGED <<jobs, wq>>
    <3>1. UNCHANGED storeVars
      BY <2>3, <2>4 DEF storeVars
    <3>2. DispatcherShape'
      BY <1>2, <2>4 DEF Rested, Sleeping, DispatcherShape, DispatcherSteps
    <3> QED
      BY <1>1, <2>3, <3>1, <3>2, DispatcherTouchesNothing
  <2>5. CASE /\ ~QueueFull(d) /\ enqueue(jobs, d, Op("getAlarm", 0))
             /\ dsp' = [dsp EXCEPT !.pc = "listing", !.todo = @ \ {d}, !.job = Len(jobs) + 1]
    <3>1. PICK op \in OpRecord : op = Op("getAlarm", 0) /\ op.kind = "getAlarm"
      BY GetsAlarm
    <3>2. enqueue(jobs, d, op)
      BY <2>5, <3>1
    <3>3. VolumeInv' /\ Remembers /\ JoinsLast(d, op) /\ Len(jobs') = Len(jobs) + 1 /\ \A e \in VolumeDbs : AlarmsStay(e)
      BY <2>2, <2>3, <2>5, <3>2, ListEnqueues
    <3>4. NothingClears
      BY <3>1, <3>3 DEF JoinsLast, NothingClears, Clears
    <3>5. Len(jobs) + 1 \in DOMAIN jobs' /\ Len(jobs) + 1 \in Nat
      <4>1. Len(jobs) \in Nat
        BY JobsShape DEF VolumeInv, VolumeShape
      <4> QED
        BY <3>3, <4>1 DEF JoinsLast
    <3>6. DispatcherShape'
      BY <1>2, <2>5, <3>5 DEF DispatcherShape, DispatcherSteps
    <3> QED
      BY <1>1, <2>3, <3>3, <3>4, <3>6 DEF AlarmSafe
  <2> QED
    BY <2>1, <2>4, <2>5
<1>5. CASE AlarmRead
  <2>1. DispatcherShape'
    <3>1. CASE dsp' = Rested
      BY <1>2, <3>1 DEF Rested, Sleeping, DispatcherShape, DispatcherSteps
    <3>2. ASSUME NEW due \in SUBSET (VolumeDbs \X AlarmTimes), dsp' = [dsp EXCEPT !.pc = "list", !.due = due]
          PROVE  DispatcherShape'
      BY <1>2, <3>2 DEF DispatcherShape, DispatcherSteps
    <3>3. dsp' = Rested \/ dsp' = [dsp EXCEPT !.pc = "list", !.due = @ \union {<<jobs[dsp.job].db, t>> : t \in DueNow(jobs[dsp.job].out)}]
      BY <1>5 DEF AlarmRead
    <3>4. dsp.due \union {<<jobs[dsp.job].db, t>> : t \in DueNow(jobs[dsp.job].out)} \in SUBSET (VolumeDbs \X AlarmTimes)
      <4>1. jobs[dsp.job].db \in VolumeDbs
        BY <1>2, <1>5, JobsShape DEF AlarmRead, VolumeInv, VolumeShape
      <4> QED
        BY <1>2, <4>1 DEF DueNow
    <3> QED
      BY <3>1, <3>2, <3>3, <3>4
  <2> QED
    BY <1>1, <1>5, <2>1, DispatcherTouchesNothing DEF AlarmRead
<1>6. CASE StartHandling
  <2>1. FirstDue \subseteq dsp.due
    BY DEF FirstDue
  <2>2. DispatcherShape'
    BY <1>2, <1>6, <2>1 DEF StartHandling, DispatcherShape, DispatcherSteps
  <2> QED
    BY <1>1, <1>6, <2>2, DispatcherTouchesNothing DEF StartHandling
<1>7. CASE dispatchDurableObjectAlarms
  <2>1. UNCHANGED <<catalog, dbFiles, pool, wq, jobs, backups, backupDir, cipher, raced>> /\ dsp.pc = "handle"
    BY <1>7 DEF dispatchDurableObjectAlarms
  <2>2. ASSUME UNCHANGED kept PROVE UNCHANGED storeVars
    BY <2>1, <2>2 DEF storeVars
  <2>3. CASE dsp' = Rested /\ UNCHANGED kept
    <3>1. DispatcherShape'
      BY <1>2, <2>3 DEF Rested, Sleeping, DispatcherShape, DispatcherSteps
    <3> QED
      BY <1>1, <2>1, <2>2, <2>3, <3>1, DispatcherTouchesNothing
  <2>4. ASSUME NEW x \in dsp.due, dsp' = [dsp EXCEPT !.due = @ \ {x}], UNCHANGED kept PROVE ObjectInv'
    <3>1. DispatcherShape'
      BY <1>2, <2>1, <2>4 DEF DispatcherShape, DispatcherSteps
    <3> QED
      BY <1>1, <2>1, <2>2, <2>4, <3>1, DispatcherTouchesNothing
  <2>5. ASSUME NEW x \in dsp.due, dsp' = [dsp EXCEPT !.pc = "get", !.cur = x, !.due = @ \ {x}],
               kept' = IF kept[x[1]].alarm = x[2] THEN [kept EXCEPT ![x[1]].alarm = 0] ELSE kept
        PROVE  ObjectInv'
    <3>1. x \in VolumeDbs \X AlarmTimes /\ x[1] \in VolumeDbs
      BY <1>2
    <3>2. DispatcherShape'
      BY <1>2, <2>1, <2>5, <3>1 DEF DispatcherShape, DispatcherSteps
    <3>3. PICK e \in VolumeDbs : e = x[1]
      BY <3>1
    <3>4. kept \in [VolumeDbs -> HeldRecord]
      BY DEF VolumeInv, VolumeShape
    <3>5. PICK k \in HeldRecord : k = kept[e]
      BY <3>4
    <3>6. k = [log |-> k.log, alarm |-> k.alarm]
      BY DEF HeldRecord
    <3>7. PICK h : h = [k EXCEPT !.alarm = 0]
      OBVIOUS
    <3>8. h = [log |-> k.log, alarm |-> 0]
      BY <3>6, <3>7
    <3>9. h \in HeldRecord /\ h.log = k.log /\ h.alarm = 0
      BY <3>8 DEF HeldRecord
    <3>10. kept' = kept \/ kept' = [kept EXCEPT ![e] = h]
      BY <2>5, <3>3, <3>4, <3>5, <3>7
    <3>11. /\ kept' \in [VolumeDbs -> HeldRecord] /\ \A d \in VolumeDbs : kept'[d].log = kept[d].log
           /\ \A d \in VolumeDbs : kept'[d].alarm = kept[d].alarm \/ kept'[d].alarm = 0
      BY <3>4, <3>5, <3>9, <3>10
    <3>12. VolumeInv' /\ Remembers /\ DOMAIN jobs' = DOMAIN jobs
      BY <2>1, <3>11, VolumeStays
    <3>13. (\A j \in DOMAIN jobs : ClearsForDispatcher(j))'
      BY <2>1, <3>12 DEF AlarmInv, ClearsForDispatcher, Clears
    <3>14. ASSUME NEW d \in VolumeDbs PROVE HoldsAlarm(d)'
      <4>1. FileOf(d)' = FileOf(d) /\ ~Cleared(d)
        BY <2>1 DEF FileOf, Cleared
      <4> QED
        BY <2>1, <3>11, <4>1 DEF AlarmInv, HoldsAlarm
    <3> QED
      BY <1>0, <3>2, <3>12, <3>13, <3>14 DEF AlarmInv
  <2> QED
    BY <1>7, <2>3, <2>4, <2>5 DEF dispatchDurableObjectAlarms
<1>8. CASE clearHandledAlarm
  <2>1. dsp.pc = "get" /\ raced' = raced /\ dsp.cur \in VolumeDbs \X AlarmTimes /\ dsp.cur[1] \in VolumeDbs
    BY <1>2, <1>8 DEF clearHandledAlarm
  <2>2. PICK op \in OpRecord : op = Op("getAlarm", 0) /\ op.kind = "getAlarm"
    BY GetsAlarm
  <2>3. runExclusive(dsp.cur[1], op)
    BY <1>8, <2>2 DEF clearHandledAlarm
  <2>4. VolumeInv' /\ Remembers /\ JoinsLast(dsp.cur[1], op) /\ \A e \in VolumeDbs : AlarmsStay(e)
    BY <2>1, <2>3, RunsExclusive
  <2>5. NothingClears
    BY <2>2, <2>4 DEF JoinsLast, NothingClears, Clears
  <2>6. DispatcherShape'
    <3>1. CASE Len(jobs') = Len(jobs)
      <4>1. dsp' = [dsp EXCEPT !.pc = "handle"]
        BY <1>8, <3>1 DEF clearHandledAlarm
      <4> QED
        BY <1>2, <4>1 DEF DispatcherShape, DispatcherSteps
    <3>2. CASE Len(jobs') # Len(jobs)
      <4>1. dsp' = [dsp EXCEPT !.pc = "check", !.job = Len(jobs')]
        BY <1>8, <3>2 DEF clearHandledAlarm
      <4>2. Len(jobs') \in DOMAIN jobs' /\ Len(jobs') \in Nat
        BY <2>4, <3>2, JobsShape DEF JoinsLast, VolumeInv, VolumeShape
      <4> QED
        BY <1>2, <2>1, <4>1, <4>2 DEF DispatcherShape, DispatcherSteps
    <3> QED
      BY <3>1, <3>2
  <2> QED
    BY <1>1, <2>1, <2>4, <2>5, <2>6 DEF AlarmSafe
<1>9. CASE CheckAlarm
  <2>1. dsp.pc = "check" /\ raced' = raced /\ dsp.cur \in VolumeDbs \X AlarmTimes /\ dsp.cur[1] \in VolumeDbs
    BY <1>2, <1>9 DEF CheckAlarm
  <2>2. CASE dsp' = [dsp EXCEPT !.pc = "handle"] /\ UNCHANGED storeVars
    <3>1. DispatcherShape'
      BY <1>2, <2>1, <2>2 DEF DispatcherShape, DispatcherSteps, storeVars
    <3> QED
      BY <1>1, <2>1, <2>2, <3>1, DispatcherTouchesNothing
  <2>3. CASE /\ runExclusive(dsp.cur[1], Op("deleteAlarm", dsp.cur[2]))
             /\ dsp' = IF Len(jobs') = Len(jobs) THEN [dsp EXCEPT !.pc = "handle"]
                       ELSE [dsp EXCEPT !.pc = "clear", !.job = Len(jobs')]
    <3>1. PICK e \in VolumeDbs, t \in AlarmTimes : dsp.cur = <<e, t>>
      BY <2>1
    <3>2. PICK op \in OpRecord : op = Op("deleteAlarm", t) /\ op.arg = t
      <4>1. t \in Nat
        BY ObjectAssumption
      <4>2. Op("deleteAlarm", t) \in OpRecord /\ Op("deleteAlarm", t).arg = t
        BY <4>1 DEF Op, OpRecord
      <4> HIDE DEF Op
      <4> QED
        BY ONLY <4>2
    <3>3. runExclusive(e, op)
      BY <2>3, <3>1, <3>2
    <3>4. VolumeInv' /\ Remembers /\ JoinsLast(e, op) /\ \A d \in VolumeDbs : AlarmsStay(d)
      BY <3>3, RunsExclusive
    <3>5. CASE Len(jobs') = Len(jobs)
      <4>1. dsp' = [dsp EXCEPT !.pc = "handle"]
        BY <2>3, <3>5
      <4>2. DispatcherShape'
        BY <1>2, <4>1 DEF DispatcherShape, DispatcherSteps
      <4>3. NothingClears
        BY <3>4, <3>5, JobsShape DEF JoinsLast, NothingClears, VolumeInv, VolumeShape
      <4> QED
        BY <1>1, <2>1, <3>4, <4>2, <4>3 DEF AlarmSafe
    <3>6. CASE Len(jobs') # Len(jobs)
      <4>1. dsp' = [dsp EXCEPT !.pc = "clear", !.job = Len(jobs')]
        BY <2>3, <3>6
      <4>2. /\ Len(jobs') \in Nat /\ DOMAIN jobs' = DOMAIN jobs \union {Len(jobs')}
            /\ jobs'[Len(jobs')].op = op /\ jobs'[Len(jobs')].db = e
        BY <3>4, <3>6, JobsShape DEF JoinsLast, VolumeInv, VolumeShape
      <4>3. DispatcherShape'
        BY <1>2, <2>1, <4>1, <4>2 DEF DispatcherShape, DispatcherSteps
      <4>4. dsp'.pc = "clear" /\ dsp'.job = Len(jobs') /\ dsp'.cur = <<e, t>>
        BY <1>2, <3>1, <4>1
      <4>5. ASSUME NEW j \in DOMAIN jobs' PROVE ClearsForDispatcher(j)'
        <5>1. CASE j = Len(jobs')
          BY <3>2, <4>2, <4>4, <5>1 DEF ClearsForDispatcher
        <5>2. CASE j \in DOMAIN jobs
          BY <2>1, <3>4, <5>2 DEF AlarmInv, ClearsForDispatcher, Clears, Remembers
        <5> QED
          BY <4>2, <5>1, <5>2, ZenonT(60)
      <4>6. ASSUME NEW d \in VolumeDbs PROVE HoldsAlarm(d)'
        <5>1. ~Cleared(d)
          BY <2>1 DEF Cleared
        <5> QED
          BY <2>1, <3>4, <5>1 DEF AlarmInv, HoldsAlarm, AlarmsStay
      <4> QED
        BY <1>0, <3>4, <4>3, <4>5, <4>6 DEF AlarmInv
    <3> QED
      BY <3>5, <3>6
  <2> QED
    BY <1>9, <2>2, <2>3 DEF CheckAlarm
<1>10. CASE AlarmCleared
  <2>1. /\ dsp.pc = "clear" /\ jobs[dsp.job].st \in {"done", "failed"} /\ dsp' = [dsp EXCEPT !.pc = "handle"]
        /\ raced' = RacedSoFar /\ UNCHANGED storeVars
    BY <1>10 DEF AlarmCleared
  <2>2. VolumeInv' /\ DOMAIN jobs' = DOMAIN jobs /\ \A d \in VolumeDbs : AlarmsStay(d)
    BY <2>1, DispatcherTouchesNothing
  <2>3. DispatcherShape'
    BY <1>2, <2>1 DEF DispatcherShape, DispatcherSteps
  <2>4. ASSUME NEW j \in DOMAIN jobs' PROVE ClearsForDispatcher(j)'
    BY <2>1 DEF AlarmInv, ClearsForDispatcher, Clears, storeVars
  <2>5. ASSUME NEW d \in VolumeDbs PROVE HoldsAlarm(d)'
    <3>1. Cleared(d) => d \in raced'
      BY <2>1 DEF Cleared, RacedSoFar, DeletedAnother
    <3>2. raced \subseteq raced'
      BY <2>1 DEF RacedSoFar
    <3> QED
      BY <2>2, <3>1, <3>2 DEF AlarmInv, HoldsAlarm, AlarmsStay
  <2> QED
    BY <1>0, <2>2, <2>3, <2>4, <2>5 DEF AlarmInv
<1> QED
  BY <1>3, <1>4, <1>5, <1>6, <1>7, <1>8, <1>9, <1>10 DEF DispatchStep

\* At first there is no database.
LEMMA ObjectsBegin == ASSUME ObjectInit PROVE ObjectInv /\ BackupInv
<1> USE DEF ObjectInit, VolumeInit
<1>1. jobs \in Seq(JobRecord) /\ DOMAIN jobs = {} /\ pool \in Seq(VolumeDbs) /\ Len(pool) <= MaxOpen
  BY VolumeAssumption
<1>2. DOMAIN catalog = {} /\ DOMAIN dbFiles = {} /\ DOMAIN wq = {} /\ DOMAIN backups = {} /\ DOMAIN backupDir = {}
  OBVIOUS
<1>3. kept \in [VolumeDbs -> HeldRecord] /\ \A d \in VolumeDbs : kept[d].log = <<>> /\ kept[d].alarm = 0
  <2>1. Nothing \in HeldRecord /\ Nothing.log = <<>> /\ Nothing.alarm = 0
    BY DEF Nothing, HeldRecord
  <2> QED
    BY <2>1
<1>4. VolumeShape
  <2>1. catalog \in [DOMAIN catalog -> CatalogRow] /\ dbFiles \in [DOMAIN dbFiles -> FileRecord] /\ wq \in [DOMAIN wq -> QueueRecord]
    BY <1>2
  <2> QED
    BY <1>1, <1>2, <1>3, <2>1 DEF VolumeShape
<1>5. QueueInv
  <2>1. ASSUME NEW d \in VolumeDbs PROVE QueueOf(d)
    <3>1. Live(d) = {} /\ Mine(d) = {} /\ Waiting(d) = 0
      BY <1>1, <1>2 DEF Live, Mine, Waiting
    <3> QED
      BY <1>2, <3>1, FS_EmptySet, VolumeAssumption DEF QueueOf, InOrder, Chained, TailIsLast, Counts
  <2> QED
    BY <2>1 DEF QueueInv
<1>6. \A d : FileOf(d).log = <<>>
  BY <1>2 DEF FileOf, EmptyFile
<1>7. LogInv
  BY <1>1, <1>2, <1>3, <1>6 DEF LogInv, HoldsLog
<1>8. DispatcherShape
  BY <1>1 DEF DispatcherShape, DispatcherSteps, Sleeping
<1>9. AlarmInv
  BY <1>1, <1>3, <1>8 DEF AlarmInv, HoldsAlarm
<1>10. BackupInv
  BY <1>2, FS_EmptySet DEF BackupInv, BackupsKept
<1> QED
  BY <1>4, <1>5, <1>7, <1>9, <1>10 DEF ObjectInv, VolumeInv

\* A step of the volumes and the durable objects, or none.
LEMMA ObjectStepKeeps == ASSUME ObjectInv, BackupInv, [ObjectNext]_objectVars PROVE ObjectInv'
<1>1. CASE Call
  BY <1>1, CallsKeep
<1>2. CASE UNCHANGED <<volTime, script, called, dsp, raced>> /\ \E j \in DOMAIN jobs : RunJob(j) \/ EndTransaction(j)
  BY <1>2, JobsKeep
<1>3. CASE UNCHANGED <<volTime, script, called>> /\ DispatchStep
  BY <1>3, DispatcherKeeps
<1>4. CASE UNCHANGED objectVars
  <2>1. UNCHANGED storeVars /\ UNCHANGED <<volTime, script, called, dsp, raced>>
    BY <1>4 DEF objectVars, volumeVars
  <2>2. VolumeInv' /\ Remembers /\ NothingClears /\ \A d \in VolumeDbs : AlarmSafe(d)
    BY <2>1, DispatcherTouchesNothing
  <2>3. DispatcherShape' /\ (\A j \in DOMAIN jobs : ClearsForDispatcher(j))' /\ \A d \in VolumeDbs : HoldsAlarm(d)'
    BY <2>1, <2>2, AlarmsHeld DEF ObjectInv
  <2> QED
    BY <2>1, <2>2, <2>3 DEF ObjectInv, AlarmInv
<1> QED
  BY <1>1, <1>2, <1>3, <1>4 DEF ObjectNext

\* A step of the volumes and the durable objects, or none, keeps the backups.
LEMMA ObjectStepBackups == ASSUME ObjectInv, BackupInv, [ObjectNext]_objectVars PROVE BackupInv'
<1>1. CASE Call
  BY <1>1, CallsKeepBackups
<1>2. ASSUME UNCHANGED volTime, NEW j \in DOMAIN jobs, RunJob(j) \/ EndTransaction(j) PROVE BackupInv'
  BY <1>2, BackupsStay DEF RunJob, EndTransaction
<1>3. CASE UNCHANGED volTime /\ DispatchStep
  <2>1. UNCHANGED <<backups, backupDir>>
    BY <1>3 DEF DispatchStep, AlarmTick, listDueAlarms, AlarmRead, StartHandling, dispatchDurableObjectAlarms,
                clearHandledAlarm, CheckAlarm, AlarmCleared, runExclusive, ensureDatabase, storeVars
  <2> QED
    BY <1>3, <2>1, BackupsStay
<1>4. CASE UNCHANGED objectVars
  BY <1>4, BackupsStay DEF objectVars, volumeVars, storeVars
<1> QED
  BY <1>1, <1>2, <1>3, <1>4 DEF ObjectNext

\* The volumes and the durable objects keep their invariant in every run.
THEOREM ObjectInvariant == ObjectSpec => [](ObjectInv /\ BackupInv)
<1>1. ObjectInit => ObjectInv /\ BackupInv
  BY ObjectsBegin
<1>2. ObjectInv /\ BackupInv /\ [ObjectNext]_objectVars => (ObjectInv /\ BackupInv)'
  BY ObjectStepKeeps, ObjectStepBackups
<1> QED
  BY <1>1, <1>2, PTL DEF ObjectSpec

\* withDatabase() and the writer queues: the operations of a database run one at a time, in the order they
\* came, within the limits; a database holds what its callers were told, and its backups that the retention
\* keeps can be restored to what was exported.
THEOREM VolumeSerial == ObjectSpec => []VolumeIsSerial
<1>1. ObjectInv /\ BackupInv => VolumeIsSerial
  <2> SUFFICES ASSUME ObjectInv, BackupInv PROVE VolumeIsSerial
    OBVIOUS
  <2> USE DEF ObjectInv, VolumeInv
  <2>0. jobs \in Seq(JobRecord) /\ IsFiniteSet(DOMAIN jobs) /\ (\A j \in DOMAIN jobs : j \in Nat)
        /\ \A j \in DOMAIN jobs : jobs[j].st \in JobStates
    BY JobsShape DEF VolumeShape
  <2>1. ASSUME NEW d \in VolumeDbs
        PROVE  /\ Cardinality(Of(d, {"running"})) <= 1
               /\ \A i \in Of(d, {"queued", "running"}), j \in Of(d, {"running", "done", "failed"}) : i >= j
               /\ Waiting(d) = Cardinality(Of(d, {"queued", "running"})) /\ Waiting(d) <= MaxPending
               /\ d \in DOMAIN dbFiles /\ dbFiles[d].ok => dbFiles[d].log = kept[d].log
    <3>1. Of(d, {"queued", "running"}) = Live(d)
      BY DEF Of, Live, Mine
    <3>2. Cardinality(Of(d, {"running"})) <= 1
      <4>1. CASE Of(d, {"running"}) = {}
        BY <4>1, FS_EmptySet
      <4>2. CASE Of(d, {"running"}) # {}
        <5>1. PICK k \in Of(d, {"running"}) : TRUE
          BY <4>2
        <5>2. ASSUME NEW i \in Of(d, {"running"}) PROVE i = k
          <6>1. i \in Live(d) /\ k \in Live(d) /\ i \in Mine(d) /\ k \in Mine(d) /\ jobs[i].st # "queued" /\ jobs[k].st # "queued"
            BY DEF Of, Live, Mine
          <6>2. i >= k /\ k >= i /\ i \in Nat /\ k \in Nat
            BY <2>0, <6>1 DEF QueueInv, QueueOf, InOrder, Mine
          <6> QED
            BY <6>2
        <5>3. Of(d, {"running"}) = {k}
          BY <5>2
        <5> QED
          BY <5>3, FS_Singleton
      <4> QED
        BY <4>1, <4>2
    <3>3. \A i \in Live(d), j \in Of(d, {"running", "done", "failed"}) : i >= j
      BY DEF Of, Mine, QueueInv, QueueOf, InOrder
    <3>4. Waiting(d) = Cardinality(Live(d)) /\ Waiting(d) <= MaxPending
      BY DEF QueueInv, QueueOf, Counts
    <3>5. d \in DOMAIN dbFiles /\ dbFiles[d].ok => dbFiles[d].log = kept[d].log
      BY DEF LogInv, HoldsLog, FileOf
    <3> QED
      BY <3>1, <3>2, <3>3, <3>4, <3>5
  <2>2. Len(pool) <= MaxOpen
    BY DEF VolumeShape
  <2>3. ASSUME NEW b \in DOMAIN backups \ prunedBackups(backups, VolumeDbs, KeepLatest, RetentionMs), decrypts(backups[b].seal)
        PROVE  verifyBackupRestore(b) /\ backupDir[b].file = backups[b].file
    <3>1. ~Beyond(backups, b)
      BY <2>3 DEF BackupInv, BackupsKept, prunedBackups, Beyond
    <3>2. HasFile(backups, backupDir, b)
      BY <2>3, <3>1 DEF BackupInv, BackupsKept
    <3> QED
      BY <2>3, <3>2 DEF BackupInv, BackupsKept, HasFile, verifyBackupRestore, decryptBackupIfNeeded
  <2> QED
    BY <2>1, <2>2, <2>3 DEF VolumeIsSerial
<1> QED
  BY <1>1, ObjectInvariant, PTL

\* dispatchDurableObjectAlarms(): an alarm stays until its handler has succeeded, but for the races named.
THEOREM AlarmsKept == ObjectSpec => []AlarmsAreKept
<1>1. ObjectInv => AlarmsAreKept
  BY DEF ObjectInv, AlarmInv, HoldsAlarm, AlarmsAreKept, FileOf, Cleared
<1> QED
  BY <1>1, ObjectInvariant, PTL
=============================================================================
