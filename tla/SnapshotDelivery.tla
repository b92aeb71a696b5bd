--------------------------- MODULE SnapshotDelivery ---------------------------
(***************************************************************************)
(* How a route snapshot travels: publishCurrentRouteSnapshot() of the      *)
(* control plane (http/app.ts) reads the route table, stamps a snapshot,   *)
(* PUTs it to the active runtime nodes with retries                        *)
(* (control-plane/snapshot-publisher.ts), records the outcome and then     *)
(* replicates it to the regional control planes                            *)
(* (control-plane/snapshot-replication.ts).  A runtime node installs what  *)
(* it is sent, warms it up and saves it to a file (runtime/node-app.ts,    *)
(* runtime/snapshot-store.ts); after a crash it restarts from that file.   *)
(*                                                                         *)
(* Publications run concurrently: the interval job, POST requests and      *)
(* other control-plane processes.  A PUT whose attempt timed out may still *)
(* arrive.  A snapshot is the version of the route table it was read from  *)
(* and its generatedAt; its id is a hash of both, of which only the order  *)
(* is kept.  A reply reaches the publisher in the step that produces it;   *)
(* a reply that is lost or late is a timeout before it.                    *)
(***************************************************************************)
EXTENDS Integers, FiniteSets

CONSTANTS
  Publications,  \* calls of publishCurrentRouteSnapshot(), one each
  JobTicks,      \* those among them that the interval job makes
  Nodes,         \* runtime nodes that may be publish targets
  Replicas,      \* configured regional replicas
  MaxAttempts,   \* options.maxAttempts of both senders
  IdRank,        \* the order of snapshot ids, by <<generatedAt, routes>>
  Flaky,         \* peers whose connections may fail or time out
  Failing,       \* peers whose handlers may refuse or fail a PUT
  Crashing,      \* peers that may crash
  MaxRoutes,     \* bound: changes of the route table
  MaxTime        \* bound: the clock stops here

Snapshots == [routes : 0..MaxRoutes, generatedAt : 0..MaxTime]
None      == [routes |-> -1, generatedAt |-> -1]

ASSUME DeliveryAssumption ==
  /\ MaxAttempts \in Nat \ {0}
  /\ MaxRoutes \in Nat
  /\ MaxTime \in Nat
  /\ JobTicks \subseteq Publications
  /\ Nodes \cap Replicas = {}
  /\ IdRank \in [(0..MaxTime) \X (0..MaxRoutes) -> Nat]

VARIABLES
  routes,     \* version of the control plane's route table
  now,        \* the clock generatedAt is taken from
  pc,         \* where each publication is
  snap,       \* the snapshot a publication read and stamped
  targets,    \* the runtime nodes it publishes to
  call,       \* its PUT to each peer: what it is doing or how it ended
  attempts,   \* attempts made for each of these
  wire,       \* PUTs sent and not received: <<publication, peer, attempt>>
  warming,    \* PUT handlers of nodes between install and save
  saving,     \* PUT handlers of nodes that are writing the file
  memory,     \* the route table a node serves from
  file,       \* the snapshot file of a node
  replica,    \* the snapshot a replica holds
  published,  \* publications recorded as ok
  saved,      \* history: <<publication, node>>: the node saved it
  confirmed,  \* history: <<publication, replica>>: reported consistent and
              \* the replica has not restarted since
  disturbed   \* history: nodes that handled two PUTs at once or failed one

netVars  == <<call, attempts, wire>>
nodeVars == <<warming, saving, memory, file, saved, disturbed>>
vars == <<routes, now, pc, snap, targets, netVars, nodeVars, replica,
          published, confirmed>>

Peers   == Nodes \cup Replicas
Settled == {"ok", "inconsistent", "failed"}

Init ==
  /\ routes = 0
  /\ now = 0
  /\ pc = [p \in Publications |-> "idle"]
  /\ snap = [p \in Publications |-> None]
  /\ targets = [p \in Publications |-> {}]
  /\ call = [c \in Publications \X Peers |-> "unused"]
  /\ attempts = [c \in Publications \X Peers |-> 0]
  /\ wire = {} /\ warming = {} /\ saving = {}
  /\ memory = [t \in Nodes |-> None]
  /\ file = [t \in Nodes |-> None]
  /\ replica = [t \in Replicas |-> None]
  /\ published = {} /\ saved = {} /\ confirmed = {} /\ disturbed = {}

-----------------------------------------------------------------------------
(* The control plane.                                                      *)

RouteChange ==
  /\ routes < MaxRoutes
  /\ routes' = routes + 1
  /\ UNCHANGED <<now, pc, snap, targets, netVars, nodeVars, replica, published, confirmed>>

Tick ==
  /\ now < MaxTime
  /\ now' = now + 1
  /\ UNCHANGED <<routes, pc, snap, targets, netVars, nodeVars, replica, published, confirmed>>

Running(p) == pc[p] \in {"reading", "publishing", "replicating"}

\* createRouteSnapshot() lists the routes.  The interval job starts no
\* publication while its last one is in flight.
StartPublish(p) ==
  /\ pc[p] = "idle"
  /\ p \in JobTicks => \A q \in JobTicks : ~Running(q)
  /\ pc' = [pc EXCEPT ![p] = "reading"]
  /\ snap' = [snap EXCEPT ![p] = [routes |-> routes, generatedAt |-> -1]]
  /\ UNCHANGED <<routes, now, targets, netVars, nodeVars, replica, published, confirmed>>

\* The calls of p to the peers in T become due.
Due(p, T) ==
  [c \in Publications \X Peers |->
     IF c[1] = p /\ c[2] \in T THEN "due" ELSE call[c]]

\* The deployments have been read: the snapshot is stamped with the time of
\* that moment and goes to the nodes that are active in the registry.
Stamp(p, T) ==
  /\ pc[p] = "reading"
  /\ T # {}
  /\ snap' = [snap EXCEPT ![p] = [routes |-> snap[p].routes, generatedAt |-> now]]
  /\ targets' = [targets EXCEPT ![p] = T]
  /\ call' = Due(p, T)
  /\ pc' = [pc EXCEPT ![p] = "publishing"]
  /\ UNCHANGED <<routes, now, attempts, wire, nodeVars, replica, published, confirmed>>

\* "no runtime nodes are configured"
NoTargets(p) ==
  /\ pc[p] = "reading"
  /\ pc' = [pc EXCEPT ![p] = "refused"]
  /\ UNCHANGED <<routes, now, snap, targets, netVars, nodeVars, replica, published, confirmed>>

AllOk(p) == \A t \in targets[p] : call[<<p, t>>] = "ok"

\* Every target has answered or was given up: the publication is recorded and
\* replication starts.
Record(p) ==
  /\ pc[p] = "publishing"
  /\ \A t \in targets[p] : call[<<p, t>>] \in Settled
  /\ published' = IF AllOk(p) THEN published \cup {p} ELSE published
  /\ call' = Due(p, Replicas)
  /\ pc' = [pc EXCEPT ![p] = IF Replicas = {} THEN "done" ELSE "replicating"]
  /\ UNCHANGED <<routes, now, snap, targets, attempts, wire, nodeVars, replica, confirmed>>

Report(p) ==
  /\ pc[p] = "replicating"
  /\ \A t \in Replicas : call[<<p, t>>] \in Settled
  /\ pc' = [pc EXCEPT ![p] = "done"]
  /\ UNCHANGED <<routes, now, snap, targets, netVars, nodeVars, replica, published, confirmed>>

-----------------------------------------------------------------------------
(* The sender, publishToRuntimeNode() and replicateToTarget() alike.       *)

\* MUTANT of Send: the attempts are not counted.
SendUncounted(p, t) ==
  /\ call[<<p, t>>] = "due"
  /\ call' = [call EXCEPT ![<<p, t>>] = "sent"]
  /\ wire' = wire \cup {<<p, t, 1>>}
  /\ UNCHANGED <<routes, now, pc, snap, targets, attempts, nodeVars, replica, published, confirmed>>

Send(p, t) ==
  /\ call[<<p, t>>] = "due"
  /\ call' = [call EXCEPT ![<<p, t>>] = "sent"]
  /\ attempts' = [attempts EXCEPT ![<<p, t>>] = @ + 1]
  /\ wire' = wire \cup {<<p, t, attempts[<<p, t>>] + 1>>}
  /\ UNCHANGED <<routes, now, pc, snap, targets, nodeVars, replica, published, confirmed>>

\* A retryable failure: try again unless the attempts are used up.
AfterFailure(p, t) == IF attempts[<<p, t>>] < MaxAttempts THEN "due" ELSE "failed"

\* What the publisher makes of an answer: "ok", "inconsistent" (a replica
\* that holds another snapshot), "error" (retryable) or "reject".
Outcome(p, t, answer) ==
  CASE answer = "error"  -> AfterFailure(p, t)
    [] answer = "reject" -> "failed"
    [] OTHER             -> answer

\* The answer to attempt n, which counts only while the publisher waits for
\* that attempt.
Answer(p, t, n, answer) ==
  call' = IF call[<<p, t>>] = "sent" /\ attempts[<<p, t>>] = n
          THEN [call EXCEPT ![<<p, t>>] = Outcome(p, t, answer)]
          ELSE call

\* The connection failed or timed out; the PUT may arrive all the same.
Timeout(p, t) ==
  /\ t \in Flaky
  /\ call[<<p, t>>] = "sent"
  /\ call' = [call EXCEPT ![<<p, t>>] = AfterFailure(p, t)]
  /\ UNCHANGED <<routes, now, pc, snap, targets, attempts, wire, nodeVars, replica, published, confirmed>>

-----------------------------------------------------------------------------
(* A runtime node: PUT /__runtime/snapshots/routes.                        *)

\* A bad signature, an invalid body or an unsupported world: 401 or 400.
Refuse(p, t, n) ==
  /\ t \in Failing
  /\ <<p, t, n>> \in wire
  /\ wire' = wire \ {<<p, t, n>>}
  /\ Answer(p, t, n, "reject")
  /\ UNCHANGED <<routes, now, pc, snap, targets, attempts, nodeVars, replica, published, confirmed>>

Busy(t) == \E h \in warming \cup saving : h[2] = t

\* The node routes by the new snapshot at once, whatever it held before.
Install(p, t, n) ==
  /\ t \in Nodes
  /\ <<p, t, n>> \in wire
  /\ wire' = wire \ {<<p, t, n>>}
  /\ memory' = [memory EXCEPT ![t] = snap[p]]
  /\ warming' = warming \cup {<<p, t, n>>}
  /\ disturbed' = IF Busy(t) THEN disturbed \cup {t} ELSE disturbed
  /\ UNCHANGED <<routes, now, pc, snap, targets, call, attempts, saving, file, saved, replica, published, confirmed>>

\* MUTANT of Warmed: the acknowledgement does not wait for the file.
WarmedAcks(p, t, n) ==
  /\ <<p, t, n>> \in warming
  /\ warming' = warming \ {<<p, t, n>>}
  /\ saving' = saving \cup {<<p, t, n>>}
  /\ Answer(p, t, n, "ok")
  /\ UNCHANGED <<routes, now, pc, snap, targets, attempts, wire, memory, file, saved, disturbed, replica, published, confirmed>>

\* Warm-up and the update of the host daemon's routes are over.
Warmed(p, t, n) ==
  /\ <<p, t, n>> \in warming
  /\ warming' = warming \ {<<p, t, n>>}
  /\ saving' = saving \cup {<<p, t, n>>}
  /\ UNCHANGED <<routes, now, pc, snap, targets, netVars, memory, file, saved, disturbed, replica, published, confirmed>>

\* Warm-up, the daemon or the disk failed; the table stays installed.
HandlerFails(p, t, n) ==
  /\ t \in Failing
  /\ <<p, t, n>> \in warming \cup saving
  /\ warming' = warming \ {<<p, t, n>>}
  /\ saving' = saving \ {<<p, t, n>>}
  /\ disturbed' = disturbed \cup {t}
  /\ \E answer \in {"error", "reject"} : Answer(p, t, n, answer)
  /\ UNCHANGED <<routes, now, pc, snap, targets, attempts, wire, memory, file, saved, replica, published, confirmed>>

\* The temporary file is renamed over the snapshot file; 200.
Save(p, t, n) ==
  /\ <<p, t, n>> \in saving
  /\ saving' = saving \ {<<p, t, n>>}
  /\ file' = [file EXCEPT ![t] = snap[p]]
  /\ saved' = saved \cup {<<p, t>>}
  /\ Answer(p, t, n, "ok")
  /\ UNCHANGED <<routes, now, pc, snap, targets, attempts, wire, warming, memory, disturbed, replica, published, confirmed>>

\* MUTANT of Restart: the node comes back without reading its file.
RestartEmpty(t) ==
  /\ t \in Crashing
  /\ warming' = {h \in warming : h[2] # t}
  /\ saving' = {h \in saving : h[2] # t}
  /\ memory' = [memory EXCEPT ![t] = None]
  /\ UNCHANGED <<routes, now, pc, snap, targets, netVars, file, saved, disturbed, replica, published, confirmed>>

\* The process dies and comes back with what its file holds.
Restart(t) ==
  /\ t \in Crashing
  /\ warming' = {h \in warming : h[2] # t}
  /\ saving' = {h \in saving : h[2] # t}
  /\ memory' = [memory EXCEPT ![t] = file[t]]
  /\ UNCHANGED <<routes, now, pc, snap, targets, netVars, file, saved, disturbed, replica, published, confirmed>>

-----------------------------------------------------------------------------
(* A regional replica: PUT /replication/snapshots/routes.                  *)

\* compareSnapshotFreshness(s, h) < 0
Older(s, h) ==
  \/ s.generatedAt < h.generatedAt
  \/ /\ s.generatedAt = h.generatedAt
     /\ IdRank[<<s.generatedAt, s.routes>>] < IdRank[<<h.generatedAt, h.routes>>]

\* MUTANT of Stale: every snapshot is accepted.
StaleNever(s, t) == FALSE

Stale(s, t) == replica[t] # None /\ Older(s, replica[t])

\* Keep what is not older than the snapshot held, and answer with the id and
\* the time of what is held then.
Replicate(p, t, n) ==
  /\ t \in Replicas
  /\ <<p, t, n>> \in wire
  /\ wire' = wire \ {<<p, t, n>>}
  /\ IF Stale(snap[p], t)
     THEN /\ Answer(p, t, n, "inconsistent")
          /\ UNCHANGED <<replica, confirmed>>
     ELSE /\ Answer(p, t, n, "ok")
          /\ replica' = [replica EXCEPT ![t] = snap[p]]
          /\ confirmed' = IF call' # call THEN confirmed \cup {<<p, t>>} ELSE confirmed
  /\ UNCHANGED <<routes, now, pc, snap, targets, attempts, nodeVars, published>>

\* The replica store is in memory only.
ReplicaRestart(t) ==
  /\ t \in Crashing
  /\ replica' = [replica EXCEPT ![t] = None]
  /\ confirmed' = {c \in confirmed : c[2] # t}
  /\ UNCHANGED <<routes, now, pc, snap, targets, netVars, nodeVars, published>>

-----------------------------------------------------------------------------
Publish(p) ==
  \/ NoTargets(p) \/ Record(p) \/ Report(p)
  \/ \E T \in SUBSET Nodes : Stamp(p, T)
  \/ \E t \in Peers : Send(p, t) \/ Timeout(p, t)

Handle(p, t, n) ==
  \/ Refuse(p, t, n) \/ Install(p, t, n) \/ Warmed(p, t, n)
  \/ HandlerFails(p, t, n) \/ Save(p, t, n) \/ Replicate(p, t, n)

\* Every publication is over.
Quiet ==
  /\ \A p \in Publications : pc[p] \in {"done", "refused"}
  /\ UNCHANGED vars

Next ==
  \/ RouteChange \/ Tick \/ Quiet
  \/ \E p \in Publications : StartPublish(p) \/ Publish(p)
  \/ \E p \in Publications, t \in Peers, n \in 1..MaxAttempts : Handle(p, t, n)
  \/ \E t \in Nodes : Restart(t)
  \/ \E t \in Replicas : ReplicaRestart(t)

Spec == Init /\ [][Next]_vars

\* The control plane's event loop keeps running and a fetch that gets no
\* answer ends with an error.  Nothing is assumed of nodes and replicas.
FairSpec == Spec /\ \A p \in Publications : WF_vars(Publish(p))
-----------------------------------------------------------------------------
(* Properties.                                                             *)

\* The state has its shape; a call that was never due has no attempts.
TypeOK ==
  /\ routes \in 0..MaxRoutes
  /\ now \in 0..MaxTime
  /\ pc \in [Publications -> {"idle", "reading", "publishing", "replicating", "done", "refused"}]
  /\ snap \in [Publications -> [routes : -1..MaxRoutes, generatedAt : -1..MaxTime]]
  /\ targets \in [Publications -> SUBSET Nodes]
  /\ call \in [Publications \X Peers -> {"unused", "due", "sent"} \cup Settled]
  /\ attempts \in [Publications \X Peers -> 0..MaxAttempts]
  /\ {wire, warming, saving} \subseteq SUBSET (Publications \X Peers \X (1..MaxAttempts))
  /\ memory \in [Nodes -> Snapshots \cup {None}]
  /\ file \in [Nodes -> Snapshots \cup {None}]
  /\ replica \in [Replicas -> Snapshots \cup {None}]
  /\ published \subseteq Publications
  /\ saved \subseteq Publications \X Nodes
  /\ confirmed \subseteq Publications \X Replicas
  /\ disturbed \subseteq Nodes

\* A publication recorded as ok was saved by every node it targeted, whatever
\* attempts timed out, were repeated or arrived late and whenever the node died:
\* the node's file holds it, or the snapshot of another publication saved there.
PublishedMeansPersisted ==
  \A p \in published : \A t \in targets[p] :
    /\ <<p, t>> \in saved
    /\ \E q \in Publications : <<q, t>> \in saved /\ file[t] = snap[q]

\* A replica that was reported consistent holds that snapshot or a fresher
\* one for as long as it runs, however late PUTs of older snapshots arrive.
ConfirmedMeansHeld ==
  \A c \in confirmed : /\ replica[c[2]] # None
                       /\ ~Older(replica[c[2]], snap[c[1]])

\* A node whose PUTs never overlapped and never failed serves, when it is idle,
\* from the table that it would restore after a crash.
ServesWhatItWouldRestore ==
  \A t \in Nodes : t \notin disturbed /\ ~Busy(t) => memory[t] = file[t]

\* Every publication ends with a report, although nodes may never answer.
EveryPublicationReported ==
  \A p \in Publications : pc[p] = "reading" ~> pc[p] \in {"done", "refused"}

\* "persist the latest accepted route snapshot and restore it on runtime
\* restart" (docs/user/control-plane-reference.md), with no failures at all:
\* an idle node would restore the table it accepted last.
PersistsLatestAccepted ==
  \A t \in Nodes : ~Busy(t) => file[t] = memory[t]
=============================================================================
