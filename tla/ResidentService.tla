--------------------------- MODULE ResidentService ---------------------------
(***************************************************************************)
(* A resident service (oden-core/src/service.rs): one Wasm instance that a *)
(* worker task drives from its start hook through a serial loop over a     *)
(* bounded mailbox to its stop hook; connection tasks that admit requests  *)
(* under a semaphore, read their bodies, enqueue calls and wait; and the   *)
(* serve loop, which drains, stops the worker and bounds the shutdown.     *)
(*                                                                         *)
(* A request stands for one connection, whose task reads the head of the   *)
(* request before and writes the response after it.  Bodies, headers and   *)
(* telemetry are left out; time is the set of requests whose deadline has  *)
(* passed.  The permit of a request is held exactly while respond_inner()  *)
(* runs, so the semaphore is the set of such requests.                     *)
(***************************************************************************)
EXTENDS Integers, Sequences, FiniteSets

CONSTANTS
  Requests,
  MaxConcurrent   \* max_concurrent_requests: permits and mailbox capacity

NoCall == "none"

ASSUME ServiceAssumption ==
  /\ MaxConcurrent \in Nat \ {0}
  /\ IsFiniteSet(Requests)
  /\ NoCall \notin Requests

VARIABLES
  connections, \* those whose task has not ended
  pc,        \* where each request is, or its status code
  expired,   \* requests whose deadline has passed
  mailbox,   \* calls not yet received by the worker
  closed,    \* the worker has closed the mailbox
  worker,    \* the worker task
  current,   \* the request the guest is running
  armed,     \* the request whose deadline the watchdog is timing
  serve,     \* the serve loop
  exit,      \* what serve() returned
  acceptOk,  \* the accept loop ended without an error
  poisoned,  \* history: a call failed in the guest
  stops      \* history: calls of the stop hook

vars == <<connections, pc, expired, mailbox, closed, worker, current, armed, serve, exit, acceptOk,
          poisoned, stops>>
workerVars == <<mailbox, closed, worker, current, armed, poisoned, stops>>
serveVars  == <<serve, exit, acceptOk>>

\* respond_inner() is running: reading the body, blocked on a full mailbox, or
\* waiting for the worker.
Active == {"receiving", "sending", "waiting"}
Over   == {"200", "4xx", "500", "503", "gone"}

Init ==
  /\ connections = {}
  /\ pc = [r \in Requests |-> "idle"]
  /\ expired = {}
  /\ mailbox = <<>>
  /\ closed = FALSE
  /\ worker = "starting"
  /\ current = NoCall
  /\ armed = NoCall
  /\ serve = "starting"
  /\ exit = "none"
  /\ acceptOk = TRUE
  /\ poisoned = FALSE
  /\ stops = 0

MoveTo(r, place) == pc' = [pc EXCEPT ![r] = place]
InFlight == {r \in Requests : pc[r] \in Active}
\* The worker task has ended and dropped the mailbox.
Ended    == worker \in {"stopped", "failed", "aborted"}
\* stop.cancel() has been called.
Stopping == serve \in {"joining", "exited"}

-----------------------------------------------------------------------------
(* Startup.                                                                *)

StartOk ==
  /\ worker = "starting" /\ serve = "starting"
  /\ worker' = "idle"
  /\ serve' = "accepting"
  /\ UNCHANGED <<connections, armed, pc, expired, mailbox, closed, current, exit, acceptOk, poisoned, stops>>

\* The start hook failed or its deadline passed: nothing is ever served.
StartFails ==
  /\ worker = "starting" /\ serve = "starting"
  /\ worker' = "failed"
  /\ serve' = "exited"
  /\ exit' = "error"
  /\ UNCHANGED <<connections, armed, pc, expired, mailbox, closed, current, acceptOk, poisoned, stops>>

-----------------------------------------------------------------------------
(* A connection: its task, and respond_inner().                            *)

MaxConnections == IF 2 * MaxConcurrent > 32 THEN 2 * MaxConcurrent ELSE 32

\* A socket is accepted; the head of its request may never come.
Connect(r) ==
  /\ pc[r] = "idle" /\ r \notin connections
  /\ serve = "accepting"
  /\ Cardinality(connections) < MaxConnections
  /\ connections' = connections \union {r}
  /\ UNCHANGED <<pc, expired, workerVars, serveVars>>

\* The response has been written, or there is no request under way: the client
\* goes away, or graceful_shutdown() closes.  No deadline bounds it.
ConnectionEnds(r) ==
  /\ r \in connections /\ pc[r] \notin Active
  /\ connections' = connections \ {r}
  /\ UNCHANGED <<pc, expired, workerVars, serveVars>>

AdmitRequest(r) ==
  /\ r \in connections /\ pc[r] = "idle"
  /\ serve = "accepting"
  /\ Cardinality(InFlight) < MaxConcurrent
  /\ MoveTo(r, "receiving")
  /\ UNCHANGED <<connections, expired, workerVars, serveVars>>

\* "service is draining" or "service at capacity".
Refuse(r) ==
  /\ r \in connections /\ pc[r] = "idle"
  /\ \/ serve = "draining"
     \/ serve = "accepting" /\ Cardinality(InFlight) >= MaxConcurrent
  /\ MoveTo(r, "503")
  /\ UNCHANGED <<connections, expired, workerVars, serveVars>>

\* The body has arrived.
BodyReceived(r) ==
  /\ pc[r] = "receiving"
  /\ MoveTo(r, "sending")
  /\ UNCHANGED <<connections, expired, workerVars, serveVars>>

\* The body is too large, broken, or late.
BodyFails(r) ==
  /\ pc[r] = "receiving"
  /\ MoveTo(r, "4xx")
  /\ UNCHANGED <<connections, expired, workerVars, serveVars>>

\* MUTANT of Enqueue: the mailbox is unbounded.
EnqueueUnbounded(r) ==
  /\ pc[r] = "sending"
  /\ ~closed /\ ~Ended
  /\ mailbox' = Append(mailbox, r)
  /\ MoveTo(r, "waiting")
  /\ UNCHANGED <<connections, armed, expired, closed, worker, current, poisoned, stops, serveVars>>

\* The mailbox has room for the call; the deadline does not bound this wait.
Enqueue(r) ==
  /\ pc[r] = "sending"
  /\ ~closed /\ ~Ended
  /\ Len(mailbox) < MaxConcurrent
  /\ mailbox' = Append(mailbox, r)
  /\ MoveTo(r, "waiting")
  /\ UNCHANGED <<connections, armed, expired, closed, worker, current, poisoned, stops, serveVars>>

\* MUTANT of SendFails: try_send(), which a full mailbox refuses.
SendFailsWhenFull(r) ==
  /\ pc[r] = "sending"
  /\ closed \/ Ended \/ Len(mailbox) = MaxConcurrent
  /\ MoveTo(r, "503")
  /\ UNCHANGED <<connections, expired, workerVars, serveVars>>

\* "service stopped"
SendFails(r) ==
  /\ pc[r] = "sending"
  /\ closed \/ Ended
  /\ MoveTo(r, "503")
  /\ UNCHANGED <<connections, expired, workerVars, serveVars>>

\* The deadline passes before the worker has answered.
GiveUp(r) ==
  /\ pc[r] = "waiting"
  /\ r \in expired
  /\ MoveTo(r, "500")
  /\ UNCHANGED <<connections, expired, workerVars, serveVars>>

\* The worker ended with the call queued or running.
ReplyDropped(r) ==
  /\ pc[r] = "waiting"
  /\ Ended
  /\ MoveTo(r, "500")
  /\ UNCHANGED <<connections, expired, workerVars, serveVars>>

\* The client goes away: respond_inner() is dropped with its permit, its call
\* stays where it is.
Disconnect(r) ==
  /\ pc[r] \in Active
  /\ MoveTo(r, "gone")
  /\ connections' = connections \ {r}
  /\ UNCHANGED <<expired, workerVars, serveVars>>

Expire(r) ==
  /\ pc[r] # "idle" /\ r \notin expired
  /\ pc[r] \in Active \/ r \in {current, armed} \/ \E i \in DOMAIN mailbox : mailbox[i] = r
  /\ expired' = expired \cup {r}
  /\ UNCHANGED <<connections, pc, workerVars, serveVars>>

-----------------------------------------------------------------------------
(* The worker.                                                             *)

\* The stop token wins over a queued call, once.
CloseMailbox ==
  /\ worker = "idle"
  /\ Stopping /\ ~closed
  /\ closed' = TRUE
  /\ UNCHANGED <<connections, armed, pc, expired, mailbox, worker, current, poisoned, stops, serveVars>>

\* receiver.recv() returns the next call.
Receive ==
  /\ worker = "idle"
  /\ Stopping => closed
  /\ mailbox # <<>>
  /\ mailbox' = Tail(mailbox)

\* The caller is gone, or its deadline passed in the queue.
SkipCall ==
  /\ Receive
  /\ pc[Head(mailbox)] # "waiting" \/ Head(mailbox) \in expired
  /\ pc' = [pc EXCEPT ![Head(mailbox)] = IF @ = "waiting" THEN "500" ELSE @]
  /\ UNCHANGED <<connections, armed, expired, closed, worker, current, poisoned, stops, serveVars>>

RunCall ==
  /\ Receive
  /\ pc[Head(mailbox)] = "waiting" /\ Head(mailbox) \notin expired
  /\ worker' = "running"
  /\ current' = Head(mailbox)
  /\ UNCHANGED <<connections, armed, pc, expired, closed, poisoned, stops, serveVars>>

\* The handler and the response body are complete.
HandlerOk ==
  /\ worker = "running"
  /\ worker' = "idle"
  /\ current' = NoCall
  /\ pc' = [pc EXCEPT ![current] = IF @ = "waiting" THEN "200" ELSE @]
  /\ UNCHANGED <<connections, armed, expired, mailbox, closed, poisoned, stops, serveVars>>

\* A trap, a broken response body or the deadline: the caller gets an error
\* and the whole generation ends.
HandlerFails ==
  /\ worker = "running"
  /\ worker' = "failed"
  /\ current' = NoCall
  /\ mailbox' = <<>>
  /\ poisoned' = TRUE
  /\ pc' = [pc EXCEPT ![current] = IF @ = "waiting" THEN "500" ELSE @]
  /\ UNCHANGED <<connections, armed, expired, closed, stops, serveVars>>

\* The deadline in the watch channel: the running call's, or none.
Deadline == IF worker = "running" THEN current ELSE NoCall

\* MUTANT of WatchdogFires: the timer never fires.
WatchdogSleeps == FALSE /\ UNCHANGED vars

\* The timer outside run_concurrent() ends the worker without an answer.  It
\* is polled before the watch channel, so it may still be the previous call's.
WatchdogFires ==
  /\ worker \in {"idle", "running", "stopping"}
  /\ armed \in expired
  /\ worker' = "failed"
  /\ current' = NoCall
  /\ armed' = NoCall
  /\ mailbox' = <<>>
  /\ poisoned' = (poisoned \/ worker = "running")
  /\ UNCHANGED <<connections, pc, expired, closed, stops, serveVars>>

\* deadline_rx.changed()
Rearm ==
  /\ worker \in {"idle", "running", "stopping"}
  /\ armed \notin expired /\ armed # Deadline
  /\ armed' = Deadline
  /\ UNCHANGED <<connections, pc, expired, mailbox, closed, worker, current, poisoned, stops, serveVars>>

\* The mailbox is closed and empty: the stop hook is called.
CallStop ==
  /\ worker = "idle"
  /\ closed /\ mailbox = <<>>
  /\ worker' = "stopping"
  /\ stops' = stops + 1
  /\ UNCHANGED <<connections, armed, pc, expired, mailbox, closed, current, poisoned, serveVars>>

StopReturns ==
  /\ worker = "stopping"
  /\ \E result \in {"stopped", "failed"} : worker' = result
  /\ UNCHANGED <<connections, armed, pc, expired, mailbox, closed, current, poisoned, stops, serveVars>>

-----------------------------------------------------------------------------
(* serve().                                                                *)

\* A signal, the end of the worker, or an error of the listener.
Drain ==
  /\ serve = "accepting"
  /\ serve' = "draining"
  /\ acceptOk' \in BOOLEAN
  /\ UNCHANGED <<connections, pc, expired, workerVars, exit>>

\* MUTANT of Joined: the worker is stopped without waiting for connections.
JoinedEarly ==
  /\ serve = "draining"
  /\ serve' = "joining"
  /\ UNCHANGED <<connections, pc, expired, workerVars, exit, acceptOk>>

\* Every connection task has ended, the responses are written too: stop.cancel().
Joined ==
  /\ serve = "draining"
  /\ connections = {}
  /\ serve' = "joining"
  /\ UNCHANGED <<connections, pc, expired, workerVars, exit, acceptOk>>

WorkerJoined ==
  /\ serve = "joining"
  /\ Ended
  /\ serve' = "exited"
  /\ exit' = IF worker = "stopped" /\ acceptOk THEN "ok" ELSE "error"
  /\ UNCHANGED <<connections, pc, expired, workerVars, acceptOk>>

\* The shutdown deadline passed: connections are dropped, the worker aborted.
ShutdownTimeout ==
  /\ serve \in {"draining", "joining"}
  /\ serve' = "exited"
  /\ exit' = "error"
  /\ worker' = IF Ended THEN worker ELSE "aborted"
  /\ current' = NoCall
  /\ mailbox' = <<>>
  /\ connections' = {}
  /\ pc' = [r \in Requests |-> IF pc[r] \in Active THEN "gone" ELSE pc[r]]
  /\ UNCHANGED <<armed, expired, closed, acceptOk, poisoned, stops>>

-----------------------------------------------------------------------------
RespondInner(r) ==
  \/ BodyReceived(r) \/ BodyFails(r) \/ Enqueue(r) \/ SendFails(r) \/ GiveUp(r) \/ ReplyDropped(r)

WorkerStep ==
  \/ CloseMailbox \/ SkipCall \/ RunCall \/ HandlerOk \/ HandlerFails
  \/ WatchdogFires \/ Rearm \/ CallStop \/ StopReturns

Quiet == serve = "exited" /\ UNCHANGED vars

Next ==
  \/ StartOk \/ StartFails
  \/ \E r \in Requests : Connect(r) \/ ConnectionEnds(r) \/ AdmitRequest(r) \/ Refuse(r) \/ Disconnect(r)
                          \/ Expire(r) \/ RespondInner(r)
  \/ WorkerStep
  \/ Drain \/ Joined \/ WorkerJoined \/ ShutdownTimeout
  \/ Quiet

Spec == Init /\ [][Next]_vars

\* Tokio polls ready tasks, deadlines pass, the stop hook is bounded by its
\* own timeout, and serve() drains once the worker has ended.  Nothing is
\* assumed of the guest's handlers, or of clients: they may never send the rest
\* of a head, read a response or close.
FairSpec ==
  /\ Spec
  /\ \A r \in Requests : WF_vars(RespondInner(r)) /\ WF_vars(Expire(r))
  /\ WF_vars(CloseMailbox \/ SkipCall \/ RunCall \/ CallStop \/ StopReturns)
  /\ WF_vars(WatchdogFires \/ Rearm)
  /\ WF_vars(Ended /\ Drain) /\ WF_vars(Joined) /\ WF_vars(WorkerJoined)
-----------------------------------------------------------------------------
(* Properties.                                                             *)

\* The state has its shape; the guest runs a request exactly while the worker
\* is in a handler, and the semaphore is never over-committed.
TypeOK ==
  /\ connections \subseteq Requests
  /\ pc \in [Requests -> {"idle"} \cup Active \cup Over]
  /\ expired \subseteq Requests
  /\ mailbox \in Seq(Requests)
  /\ Len(mailbox) <= MaxConcurrent
  /\ closed \in BOOLEAN
  /\ worker \in {"starting", "idle", "running", "stopping", "stopped", "failed", "aborted"}
  /\ current \in Requests \cup {NoCall}
  /\ worker = "running" <=> current \in Requests
  /\ armed \in Requests \cup {NoCall}
  /\ serve \in {"starting", "accepting", "draining", "joining", "exited"}
  /\ exit \in {"none", "ok", "error"}
  /\ acceptOk \in BOOLEAN
  /\ poisoned \in BOOLEAN
  /\ stops \in Nat

\* "drains accepted requests including bodies still arriving and queued
\* requests, then calls stop once": when the stop hook runs no request is being
\* received, queued or answered, and it has not run before.
StopAfterDrain ==
  /\ stops <= 1
  /\ worker = "stopping" => mailbox = <<>> /\ InFlight = {}

\* "Stop is not called on a failed Store."
NoStopAfterFailure == poisoned => stops = 0

\* A clean exit means that the stop hook ran and succeeded, no call failed in
\* the guest and no request was left without its answer.
CleanExit ==
  exit = "ok" => worker = "stopped" /\ stops = 1 /\ ~poisoned /\ InFlight = {}

\* The stop hook and the exit code tell the truth about the drain.
OrderlyStop == StopAfterDrain /\ NoStopAfterFailure /\ CleanExit

Queued    == {mailbox[i] : i \in DOMAIN mailbox}
Executing == {current} \ {NoCall}
Receiving == {r \in Requests : pc[r] \in {"receiving", "sending"}}

\* What the service can hold besides the request it executes: the calls of
\* clients that went away stay queued after their permits are free again.
WorkBounded == Cardinality(Queued \cup Receiving) <= 2 * MaxConcurrent

\* An admitted request whose client stays fails only because its own deadline
\* passed or the generation failed: no drain, no stop, no client that left and
\* no full mailbox costs another client its answer.
FailuresHaveCause ==
  [][\A r \in Requests :
       pc[r] \in Active /\ pc'[r] \in {"500", "503"} => r \in expired \/ worker' = "failed"]_vars

\* Every admitted request is answered, although handlers may never return.
EveryRequestAnswered ==
  \A r \in Requests : pc[r] = "receiving" ~> pc[r] \in Over

\* Once draining, all that was admitted ends and, when the last connection has
\* ended too, serve() returns: only a client that keeps its connection needs the
\* shutdown deadline, which then ends every drain.
DrainTerminates ==
  /\ serve = "draining" ~> InFlight = {}
  /\ serve = "joining" \/ (serve = "draining" /\ connections = {}) ~> serve = "exited"
  /\ WF_vars(ShutdownTimeout) => (serve = "draining" ~> serve = "exited")

\* Nobody waits for ever: not a client for its answer, not serve() for the guest.
DrainAnswersEveryone == EveryRequestAnswered /\ DrainTerminates

\* "Once execution starts, it runs to completion within the deadline"
\* (docs/developer/service-runtime.md:43): the watchdog ends the generation of
\* a running call only when the deadline of that call has passed.
RunsUntilDeadline ==
  [][worker = "running" /\ WatchdogFires => current \in expired]_vars

\* "`runtime.max_concurrent_requests` bounds executing, queued, and
\* body-receiving requests" (docs/developer/service-runtime.md).
ConcurrencyBound ==
  Cardinality(Executing \cup Queued \cup Receiving) <= MaxConcurrent
=============================================================================
