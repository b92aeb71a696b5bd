----------------------------- MODULE HttpServer -----------------------------
(***************************************************************************)
(* The HTTP server of oden (oden-core/src/server.rs): one Store and one    *)
(* task per request.  Three things run beside each other: the serve loop,  *)
(* a connection with the future of respond_inner() or a response body in   *)
(* it, and the task of the guest, which outlives both by some steps.  The  *)
(* permit and the guard that cancels the task belong to the future, and    *)
(* then to the body.                                                       *)
(*                                                                         *)
(* A connection makes one request.  The cap on connections drops sockets   *)
(* before there is a request, and is left out.                             *)
(***************************************************************************)
EXTENDS Naturals, FiniteSets

CONSTANTS
    Sockets,        \* the connections
    ServerPermits   \* max_concurrent_requests

ASSUME ServerAssumption == IsFiniteSet(Sockets) /\ ServerPermits \in Nat \ {0}

VARIABLES
    serving,  \* the serve loop: "accepting" | "joining" | "waiting" | "returned"
    socket,   \* what each connection does
    guest,    \* the task of its request
    reply,    \* the oneshot channel between them: "open" | "sent" | "dropped"
    token,    \* its own cancellation token is cancelled
    permits   \* the permits that are left

serverVars == <<serving, socket, guest, reply, token, permits>>

ServerInit ==
    /\ serving = "accepting"
    /\ socket = [c \in Sockets |-> "new"]
    /\ guest = [c \in Sockets |-> "none"]
    /\ reply = [c \in Sockets |-> "open"]
    /\ token = [c \in Sockets |-> FALSE]
    /\ permits = ServerPermits

(* The tokens of requests are children of the server's. *)
shutdownCancelled == serving # "accepting"
cancelled(c) == token[c] \/ shutdownCancelled
GuestAlive(c) == guest[c] \in {"running", "lingering"}

-----------------------------------------------------------------------------
(* The serve loop. *)

accept(c) ==
    /\ serving = "accepting"
    /\ socket[c] = "new"
    /\ socket' = [socket EXCEPT ![c] = "idle"]
    /\ UNCHANGED <<serving, guest, reply, token, permits>>

(* The shutdown future ends, or accept() fails. *)
cancelShutdown ==
    /\ serving = "accepting"
    /\ serving' = "joining"
    /\ UNCHANGED <<socket, guest, reply, token, permits>>

joinConnections ==
    /\ serving = "joining"
    /\ \A c \in Sockets : socket[c] \in {"new", "closed"}
    /\ serving' = "waiting"
    /\ UNCHANGED <<socket, guest, reply, token, permits>>

waitTasks ==
    /\ serving = "waiting"
    /\ \A c \in Sockets : ~GuestAlive(c)
    /\ serving' = "returned"
    /\ UNCHANGED <<socket, guest, reply, token, permits>>

-----------------------------------------------------------------------------
(* respond_inner() up to its await. *)

(* 413, or 503 without a permit. *)
refuse(c) ==
    /\ socket[c] = "idle"
    /\ socket' = [socket EXCEPT ![c] = "answered"]
    /\ UNCHANGED <<serving, guest, reply, token, permits>>

admit(c) ==
    /\ socket[c] = "idle"
    /\ permits > 0
    /\ permits' = permits - 1
    /\ socket' = [socket EXCEPT ![c] = "handling"]
    /\ guest' = [guest EXCEPT ![c] = "running"]
    /\ UNCHANGED <<serving, reply, token>>

(* The task of the guest. *)

guestReplies(c) ==
    /\ guest[c] = "running"
    /\ reply[c] = "open"
    /\ reply' = [reply EXCEPT ![c] = "sent"]
    /\ UNCHANGED <<serving, socket, guest, token, permits>>

(* The sender goes with whatever still had it. *)
Dropped(c) == [reply EXCEPT ![c] = IF @ = "open" THEN "dropped" ELSE @]

(* The handler returns: its body may go on until the token is cancelled. *)
guestReturns(c) ==
    /\ guest[c] = "running"
    /\ guest' = [guest EXCEPT ![c] = "lingering"]
    /\ reply' = Dropped(c)
    /\ UNCHANGED <<serving, socket, token, permits>>

(* A trap, the deadline, or the token: the task is over and its Store gone. *)
guestEnds(c) ==
    /\ guest[c] = "running" \/ guest[c] = "lingering"
    /\ guest' = [guest EXCEPT ![c] = "ended"]
    /\ reply' = Dropped(c)
    /\ UNCHANGED <<serving, socket, token, permits>>

-----------------------------------------------------------------------------
(* respond_inner() after its await, and the body. *)

respond(c) ==
    /\ socket[c] = "handling"
    /\ reply[c] = "sent"
    /\ socket' = [socket EXCEPT ![c] = "streaming"]
    /\ UNCHANGED <<serving, guest, reply, token, permits>>

\* MUTANT of release: the guard is not kept with the permit.
releaseWithoutGuard(c, next) ==
    /\ socket' = [socket EXCEPT ![c] = next]
    /\ UNCHANGED <<serving, guest, reply, token, permits>>

(* What holds the guard and the permit is dropped: first the guard, which  *)
(* cancels the task, then the permit.                                      *)
release(c, next) ==
    /\ socket' = [socket EXCEPT ![c] = next]
    /\ token' = [token EXCEPT ![c] = TRUE]
    /\ UNCHANGED <<serving, guest, reply, permits>>

(* Cancelled, out of time, or without a reply: 500. *)
respondFails(c) == socket[c] = "handling" /\ release(c, "failing")

(* The body is read to its end, or fails. *)
bodyEnds(c) == socket[c] = "streaming" /\ release(c, "failing")

(* The client leaves, or the connection notices the shutdown. *)
disconnect(c) ==
    \/ socket[c] \in {"handling", "streaming"} /\ release(c, "leaving")
    \/ /\ socket[c] \in {"idle", "answered"}
       /\ socket' = [socket EXCEPT ![c] = "closed"]
       /\ UNCHANGED <<serving, guest, reply, token, permits>>

releasePermit(c) ==
    /\ socket[c] \in {"failing", "leaving"}
    /\ socket' = [socket EXCEPT ![c] = IF @ = "failing" THEN "answered" ELSE "closed"]
    /\ permits' = permits + 1
    /\ UNCHANGED <<serving, guest, reply, token>>

ServerNext ==
    \/ \E c \in Sockets :
         \/ accept(c) \/ refuse(c) \/ admit(c)
         \/ guestReplies(c) \/ guestReturns(c) \/ guestEnds(c)
         \/ respond(c) \/ respondFails(c) \/ bodyEnds(c) \/ disconnect(c) \/ releasePermit(c)
    \/ cancelShutdown \/ joinConnections \/ waitTasks

ServerSpec == ServerInit /\ [][ServerNext]_serverVars

-----------------------------------------------------------------------------
(* A permit is freed only once the task it admitted is told to stop, so no *)
(* more guests than permits run that nobody has cancelled, whoever leaves  *)
(* and in whichever order; no connection waits for a reply that no guest   *)
(* will give; and serve() returns with every connection closed, every      *)
(* task over and every permit back, although connections may still admit   *)
(* requests while it shuts down.                                           *)
ServerReclaimsGuests ==
    /\ Cardinality({c \in Sockets : GuestAlive(c) /\ ~cancelled(c)}) <= ServerPermits
    /\ \A c \in Sockets : socket[c] = "handling" /\ reply[c] = "open" => guest[c] = "running"
    /\ serving = "returned" =>
         permits = ServerPermits /\ \A c \in Sockets : socket[c] \in {"new", "closed"} /\ ~GuestAlive(c)
=============================================================================
