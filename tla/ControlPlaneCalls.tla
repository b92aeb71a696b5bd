--------------------------- MODULE ControlPlaneCalls ---------------------------
(***************************************************************************)
(* The calls of async-service.ts in flight.  Each caller is a request      *)
(* handler of some control-plane process; all share one PostgreSQL         *)
(* database db.  A call runs from one await on the repository to the next, *)
(* so between two of its steps any other call may take its own.            *)
(*                                                                         *)
(* A workload gives each caller the requests it makes, one after the       *)
(* other (todo).  When only one caller has any, the workload is serial,    *)
(* and base remembers the database as the last answered call left it: that *)
(* is the history the refinement of the synchronous control plane maps to. *)
(*                                                                         *)
(* Consecutive existence checks of rows that no operation ever deletes     *)
(* (projects, users, organizations, deployments, artifacts) are one step.  *)
(***************************************************************************)
EXTENDS ControlPlaneDb

CONSTANTS Callers,     \* the concurrent request handlers
          MaxRetries   \* how often a process may die under a call

ASSUME CallersAssumption == IsFiniteSet(Callers) /\ Callers # {} /\ MaxRetries \in Nat

VARIABLES db,        \* the database
          call,      \* the call each caller has in flight
          todo,      \* the requests each caller makes after it
          answered,  \* the requests answered so far, with their outcome
          base,      \* the database at the last answer of a serial workload
          serial,    \* one caller makes all the requests
          retries    \* how many calls died with their process so far

callVars == <<db, call, todo, answered, base, serial, retries>>

Pg == INSTANCE PostgresRepository

Idle == [req |-> None, pc |-> "idle", loc |-> None]
Queued(r) == [req |-> r, pc |-> "start", loc |-> None]

FirstCall(q) == IF q = <<>> THEN Idle ELSE Queued(Head(q))
RestOf(q) == IF q = <<>> THEN <<>> ELSE Tail(q)

(* The control plane with database d about to serve the workload w. *)
CallsInit(d, w) ==
  /\ db = d
  /\ base = d
  /\ call = [c \in Callers |-> FirstCall(w[c])]
  /\ todo = [c \in Callers |-> RestOf(w[c])]
  /\ answered = {}
  /\ serial = (Cardinality({c \in Callers : w[c] # <<>>}) = 1)
  /\ retries = 0

-----------------------------------------------------------------------------
(* The steps a call is made of.                                            *)

At(c, op, pc) == call[c].pc = pc /\ call[c].req.op = op
in(c) == call[c].req
loc(c) == call[c].loc

(* The call goes on after its await, holding what it has read. *)
Goto(c, pc, l) ==
  /\ call' = [call EXCEPT ![c].pc = pc, ![c].loc = l]
  /\ UNCHANGED <<todo, answered, base, serial, retries>>

(* The call answers, and its caller makes the next request. *)
Return(c, out) ==
  /\ call' = [call EXCEPT ![c] = FirstCall(todo[c])]
  /\ todo' = [todo EXCEPT ![c] = RestOf(todo[c])]
  /\ answered' = answered \union {[req |-> in(c), out |-> out]}
  /\ base' = IF serial THEN db' ELSE base
  /\ UNCHANGED <<serial, retries>>

(* An answer, or an await, that writes nothing. *)
Reply(c, out) == UNCHANGED db /\ Return(c, out)
Await(c, pc, l) == UNCHANGED db /\ Goto(c, pc, l)

(* One statement: the database after it, and the error it throws if any. *)
Write(c, r, pc, l) ==
  /\ db' = r.db
  /\ IF r.out = "ok" THEN Goto(c, pc, l) ELSE Return(c, r.out)

Finish(c, r) == db' = r.db /\ Return(c, r.out)

(* A read that lets the call go on, or makes it throw. *)
Check(c, r, pc, l) == Write(c, [r EXCEPT !.db = db], pc, l)

(* The process dies with the call in flight, and its client asks again. *)
Retry(c) ==
  /\ call[c].pc \notin {"idle", "start"}
  /\ ~serial
  /\ retries < MaxRetries
  /\ call' = [call EXCEPT ![c] = Queued(in(c))]
  /\ retries' = retries + 1
  /\ UNCHANGED <<db, todo, answered, base, serial>>

-----------------------------------------------------------------------------
(* What most operations read before anything else.                         *)

requireOrganization(id) == Require(db, Has(db.organizations, id), "not_found")
requireUser(id) == Require(db, Has(db.users, id), "not_found")
requireProject(id) == Require(db, Has(db.projects, id), "not_found")

recordCustomerAuditEvent(d, action, target, org, project) ==
  Then(Require(d, OptionalKey(d.projects, project), "not_found"), LAMBDA e :
    Pg!createCustomerAuditEvent(e,
      [action |-> action, target |-> target, project |-> project,
       org |-> IF org = None /\ project # None THEN e.projects[project].org ELSE org]))
=============================================================================
