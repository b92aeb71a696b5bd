-------------------------- MODULE RuntimeNodeProofs --------------------------
(***************************************************************************)
(* Theorems about RuntimeNode for every set of requests, every project and *)
(* every limit.  A step leaves the set of invocations alone (Steady), adds *)
(* one to it (Enters) or takes one from it (Leaves); the counters follow.  *)
(* That close() waits for the invocations it found needs the exact tracker *)
(* (PermitsExact) and that a request found in its invocation only ever     *)
(* moves on to its end (DrainInv); that no failure is counted twice needs  *)
(* that an aborted request is still in its invocation (AbortInv).          *)
(***************************************************************************)
EXTENDS RuntimeNode, FiniteSetTheorems, TLAPS

\* An aborted request is marked only while its invocation goes on.
AbortInv == aborted \subseteq Invoking

\* close() gets past the drain only when what it found in progress has ended.
DrainInv ==
  /\ closing = "no" => underway = {}
  /\ \A r \in underway : r \in Invoking \/ pc[r] = "done"
  /\ closing = "closing" => \A r \in underway : pc[r] = "done"
  /\ exit = "ok" => closing = "closing"

IInv == TypeOK /\ PermitsExact /\ WithinLimits /\ AbortInv /\ MetricsBalance /\ DrainInv

Of(p) == {r \in Invoking : ProjectOf[r] = p}

Steady ==
  /\ Invoking' = Invoking
  /\ UNCHANGED <<permitVars, config>>

Enters(r) ==
  /\ r \in Requests \ Invoking
  /\ Invoking' = Invoking \cup {r}
  /\ Start(r)

Leaves(r) ==
  /\ r \in Invoking
  /\ Invoking' = Invoking \ {r}
  /\ Release(r)
  /\ UNCHANGED config

\* The next-state relation by what a step does to its request.
LEMMA NextCases ==
  ASSUME [Next]_vars
  PROVE  \/ \E r \in Requests : \/ Connect(r) \/ Arrive(r) \/ Reply(r) \/ Overloaded(r) \/ Start(r)
                                \/ BodyRead(r) \/ GuestReturns(r) \/ Flushed(r)
                                \/ Disconnect(r) \/ WaitTimeout(r)
         \/ \E r \in Requests : \/ Throws(r, "reading") \/ Throws(r, "invoking")
                                \/ (r \in aborted /\ Throws(r, "flushing"))
         \/ \E status \in {"active", "draining"} : SetLifecycle(status)
         \/ \E s \in Signals : Signal(s)
         \/ DrainTimeout
         \/ ServerClosed
         \/ UNCHANGED vars
<1>1. CASE UNCHANGED vars
  BY <1>1
<1>2. CASE Ended
  BY <1>2 DEF Ended
<1>3. ASSUME NEW r \in Requests, Handle(r)
      PROVE  \/ Reply(r) \/ Overloaded(r) \/ Start(r) \/ BodyRead(r) \/ Flushed(r)
             \/ Throws(r, "reading") \/ Throws(r, "invoking")
             \/ (r \in aborted /\ Throws(r, "flushing"))
  BY <1>3 DEF Handle, RateLimited, Fails, FromCache, StartAborted, ProjectOverloaded,
              BodyFails, WallTimeout, FlushedAborted
<1>4. CASE \E r \in Requests : \/ Connect(r) \/ Arrive(r) \/ Handle(r) \/ GuestReturns(r) \/ GuestFails(r)
                               \/ Disconnect(r) \/ WaitTimeout(r)
  BY <1>3, <1>4 DEF GuestFails
<1> QED
  BY <1>1, <1>2, <1>4 DEF Next

\* Every step keeps the shape of the state.
LEMMA NextTypeOK == ASSUME TypeOK, [Next]_vars PROVE TypeOK'
<1> USE NodeAssumption DEF TypeOK, closeVars, permitVars, metricVars, reqVars, Done, Release, Released,
        Acquired, Dec, InvocationFails
<1>1. ASSUME NEW r \in Requests, Connect(r) \/ Arrive(r) PROVE TypeOK'
  BY <1>1 DEF Connect, Arrive
<1>2. ASSUME NEW r \in Requests, Reply(r) PROVE TypeOK'
  BY <1>2 DEF Reply
<1>3. ASSUME NEW r \in Requests, Overloaded(r) PROVE TypeOK'
  BY <1>3 DEF Overloaded
<1>4. ASSUME NEW r \in Requests, Start(r) PROVE TypeOK'
  BY <1>4 DEF Start
<1>5. ASSUME NEW r \in Requests, BodyRead(r) \/ GuestReturns(r) PROVE TypeOK'
  BY <1>5 DEF BodyRead, GuestReturns, Continue
<1>6. ASSUME NEW r \in Requests, NEW from \in {"reading", "invoking", "flushing"}, Throws(r, from)
      PROVE  TypeOK'
  BY <1>6 DEF Throws
<1>7. ASSUME NEW r \in Requests, Flushed(r) PROVE TypeOK'
  BY <1>7 DEF Flushed
<1>8. ASSUME NEW r \in Requests, Disconnect(r) PROVE TypeOK'
  BY <1>8 DEF Disconnect, Abort
<1>9. ASSUME NEW r \in Requests, WaitTimeout(r) PROVE TypeOK'
  BY <1>9 DEF WaitTimeout, Abort
<1>10. ASSUME NEW status \in {"active", "draining"}, SetLifecycle(status) PROVE TypeOK'
  BY <1>10 DEF SetLifecycle
<1>11. ASSUME NEW s \in Signals, Signal(s) PROVE TypeOK'
  BY <1>11 DEF Signal, Close, Invoking
<1>12. CASE DrainTimeout
  BY <1>12 DEF DrainTimeout
<1>13. CASE ServerClosed
  BY <1>13 DEF ServerClosed
<1>14. CASE UNCHANGED vars
  BY <1>14 DEF vars
<1> QED
  BY <1>1, <1>2, <1>3, <1>4, <1>5, <1>6, <1>7, <1>8, <1>9, <1>10, <1>11, <1>12, <1>13, <1>14, NextCases

\* A permit that is given back as soon as it was taken leaves no trace.
LEMMA GivenBack ==
  ASSUME TypeOK, NEW p \in Projects
  PROVE  Released(Acquired(p), p) = permits
<1>1. CASE HasLimit(p)
  <2>1. Released(Acquired(p), p) = [[permits EXCEPT ![p] = @ + 1] EXCEPT ![p] = Dec(@)]
    BY <1>1 DEF Released, Acquired
  <2>2. Dec(permits[p] + 1) = permits[p]
    BY DEF TypeOK, Dec
  <2> QED
    BY <2>1, <2>2 DEF TypeOK
<1>2. CASE ~HasLimit(p)
  BY <1>2 DEF Released, Acquired
<1> QED
  BY <1>1, <1>2

\* What a step does to the invocations in progress.
LEMMA Kinds ==
  ASSUME TypeOK, [Next]_vars
  PROVE  Steady \/ \E r \in Requests : Enters(r) \/ Leaves(r)
<1> USE DEF permitVars
<1>1. ASSUME NEW r \in Requests, Connect(r) \/ Arrive(r) \/ Reply(r) PROVE Steady
  BY <1>1 DEF Connect, Arrive, Reply, Done, Steady, Invoking, TypeOK
<1>2. ASSUME NEW r \in Requests, Overloaded(r) PROVE Steady
  <2>1. permits' = permits
    BY <1>2, GivenBack, NodeAssumption DEF Overloaded
  <2> QED
    BY <1>2, <2>1 DEF Overloaded, Done, Steady, Invoking, TypeOK
<1>3. ASSUME NEW r \in Requests, Start(r) PROVE Enters(r)
  BY <1>3 DEF Start, Enters, Invoking, TypeOK
<1>4. ASSUME NEW r \in Requests, BodyRead(r) \/ GuestReturns(r) PROVE Steady
  BY <1>4 DEF BodyRead, GuestReturns, Continue, Steady, Invoking, TypeOK
<1>5. ASSUME NEW r \in Requests, NEW from \in {"reading", "invoking", "flushing"}, Throws(r, from)
      PROVE  Leaves(r)
  BY <1>5 DEF Throws, InvocationFails, Done, Leaves, Invoking, TypeOK
<1>6. ASSUME NEW r \in Requests, Flushed(r) PROVE Leaves(r)
  BY <1>6 DEF Flushed, Done, Leaves, Invoking, TypeOK
<1>7. ASSUME NEW r \in Requests, Disconnect(r) \/ WaitTimeout(r) PROVE Steady
  BY <1>7 DEF Disconnect, WaitTimeout, Abort, Steady, Invoking
<1>8. ASSUME NEW status \in {"active", "draining"}, SetLifecycle(status) PROVE Steady
  BY <1>8 DEF SetLifecycle, Steady, Invoking, reqVars
<1>9. ASSUME NEW s \in Signals, Signal(s) PROVE Steady
  BY <1>9 DEF Signal, Steady, Invoking, reqVars
<1>10. CASE DrainTimeout \/ ServerClosed \/ UNCHANGED vars
  BY <1>10 DEF DrainTimeout, ServerClosed, vars, Steady, Invoking, reqVars
<1> QED
  BY <1>1, <1>2, <1>3, <1>4, <1>5, <1>6, <1>7, <1>8, <1>9, <1>10, NextCases

\* The invocations in progress are finitely many.
LEMMA InvokingFinite ==
  /\ IsFiniteSet(Invoking) /\ Cardinality(Invoking) \in Nat
  /\ \A p : IsFiniteSet(Of(p)) /\ Cardinality(Of(p)) \in Nat
  /\ IsFiniteSet(Invoking \ aborted) /\ Cardinality(Invoking \ aborted) \in Nat
<1>1. IsFiniteSet(Requests)
  BY NodeAssumption
<1>2. ASSUME NEW S \in SUBSET Requests PROVE IsFiniteSet(S) /\ Cardinality(S) \in Nat
  <2>1. IsFiniteSet(S)
    BY <1>1, FS_Subset
  <2> QED
    BY <2>1, FS_CardinalityType
<1>3. Invoking \in SUBSET Requests /\ Invoking \ aborted \in SUBSET Requests
  BY DEF Invoking
<1>4. \A p : Of(p) \in SUBSET Requests
  BY DEF Of, Invoking
<1> QED
  BY <1>2, <1>3, <1>4

\* How many of a project are in progress after one of them has started, ...
LEMMA OneMore ==
  ASSUME NEW r, r \notin Invoking, Invoking' = Invoking \cup {r}
  PROVE  /\ Cardinality(Invoking)' = Cardinality(Invoking) + 1
         /\ \A p : Cardinality(Of(p))' = IF ProjectOf[r] = p THEN Cardinality(Of(p)) + 1 ELSE Cardinality(Of(p))
<1>1. Cardinality(Invoking \cup {r}) = Cardinality(Invoking) + 1
  BY InvokingFinite, FS_AddElement
<1>2. ASSUME NEW p PROVE Cardinality(Of(p))' = IF ProjectOf[r] = p THEN Cardinality(Of(p)) + 1 ELSE Cardinality(Of(p))
  <2>1. CASE ProjectOf[r] = p
    <3>1. Of(p)' = Of(p) \cup {r} /\ r \notin Of(p)
      BY <2>1 DEF Of
    <3>2. Cardinality(Of(p) \cup {r}) = Cardinality(Of(p)) + 1
      BY <3>1, InvokingFinite, FS_AddElement
    <3> QED
      BY <2>1, <3>1, <3>2
  <2>2. CASE ProjectOf[r] # p
    <3>1. Of(p)' = Of(p)
      BY <2>2 DEF Of
    <3> QED
      BY <2>2, <3>1
  <2> QED
    BY <2>1, <2>2
<1> QED
  BY <1>1, <1>2

\* ... and after one of them has ended.
LEMMA OneLess ==
  ASSUME NEW r, r \in Invoking, Invoking' = Invoking \ {r}
  PROVE  /\ Cardinality(Invoking)' = Cardinality(Invoking) - 1
         /\ \A p : Cardinality(Of(p))' = IF ProjectOf[r] = p THEN Cardinality(Of(p)) - 1 ELSE Cardinality(Of(p))
<1>1. Cardinality(Invoking \ {r}) = Cardinality(Invoking) - 1
  BY InvokingFinite, FS_RemoveElement
<1>2. ASSUME NEW p PROVE Cardinality(Of(p))' = IF ProjectOf[r] = p THEN Cardinality(Of(p)) - 1 ELSE Cardinality(Of(p))
  <2>1. CASE ProjectOf[r] = p
    <3>1. Of(p)' = Of(p) \ {r} /\ r \in Of(p)
      BY <2>1 DEF Of
    <3>2. Cardinality(Of(p) \ {r}) = Cardinality(Of(p)) - 1
      BY <3>1, InvokingFinite, FS_RemoveElement
    <3> QED
      BY <2>1, <3>1, <3>2
  <2>2. CASE ProjectOf[r] # p
    <3>1. Of(p)' = Of(p)
      BY <2>2 DEF Of
    <3> QED
      BY <2>2, <3>1
  <2> QED
    BY <2>1, <2>2
<1> QED
  BY <1>1, <1>2

\* PermitsExact with the name of its sets.
LEMMA PermitsAre ==
  PermitsExact <=> /\ active = Cardinality(Invoking) /\ tracked = Cardinality(Invoking)
                   /\ \A p \in Projects : permits[p] = IF HasLimit(p) THEN Cardinality(Of(p)) ELSE 0
  BY DEF PermitsExact, Of

\* WithinLimits likewise.
LEMMA LimitsAre ==
  WithinLimits <=> /\ Cardinality(Invoking) <= config.concurrent
                   /\ \A p \in Projects : HasLimit(p) => Cardinality(Of(p)) <= ProjectLimit[p]
  BY DEF WithinLimits, Of

\* No counter drifts from the invocations in progress.
LEMMA NextPermits == ASSUME TypeOK, PermitsExact, [Next]_vars PROVE PermitsExact'
<1> USE PermitsAre
<1>1. CASE Steady
  BY <1>1 DEF Steady, permitVars, PermitsExact, HasLimit
<1>2. ASSUME NEW r \in Requests, Enters(r) PROVE PermitsExact'
  <2>1. active' = active + 1 /\ tracked' = tracked + 1 /\ permits' = Acquired(ProjectOf[r])
    BY <1>2 DEF Enters, Start
  <2>2. /\ Cardinality(Invoking)' = Cardinality(Invoking) + 1
        /\ \A p : Cardinality(Of(p))' = IF ProjectOf[r] = p THEN Cardinality(Of(p)) + 1 ELSE Cardinality(Of(p))
    BY <1>2, OneMore DEF Enters
  <2>3. ASSUME NEW p \in Projects
        PROVE  permits'[p] = IF HasLimit(p) THEN Cardinality(Of(p))' ELSE 0
    BY <2>1, <2>2 DEF Acquired, HasLimit, TypeOK
  <2> QED
    BY <2>1, <2>2, <2>3 DEF HasLimit, PermitsExact, Of
<1>3. ASSUME NEW r \in Requests, Leaves(r) PROVE PermitsExact'
  <2>1. active' = Dec(active) /\ tracked' = Dec(tracked) /\ permits' = Released(permits, ProjectOf[r])
    BY <1>3 DEF Leaves, Release
  <2>2. /\ Cardinality(Invoking)' = Cardinality(Invoking) - 1
        /\ \A p : Cardinality(Of(p))' = IF ProjectOf[r] = p THEN Cardinality(Of(p)) - 1 ELSE Cardinality(Of(p))
    BY <1>3, OneLess DEF Leaves
  <2>3. Cardinality(Invoking) # 0 /\ Cardinality(Of(ProjectOf[r])) # 0
    <3>1. r \in Invoking /\ r \in Of(ProjectOf[r])
      BY <1>3 DEF Leaves, Of
    <3> QED
      BY <3>1, InvokingFinite, FS_EmptySet
  <2>4. ASSUME NEW p \in Projects
        PROVE  permits'[p] = IF HasLimit(p) THEN Cardinality(Of(p))' ELSE 0
    BY <2>1, <2>2, <2>3, InvokingFinite DEF Released, Dec, HasLimit, TypeOK
  <2>5. active' = Cardinality(Invoking)' /\ tracked' = Cardinality(Invoking)'
    BY <2>1, <2>2, <2>3, InvokingFinite DEF Dec
  <2> QED
    BY <2>4, <2>5 DEF HasLimit, PermitsExact, Of
<1> QED
  BY <1>1, <1>2, <1>3, Kinds

\* A limit that is respected stays respected.
LEMMA NextLimits == ASSUME TypeOK, PermitsExact, WithinLimits, [Next]_vars PROVE WithinLimits'
<1> USE LimitsAre
<1>1. CASE Steady
  BY <1>1 DEF Steady, WithinLimits, HasLimit
<1>2. ASSUME NEW r \in Requests, Enters(r) PROVE WithinLimits'
  <2>1. /\ Cardinality(Invoking)' = Cardinality(Invoking) + 1
        /\ \A p : Cardinality(Of(p))' = IF ProjectOf[r] = p THEN Cardinality(Of(p)) + 1 ELSE Cardinality(Of(p))
    BY <1>2, OneMore DEF Enters
  <2>2. active < config.concurrent /\ ~ProjectFull(ProjectOf[r]) /\ config' = config
    BY <1>2 DEF Enters, Start
  <2>3. config.concurrent \in Nat
    BY NodeAssumption DEF TypeOK
  <2>4. Cardinality(Invoking)' <= config'.concurrent
    BY <2>1, <2>2, <2>3, InvokingFinite DEF PermitsExact
  <2>5. ASSUME NEW p \in Projects, HasLimit(p) PROVE Cardinality(Of(p))' <= ProjectLimit[p]
    <3>1. ProjectLimit[p] \in Nat /\ Cardinality(Of(p)) <= ProjectLimit[p] /\ permits[p] = Cardinality(Of(p))
      BY <2>5, NodeAssumption, PermitsAre DEF HasLimit
    <3>2. CASE ProjectOf[r] = p
      BY <2>1, <2>2, <2>5, <3>1, <3>2, InvokingFinite DEF ProjectFull
    <3>3. CASE ProjectOf[r] # p
      BY <2>1, <3>1, <3>3
    <3> QED
      BY <3>2, <3>3
  <2> QED
    BY <2>4, <2>5 DEF HasLimit, WithinLimits, Of
<1>3. ASSUME NEW r \in Requests, Leaves(r) PROVE WithinLimits'
  <2>1. /\ Cardinality(Invoking)' = Cardinality(Invoking) - 1
        /\ \A p : Cardinality(Of(p))' = IF ProjectOf[r] = p THEN Cardinality(Of(p)) - 1 ELSE Cardinality(Of(p))
    BY <1>3, OneLess DEF Leaves
  <2>2. config.concurrent \in Nat /\ config' = config
    BY <1>3, NodeAssumption DEF TypeOK, Leaves
  <2>3. ASSUME NEW p \in Projects, HasLimit(p) PROVE Cardinality(Of(p))' <= ProjectLimit[p]
    <3>1. ProjectLimit[p] \in Nat
      BY <2>3, NodeAssumption DEF HasLimit
    <3> QED
      BY <2>1, <2>3, <3>1, InvokingFinite
  <2> QED
    BY <2>1, <2>2, <2>3, InvokingFinite DEF HasLimit, WithinLimits, Of
<1> QED
  BY <1>1, <1>2, <1>3, Kinds

\* An abort is forgotten when the invocation ends.
LEMMA NextAbort == ASSUME TypeOK, AbortInv, [Next]_vars PROVE AbortInv'
<1> USE DEF AbortInv, TypeOK, Invoking, Done
<1>1. ASSUME NEW r \in Requests, Connect(r) \/ Arrive(r) \/ Reply(r) \/ Overloaded(r) PROVE AbortInv'
  BY <1>1 DEF Connect, Arrive, Reply, Overloaded
<1>2. ASSUME NEW r \in Requests, Start(r) PROVE AbortInv'
  BY <1>2 DEF Start
<1>3. ASSUME NEW r \in Requests, BodyRead(r) \/ GuestReturns(r) PROVE AbortInv'
  BY <1>3 DEF BodyRead, GuestReturns, Continue
<1>4. ASSUME NEW r \in Requests, NEW from \in {"reading", "invoking", "flushing"}, Throws(r, from)
      PROVE  AbortInv'
  BY <1>4 DEF Throws, InvocationFails
<1>5. ASSUME NEW r \in Requests, Flushed(r) PROVE AbortInv'
  BY <1>5 DEF Flushed
<1>6. ASSUME NEW r \in Requests, Disconnect(r) \/ WaitTimeout(r) PROVE AbortInv'
  BY <1>6 DEF Disconnect, WaitTimeout, Abort
<1>7. ASSUME NEW status \in {"active", "draining"}, SetLifecycle(status) PROVE AbortInv'
  BY <1>7 DEF SetLifecycle, reqVars
<1>8. ASSUME NEW s \in Signals, Signal(s) PROVE AbortInv'
  BY <1>8 DEF Signal, reqVars
<1>9. CASE DrainTimeout \/ ServerClosed \/ UNCHANGED vars
  BY <1>9 DEF DrainTimeout, ServerClosed, vars, reqVars
<1> QED
  BY <1>1, <1>2, <1>3, <1>4, <1>5, <1>6, <1>7, <1>8, <1>9, NextCases

\* The invocations whose outcome has not been counted.
Open == Invoking \ aborted

\* The metrics stay in balance when the open invocations do not change, ...
LEMMA SameOpen ==
  ASSUME MetricsBalance, Open' = Open, UNCHANGED metricVars
  PROVE  MetricsBalance'
  BY DEF MetricsBalance, Open, metricVars

\* ... and when the outcome of one is counted.
LEMMA OneCounted ==
  ASSUME TypeOK, MetricsBalance, NEW r \in Open, Open' = Open \ {r}, started' = started,
         \/ succeeded' = succeeded + 1 /\ failed' = failed
         \/ succeeded' = succeeded /\ failed' = failed + 1
  PROVE  MetricsBalance'
<1>1. IsFiniteSet(Open) /\ Cardinality(Open) \in Nat
  BY InvokingFinite DEF Open
<1>2. Cardinality(Open \ {r}) = Cardinality(Open) - 1
  BY <1>1, FS_RemoveElement
<1>3. Cardinality(Open') = Cardinality(Open) - 1
  BY <1>2
<1>4. started = succeeded + failed + Cardinality(Open)
  BY DEF MetricsBalance, Open
<1>5. started' = succeeded' + failed' + Cardinality(Open')
  BY <1>1, <1>3, <1>4 DEF TypeOK
<1> QED
  BY <1>5 DEF MetricsBalance, Open

\* No outcome is lost and none is counted twice.
LEMMA NextBalance == ASSUME TypeOK, AbortInv, MetricsBalance, [Next]_vars PROVE MetricsBalance'
<1>1. ASSUME NEW r \in Requests, Connect(r) \/ Arrive(r) \/ Reply(r) \/ Overloaded(r) PROVE MetricsBalance'
  <2>1. Open' = Open
    BY <1>1 DEF Connect, Arrive, Reply, Overloaded, Done, Open, AbortInv, Invoking, TypeOK
  <2>2. UNCHANGED metricVars
    BY <1>1 DEF Connect, Arrive, Reply, Overloaded
  <2> QED
    BY <2>1, <2>2, SameOpen
<1>2. ASSUME NEW r \in Requests, Start(r) PROVE MetricsBalance'
  <2>1. Open' = Open \cup {r} /\ r \notin Open
    BY <1>2 DEF Start, Open, AbortInv, Invoking, TypeOK
  <2>2. IsFiniteSet(Open) /\ Cardinality(Open) \in Nat
    BY InvokingFinite DEF Open
  <2>3. Cardinality(Open \cup {r}) = Cardinality(Open) + 1
    BY <2>1, <2>2, FS_AddElement
  <2>4. Cardinality(Open') = Cardinality(Open) + 1
    BY <2>1, <2>3
  <2>5. started = succeeded + failed + Cardinality(Open)
    BY DEF MetricsBalance, Open
  <2>6. started' = succeeded' + failed' + Cardinality(Open')
    BY <1>2, <2>2, <2>4, <2>5 DEF TypeOK, Start
  <2> QED
    BY <2>6 DEF MetricsBalance, Open
<1>3. ASSUME NEW r \in Requests, BodyRead(r) \/ GuestReturns(r) PROVE MetricsBalance'
  <2>1. Open' = Open
    BY <1>3 DEF BodyRead, GuestReturns, Continue, Open, Invoking, TypeOK
  <2>2. UNCHANGED metricVars
    BY <1>3 DEF BodyRead, GuestReturns, Continue
  <2> QED
    BY <2>1, <2>2, SameOpen
<1>4. ASSUME NEW r \in Requests, NEW from \in {"reading", "invoking", "flushing"}, Throws(r, from)
      PROVE  MetricsBalance'
  <2> USE DEF Throws, InvocationFails, Done, Open, Invoking, TypeOK
  <2>1. CASE r \in aborted
    <3>1. Open' = Open
      BY <1>4, <2>1
    <3>2. UNCHANGED metricVars
      BY <1>4, <2>1 DEF metricVars
    <3> QED
      BY <3>1, <3>2, SameOpen
  <2>2. CASE r \notin aborted
    <3>1. r \in Open /\ Open' = Open \ {r}
      BY <1>4, <2>2
    <3>2. started' = started /\ succeeded' = succeeded /\ failed' = failed + 1
      BY <1>4, <2>2
    <3> QED
      BY <3>1, <3>2, OneCounted
  <2> QED
    BY <2>1, <2>2
<1>5. ASSUME NEW r \in Requests, Flushed(r) PROVE MetricsBalance'
  <2>1. r \in Open /\ Open' = Open \ {r}
    BY <1>5 DEF Flushed, Done, Open, Invoking, TypeOK
  <2>2. started' = started /\ succeeded' = succeeded + 1 /\ failed' = failed
    BY <1>5 DEF Flushed
  <2> QED
    BY <2>1, <2>2, OneCounted
<1>6. ASSUME NEW r \in Requests, r \in Invoking, r \notin aborted, Abort(r) PROVE MetricsBalance'
  <2>1. r \in Open /\ Open' = Open \ {r}
    BY <1>6 DEF Abort, Open, Invoking
  <2>2. started' = started /\ succeeded' = succeeded /\ failed' = failed + 1
    BY <1>6 DEF Abort
  <2> QED
    BY <2>1, <2>2, OneCounted
<1>7. ASSUME NEW r \in Requests, Disconnect(r) \/ WaitTimeout(r) PROVE MetricsBalance'
  <2>1. CASE r \in Invoking /\ r \notin aborted /\ Abort(r)
    BY <1>6, <2>1
  <2>2. CASE UNCHANGED <<pc, aborted, metricVars>>
    <3>1. Open' = Open
      BY <2>2 DEF Open, Invoking
    <3> QED
      BY <2>2, <3>1, SameOpen
  <2> QED
    BY <1>7, <2>1, <2>2 DEF Disconnect, WaitTimeout
<1>8. CASE UNCHANGED <<pc, aborted, metricVars>>
  <2>1. Open' = Open
    BY <1>8 DEF Open, Invoking
  <2> QED
    BY <1>8, <2>1, SameOpen
<1>9. ASSUME NEW status \in {"active", "draining"}, SetLifecycle(status) PROVE MetricsBalance'
  BY <1>8, <1>9 DEF SetLifecycle, reqVars
<1>10. ASSUME NEW s \in Signals, Signal(s) PROVE MetricsBalance'
  BY <1>8, <1>10 DEF Signal, reqVars
<1>11. CASE DrainTimeout \/ ServerClosed \/ UNCHANGED vars
  BY <1>8, <1>11 DEF DrainTimeout, ServerClosed, vars, reqVars
<1> QED
  BY <1>1, <1>2, <1>3, <1>4, <1>5, <1>7, <1>9, <1>10, <1>11, NextCases

\* The tracker is at zero only when no invocation is in progress.
LEMMA IdleMeansNone ==
  ASSUME PermitsExact, tracked = 0
  PROVE  Invoking = {}
  BY InvokingFinite, FS_EmptySet DEF PermitsExact

\* The same after a step.
LEMMA IdleMeansNonePrimed ==
  ASSUME PermitsExact', tracked' = 0
  PROVE  Invoking' = {}
<1>1. Invoking' \in SUBSET Requests
  BY DEF Invoking
<1>2. IsFiniteSet(Invoking')
  BY <1>1, NodeAssumption, FS_Subset
<1>3. Cardinality(Invoking') = 0
  BY DEF PermitsExact
<1> QED
  BY <1>2, <1>3, FS_EmptySet

\* Nothing that close() found in progress is dropped by the drain.
LEMMA NextDrain ==
  ASSUME TypeOK, PermitsExact, PermitsExact', DrainInv, [Next]_vars
  PROVE  DrainInv'
<1> USE DEF DrainInv, Invoking, TypeOK, Running, closeVars
<1>1. ASSUME NEW r \in Requests, Connect(r) \/ Arrive(r) \/ Reply(r) \/ Overloaded(r) PROVE DrainInv'
  BY <1>1 DEF Connect, Arrive, Reply, Overloaded, Done
<1>2. ASSUME NEW r \in Requests, Start(r) PROVE DrainInv'
  BY <1>2 DEF Start
<1>3. ASSUME NEW r \in Requests, BodyRead(r) \/ GuestReturns(r) PROVE DrainInv'
  BY <1>3 DEF BodyRead, GuestReturns, Continue
<1>4. ASSUME NEW r \in Requests, Done(r), Release(r), UNCHANGED <<exit, underway>>, exit = "none" PROVE DrainInv'
  <2>1. \A q \in underway : q \in Invoking' \/ pc'[q] = "done"
    BY <1>4 DEF Done
  <2>2. CASE closing' = closing
    BY <1>4, <2>1, <2>2 DEF Done
  <2>3. CASE closing' # closing
    <3>1. closing = "draining" /\ closing' = "closing" /\ tracked' = 0
      BY <1>4, <2>3 DEF Release
    <3>2. Invoking' = {}
      BY <3>1, IdleMeansNonePrimed
    <3> QED
      BY <1>4, <2>1, <3>1, <3>2
  <2> QED
    BY <2>2, <2>3
<1>5. ASSUME NEW r \in Requests, NEW from \in {"reading", "invoking", "flushing"}, Throws(r, from)
      PROVE  DrainInv'
  BY <1>4, <1>5 DEF Throws, InvocationFails
<1>6. ASSUME NEW r \in Requests, Flushed(r) PROVE DrainInv'
  BY <1>4, <1>6 DEF Flushed
<1>7. ASSUME NEW r \in Requests, Disconnect(r) \/ WaitTimeout(r) PROVE DrainInv'
  BY <1>7 DEF Disconnect, WaitTimeout, Abort
<1>8. ASSUME NEW status \in {"active", "draining"}, SetLifecycle(status) PROVE DrainInv'
  BY <1>8 DEF SetLifecycle, reqVars
<1>9. ASSUME NEW s \in Signals, Signal(s) PROVE DrainInv'
  <2>1. CASE closing = "no" /\ s \notin caught
    <3>1. /\ closing' = (IF tracked = 0 THEN "closing" ELSE "draining")
          /\ underway' = Invoking /\ pc' = pc /\ exit' = "none"
      BY <1>9, <2>1 DEF Signal, Close, reqVars
    <3>2. tracked = 0 => underway' = {}
      BY <3>1, IdleMeansNone
    <3> QED
      BY <3>1, <3>2
  <2>2. CASE ~(closing = "no" /\ s \notin caught)
    BY <1>9, <2>2 DEF Signal, reqVars
  <2> QED
    BY <2>1, <2>2
<1>10. CASE DrainTimeout \/ ServerClosed
  BY <1>10 DEF DrainTimeout, ServerClosed, reqVars
<1>11. CASE UNCHANGED vars
  BY <1>11 DEF vars, reqVars
<1> QED
  BY <1>1, <1>2, <1>3, <1>5, <1>6, <1>7, <1>8, <1>9, <1>10, <1>11, NextCases

\* Nothing has arrived at first.
LEMMA InitIInv == ASSUME Init PROVE IInv
<1>1. TypeOK
  BY NodeAssumption DEF Init, TypeOK
<1>2. Invoking = {}
  BY DEF Init, Invoking
<1>3. Cardinality(Invoking) = 0 /\ Cardinality(Invoking \ aborted) = 0
  BY <1>2, FS_EmptySet
<1>4. \A p : Cardinality(Of(p)) = 0
  BY <1>2, FS_EmptySet DEF Of
<1>5. PermitsExact
  BY <1>3, <1>4, PermitsAre DEF Init
<1>6. WithinLimits
  <2>1. config.concurrent \in Nat /\ \A p \in Projects : HasLimit(p) => ProjectLimit[p] \in Nat
    BY <1>1, NodeAssumption DEF TypeOK, HasLimit
  <2> QED
    BY <1>3, <1>4, <2>1, LimitsAre
<1>7. AbortInv /\ DrainInv
  BY DEF Init, AbortInv, DrainInv
<1>8. MetricsBalance
  BY <1>3 DEF Init, MetricsBalance
<1> QED
  BY <1>1, <1>5, <1>6, <1>7, <1>8 DEF IInv

\* The strengthened invariant is inductive.
LEMMA NextIInv == ASSUME IInv, [Next]_vars PROVE IInv'
<1>1. TypeOK'
  BY NextTypeOK DEF IInv
<1>2. PermitsExact'
  BY NextPermits DEF IInv
<1>3. WithinLimits'
  BY NextLimits DEF IInv
<1>4. AbortInv' /\ MetricsBalance'
  BY NextAbort, NextBalance DEF IInv
<1>5. DrainInv'
  BY <1>2, NextDrain DEF IInv
<1> QED
  BY <1>1, <1>2, <1>3, <1>4, <1>5 DEF IInv

\* The strengthened invariant holds in every reachable state.
THEOREM NodeInvariant == Spec => []IInv
<1>1. Init => IInv
  BY InitIInv
<1>2. IInv /\ [Next]_vars => IInv'
  BY NextIInv
<1> QED
  BY <1>1, <1>2, PTL DEF Spec

\* The state of the gateway keeps its shape.
THEOREM NodeTypeCorrect == Spec => []TypeOK
<1>1. IInv => TypeOK
  BY DEF IInv
<1> QED
  BY <1>1, NodeInvariant, PTL

\* The metric, the drain tracker and the projects' permits count the invocations
\* in progress, and no limit is exceeded.
THEOREM PermitsAreExact == Spec => []PermitsSound
<1>1. IInv => PermitsSound
  BY DEF IInv, PermitsSound
<1> QED
  BY <1>1, NodeInvariant, PTL

\* Every started invocation is counted as succeeded or failed exactly once.
THEOREM MetricsAreBalanced == Spec => []MetricsBalance
<1>1. IInv => MetricsBalance
  BY DEF IInv
<1> QED
  BY <1>1, NodeInvariant, PTL

\* An orderly exit leaves no invocation behind that was in progress when the
\* signal came.
THEOREM ExitWaitsForAll == Spec => []ExitWaits
<1>1. IInv => ExitWaits
  BY DEF IInv, DrainInv, ExitWaits, Invoking
<1> QED
  BY <1>1, NodeInvariant, PTL
=============================================================================
