------------------------ MODULE ControlPlaneQuotaProofs ------------------------
(***************************************************************************)
(* Quotas and metering of the asynchronous control plane, for every number *)
(* of callers, every workload and any number of processes that die: how    *)
(* far checks that are awaited before the insert may be exceeded.  And of  *)
(* requests served one after the other: the owners of projects, and that   *)
(* the asynchronous control plane is then the synchronous one.             *)
(***************************************************************************)
EXTENDS ControlPlaneProofs, FiniteFacts

-----------------------------------------------------------------------------
(* The rows a quota counts.                                                *)

RowsOf(d, p, resource) == {x \in DOMAIN d[resource] : d[resource][x].project = p}

\* The call k has passed the count of a resource of the project p, and has yet to insert its row.
Holding(k, p, resource) ==
  /\ \/ resource = "artifacts" /\ InCall(k, "createArtifact", {"write"})
     \/ resource = "secrets" /\ InCall(k, "createSecret", {"write"})
     \/ resource = "kvNamespaces" /\ InCall(k, "createKvNamespace", {"write"})
     \/ resource = "doNamespaces" /\ InCall(k, "createDurableObjectNamespace", {"write"})
     \/ resource = "deployments" /\ InCall(k, "createDeployment", {"kv", "do", "secrets", "write"})
     \/ /\ resource = "routes" /\ k.loc = None
        /\ InCall(k, "pointRoute", {"write"}) \/ InCall(k, "createDeployPreview", {"point"})
  /\ k.req.project = p

\* The call k is about to write a route that it found.
Rewriting(k) ==
  \/ (InCall(k, "pointRoute", {"write"}) \/ InCall(k, "createDeployPreview", {"point"})) /\ k.loc # None
  \/ InCall(k, "startRouteCanary", {"write"}) \/ InCall(k, "rollbackRoute", {"write"})
  \/ InCall(k, "analyzeRouteCanary", {"decide", "write"})

Holders(p, resource) == {c \in Callers : Holding(call[c], p, resource)}

NoRestore == "rollbackDeployPreview" \notin AskedOps \union InFlight

\* In a serial workload one caller makes all the calls.
OneCaller == serial => \E c0 \in Callers : \A c \in Callers \ {c0} : call[c].pc = "idle" /\ todo[c] = <<>>

\* The rows and the calls that were counted and will add one are bounded together.
RowsInv ==
  /\ OneCaller
  /\ \A resource \in Resources : IsFiniteSet(DOMAIN db[resource])
  /\ \A s \in DOMAIN db.secrets : "project" \in DOMAIN db.secrets[s]
  /\ \A r \in DOMAIN db.routes : db.routes[r].project = r[1]
  /\ NoRestore => \A c \in Callers : Rewriting(call[c]) => Has(db.routes, routeKey(in(c)))
  /\ \A p, resource :
       resource \in Counted => Cardinality(RowsOf(db, p, resource)) + Cardinality(Holders(p, resource)) <= Quota + Others

\* A step of c counts p's rows of a resource again, or adds one it counted, or neither.
CountStep(c, p, resource) ==
  LET before == RowsOf(db, p, resource)
      after == RowsOf(db', p, resource)
      held == Holding(call[c], p, resource)
      holds == Holding(call'[c], p, resource) IN
  \/ after \subseteq before /\ (holds => held)
  \/ after = before /\ Cardinality(before) < Quota
  \/ (\E k : after \subseteq before \union {k}) /\ held /\ ~holds

\* A step of c adds at most one row, and counts it.
Counts(c, resource) ==
  /\ \E k : DOMAIN db'[resource] \subseteq DOMAIN db[resource] \union {k}
  /\ \A p : CountStep(c, p, resource)

\* A call that is idle or at its start holds nothing it has counted.
LEMMA StartHoldsNothing ==
  ASSUME NEW k, k.pc \in {"idle", "start"} PROVE ~Rewriting(k) /\ \A p, resource : ~Holding(k, p, resource)
BY DEF Holding, Rewriting, InCall

\* The limits are numbers, and there is a caller.
LEMMA Numbers ==
  /\ Quota \in Nat /\ UsageLimit \in Nat
  /\ IsFiniteSet(Callers) /\ Cardinality(Callers) \in Nat /\ Cardinality(Callers) >= 1
  /\ Others \in Nat /\ (~serial => Others + 1 = Cardinality(Callers))
<1>1. IsFiniteSet(Callers) /\ Callers # {}
  BY CallersAssumption
<1>2. Cardinality(Callers) \in Nat /\ Cardinality(Callers) # 0
  BY <1>1, FS_CardinalityType, FS_EmptySet
<1> QED
  BY <1>1, <1>2, LimitsAssumption DEF Others

\* How many calls may have been counted at once: in a serial workload one, else every caller's.
LEMMA FewHold ==
  ASSUME OneCaller, NEW c \in Callers, call[c].pc # "idle", NEW H \in SUBSET Callers,
         \A x \in H \ {c} : call[x].pc # "idle"
  PROVE  IsFiniteSet(H) /\ Cardinality(H) \in Nat /\ Cardinality(H) <= Others + 1
<1>1. IsFiniteSet(H) /\ Cardinality(H) \in Nat /\ Cardinality(H) <= Cardinality(Callers)
  BY Numbers, FS_Subset, FS_CardinalityType
<1>2. CASE serial
  <2>1. H \in SUBSET {c}
    BY <1>2 DEF OneCaller
  <2>2. IsFiniteSet({c}) /\ Cardinality({c}) = 1
    BY FS_Singleton
  <2>3. Cardinality(H) <= 1
    BY <2>1, <2>2, FS_Subset
  <2> QED
    BY <1>1, <2>3, Numbers
<1>3. CASE ~serial
  BY <1>1, <1>3, Numbers
<1> QED
  BY <1>2, <1>3

\* Rows and holders stay within the bound.
LEMMA CountHolds ==
  ASSUME RowsInv, NEW c \in Callers, call[c].pc # "idle", Moved(c), serial' = serial,
         NEW p, NEW resource \in Resources, resource \in Counted, CountStep(c, p, resource)
  PROVE  Cardinality(RowsOf(db', p, resource)) + Cardinality(Holders(p, resource)') <= Quota + Others
<1> DEFINE R == RowsOf(db, p, resource)
           S == RowsOf(db', p, resource)
           H == Holders(p, resource)
           K == {x \in Callers : Holding(call'[x], p, resource)}
<1>1. Holders(p, resource)' = K
  BY DEF Holders
<1>2. IsFiniteSet(R) /\ Cardinality(R) \in Nat
  <2>1. R \in SUBSET DOMAIN db[resource]
    BY DEF RowsOf
  <2> QED
    BY <2>1, FS_Subset, FS_CardinalityType DEF RowsInv
<1>3. IsFiniteSet(H) /\ Cardinality(H) \in Nat /\ H \in SUBSET Callers
  BY Numbers, FS_Subset, FS_CardinalityType DEF Holders
<1>4. Cardinality(R) + Cardinality(H) <= Quota + Others
  BY DEF RowsInv
<1>5. K \ {c} = H \ {c}
  BY DEF Holders, Moved
<1>6. IsFiniteSet(K) /\ Cardinality(K) \in Nat /\ Cardinality(K) <= Others + 1
  <2>1. \A x \in K \ {c} : call[x].pc # "idle"
    BY <1>5, StartHoldsNothing DEF Holders
  <2> QED
    BY <2>1, FewHold DEF RowsInv
<1>7. /\ c \in H <=> Holding(call[c], p, resource)
      /\ c \in K <=> Holding(call'[c], p, resource)
  BY DEF Holders
<1>8. Quota \in Nat /\ Others \in Nat
  BY Numbers
<1>9. \/ S \subseteq R /\ (c \in K => c \in H)
      \/ S = R /\ Cardinality(R) < Quota
      \/ (\E k : S \subseteq R \union {k}) /\ c \in H /\ c \notin K
  BY <1>7 DEF CountStep
<1> HIDE DEF R, S, H, K
<1>10. CASE S \subseteq R /\ (c \in K => c \in H)
  <2>1. K \in SUBSET H /\ S \in SUBSET R
    BY <1>5, <1>10
  <2>2. Cardinality(K) <= Cardinality(H) /\ Cardinality(S) <= Cardinality(R) /\ Cardinality(S) \in Nat
    BY <1>2, <1>3, <2>1, FS_Subset, FS_CardinalityType
  <2> QED
    BY <1>1, <1>2, <1>3, <1>4, <1>6, <1>8, <2>2 DEF S
<1>11. CASE S = R /\ Cardinality(R) < Quota
  BY <1>1, <1>2, <1>6, <1>8, <1>11 DEF S
<1>12. CASE (\E k : S \subseteq R \union {k}) /\ c \in H /\ c \notin K
  <2>1. PICK k : S \in SUBSET (R \union {k})
    BY <1>12
  <2>2. /\ IsFiniteSet(R \union {k}) /\ Cardinality(R \union {k}) <= Cardinality(R) + 1
    BY <1>2, OneMore
  <2>3. IsFiniteSet(S) /\ Cardinality(S) <= Cardinality(R \union {k})
    BY <2>1, <2>2, FS_Subset
  <2>4. K = H \ {c}
    BY <1>5, <1>12
  <2>5. Cardinality(K) = Cardinality(H) - 1
    BY <1>3, <1>12, <2>4, FS_RemoveElement
  <2> QED
    BY <1>1, <1>2, <1>3, <1>4, <1>8, <2>2, <2>3, <2>5, FS_CardinalityType DEF S
<1> QED
  BY <1>9, <1>10, <1>11, <1>12

\* The operations that insert a row of a resource they counted.
Counting(op, resource) ==
  \/ resource = "artifacts" /\ op = "createArtifact"
  \/ resource = "secrets" /\ op = "createSecret"
  \/ resource = "kvNamespaces" /\ op = "createKvNamespace"
  \/ resource = "doNamespaces" /\ op = "createDurableObjectNamespace"
  \/ resource = "deployments" /\ op = "createDeployment"
  \/ resource = "routes" /\ op \in {"pointRoute", "createDeployPreview"}

\* A step of another operation that adds no row counts.
LEMMA OthersCount ==
  ASSUME NEW c \in Callers, Moved(c), NEW resource, ~Counting(in(c).op, resource),
         DOMAIN db'[resource] \subseteq DOMAIN db[resource],
         \A p : RowsOf(db', p, resource) \subseteq RowsOf(db, p, resource)
  PROVE  Counts(c, resource)
<1>1. \A p : ~Holding(call'[c], p, resource)
  <2>1. CASE call'[c].pc \in {"idle", "start"}
    BY <2>1, StartHoldsNothing
  <2>2. CASE call'[c].req = call[c].req
    BY <2>2 DEF Counting, Holding, InCall, in
  <2> QED
    BY <2>1, <2>2 DEF Moved
<1>2. \A p : CountStep(c, p, resource)
  BY <1>1 DEF CountStep
<1> QED
  BY <1>2 DEF Counts

\* A step that leaves the rows alone, and whose call holds no more than it held, counts.
LEMMA SameCounts ==
  ASSUME NEW c, NEW resource, db'[resource] = db[resource],
         \A p : Holding(call'[c], p, resource) => Holding(call[c], p, resource)
  PROVE  Counts(c, resource)
<1>1. \A p : CountStep(c, p, resource)
  BY DEF CountStep, RowsOf
<1> QED
  BY <1>1 DEF Counts

\* insert adds one row, of the project it names.
LEMMA InsertRows ==
  ASSUME NEW d, NEW t \in DOMAIN d, NEW k, NEW row
  PROVE  LET e == Pg!Insert(d, t, k, row).db IN
         /\ DOMAIN e[t] \subseteq DOMAIN d[t] \union {k}
         /\ \A p : RowsOf(e, p, t) \subseteq RowsOf(d, p, t) \union {k}
         /\ \A p : row.project # p => RowsOf(e, p, t) \subseteq RowsOf(d, p, t)
<1> DEFINE e == Pg!Insert(d, t, k, row).db
<1>1. e = d \/ (k \notin DOMAIN d[t] /\ e[t] = [x \in DOMAIN d[t] \union {k} |-> IF x = k THEN row ELSE d[t][x]])
  BY DEF Pg!Insert, Pg!Ok, Pg!Fail, Pg!Put, Pg!Has
<1> HIDE DEF e
<1> QED
  BY <1>1 DEF RowsOf, e

\* delete adds no row.
LEMMA DeletedRows ==
  ASSUME NEW d, NEW t \in DOMAIN d, NEW k
  PROVE  LET e == Pg!Delete(d, t, k).db IN
         /\ DOMAIN e[t] \subseteq DOMAIN d[t]
         /\ \A x \in DOMAIN e[t] : e[t][x] = d[t][x]
         /\ \A p : RowsOf(e, p, t) \subseteq RowsOf(d, p, t)
BY DEF Pg!Delete, Pg!Drop, Pg!Ok, Pg!Fail, RowsOf

\* update of a column that is not the project moves no row.
LEMMA UpdatedRows ==
  ASSUME NEW d, NEW t \in DOMAIN d, \A x \in DOMAIN d[t] : "project" \in DOMAIN d[t][x], NEW k, NEW v
  PROVE  LET e == Pg!SetColumn(d, t, k, "value", v).db IN
         /\ DOMAIN e[t] = DOMAIN d[t]
         /\ \A x \in DOMAIN e[t] : "project" \in DOMAIN e[t][x]
         /\ \A p : RowsOf(e, p, t) = RowsOf(d, p, t)
<1> DEFINE e == Pg!SetColumn(d, t, k, "value", v).db
<1>1. e = d \/ (k \in DOMAIN d[t] /\ e[t] = [d[t] EXCEPT ![k] = [@ EXCEPT !["value"] = v]])
  BY DEF Pg!SetColumn, Pg!Ok, Pg!Fail, Pg!Has
<1> HIDE DEF e
<1>2. /\ DOMAIN e[t] = DOMAIN d[t]
      /\ \A x \in DOMAIN e[t] : "project" \in DOMAIN e[t][x] /\ e[t][x].project = d[t][x].project
  BY <1>1
<1> QED
  BY <1>2 DEF RowsOf, e

\* The count that createWithinQuota() and its like read.
LEMMA CountRead ==
  ASSUME NEW p, NEW resource
  PROVE  LET r == enforceProjectQuota(db, p, resource) IN
         IsResult(r) /\ r.db = db /\ (r.out = "ok" => Cardinality(RowsOf(db, p, resource)) < Quota)
BY DEF enforceProjectQuota, getProjectUsage, RowsOf, Require, Ok, Fail, IsResult

\* The result of a count and of what else a creation checks before its insert.
CountedResult(c, resource, r) ==
  IsResult(r) /\ (r.out = "ok" => enforceProjectQuota(db, in(c).project, resource).out = "ok")

\* createWithinQuota(): the count, and one await later the insert.
LEMMA CreationCounts ==
  ASSUME CallsInv, NEW c \in Callers, NEW op, NEW resource \in DOMAIN db, NEW k, NEW row,
         row.project = in(c).project,
         \A x, p : Holding(x, p, resource) <=> InCall(x, op, {"write"}) /\ x.req.project = p,
         \/ At(c, op, "start") /\ \E r : CountedResult(c, resource, r) /\ Check(c, r, "write", None)
         \/ At(c, op, "write") /\ Finish(c, Pg!Insert(db, resource, k, row))
  PROVE  Counts(c, resource)
<1> DEFINE i == in(c)
<1>1. CASE At(c, op, "start") /\ \E r : CountedResult(c, resource, r) /\ Check(c, r, "write", None)
  <2>1. PICK r : CountedResult(c, resource, r) /\ Check(c, r, "write", None)
    BY <1>1
  <2>3. /\ db' = db
        /\ \/ call'[c].pc \in {"idle", "start"}
           \/ enforceProjectQuota(db, i.project, resource).out = "ok" /\ call'[c].req = i
    BY <2>1, CheckLands DEF in, CountedResult
  <2>4. CASE call'[c].pc \in {"idle", "start"}
    BY <2>3, <2>4, StartHoldsNothing, SameCounts
  <2>5. CASE enforceProjectQuota(db, i.project, resource).out = "ok" /\ call'[c].req = i
    <3>1. Cardinality(RowsOf(db, i.project, resource)) < Quota
      BY <2>5, CountRead
    <3>2. \A p : p # i.project => ~Holding(call'[c], p, resource)
      BY <2>5
    <3>3. \A p : RowsOf(db', p, resource) = RowsOf(db, p, resource)
      BY <2>3
    <3>4. \A p : CountStep(c, p, resource)
      BY <3>1, <3>2, <3>3 DEF CountStep
    <3> QED
      BY <2>3, <3>4 DEF Counts
  <2> QED
    BY <2>3, <2>4, <2>5
<1>2. CASE At(c, op, "write") /\ Finish(c, Pg!Insert(db, resource, k, row))
  <2>1. db' = Pg!Insert(db, resource, k, row).db /\ call'[c].pc \in {"idle", "start"}
    BY <1>2, FinishLands
  <2>2. \A p : ~Holding(call'[c], p, resource)
    BY <2>1, StartHoldsNothing
  <2>3. Holding(call[c], i.project, resource)
    BY <1>2 DEF At, InCall, in
  <2>4. \A p : CountStep(c, p, resource)
    BY <2>1, <2>2, <2>3, InsertRows DEF CountStep
  <2> QED
    BY <2>1, <2>4, InsertRows DEF Counts
<1> QED
  BY <1>1, <1>2

-----------------------------------------------------------------------------
(* The operations that write counted rows.                                 *)

\* Those that write the rows of a resource.
RowWriter(op, resource) ==
  \/ Counting(op, resource)
  \/ resource = "secrets" /\ op \in {"updateSecretValue", "deleteSecret"}
  \/ resource = "kvNamespaces" /\ op = "deleteKvNamespace"
  \/ resource = "doNamespaces" /\ op = "deleteDurableObjectNamespace"
  \/ resource = "routes" /\ op \in RouteWriters

RowWriters(c) == \A resource \in Resources : db'[resource] = db[resource] \/ RowWriter(in(c).op, resource)

\* An operation that writes the tables of T writes the rows of those resources.
LEMMA EffectRows ==
  ASSUME NEW c, NEW op, NEW T, DOMAIN db = DOMAIN EmptyDb, Effect(c, op, T),
         "artifacts" \in T => op = "createArtifact",
         "secrets" \in T => op \in {"createSecret", "updateSecretValue", "deleteSecret"},
         "kvNamespaces" \in T => op \in {"createKvNamespace", "deleteKvNamespace"},
         "doNamespaces" \in T => op \in {"createDurableObjectNamespace", "deleteDurableObjectNamespace"},
         "deployments" \in T => op = "createDeployment",
         "routes" \in T => op \in RouteWriters
  PROVE  RowWriters(c)
BY DEF Effect, Touches, EmptyDb, RowWriters, RowWriter, Counting, Resources

\* Only its writers write the rows of a resource.
LEMMA StepRows == ASSUME NEW c, DOMAIN db = DOMAIN EmptyDb, Step(c) PROVE RowWriters(c)
<1>1. CASE TenancyNext(c)
  BY <1>1, TenancyEffects, EffectRows DEF TenancyNext
<1>2. CASE BillingNext(c)
  BY <1>2, BillingEffects, EffectRows DEF BillingNext
<1>3. CASE RoutingNext(c)
  BY <1>3, RoutingEffects, RouteEffects, EffectRows DEF RoutingNext, RouteWriters
<1>4. CASE FleetNext(c)
  BY <1>4, FleetEffects, EffectRows DEF FleetNext
<1> QED
  BY <1>1, <1>2, <1>3, <1>4 DEF Step

\* A step of a call that creates or deletes is one of the handler of its operation.
LEMMA StepsOfCreations ==
  ASSUME NEW c, DOMAIN db = DOMAIN EmptyDb, Step(c)
  PROVE  /\ in(c).op = "createArtifact" => createArtifact(c)
         /\ in(c).op = "createSecret" => createSecret(c)
         /\ in(c).op = "updateSecretValue" => updateSecretValue(c)
         /\ in(c).op = "deleteSecret" => deleteSecret(c)
         /\ in(c).op = "createKvNamespace" => createKvNamespace(c)
         /\ in(c).op = "deleteKvNamespace" => deleteKvNamespace(c)
         /\ in(c).op = "createDurableObjectNamespace" => createDurableObjectNamespace(c)
         /\ in(c).op = "deleteDurableObjectNamespace" => deleteDurableObjectNamespace(c)
<1>1. CASE TenancyNext(c)
  BY <1>1, TenancyEffects DEF TenancyNext, Effect
<1>2. CASE BillingNext(c)
  BY <1>2, BillingEffects DEF BillingNext, Effect
<1>3. CASE RoutingNext(c)
  BY <1>3, RoutingEffects, RouteEffects DEF RoutingNext, Effect
<1>4. CASE FleetNext(c)
  BY <1>4, FleetEffects DEF FleetNext, Effect
<1> QED
  BY <1>1, <1>2, <1>3, <1>4 DEF Step

\* Artifacts, secrets and namespaces are created within their quotas.
LEMMA CreationsCount ==
  ASSUME CallsInv, NEW c \in Callers
  PROVE  /\ createArtifact(c) => Counts(c, "artifacts")
         /\ createSecret(c) => Counts(c, "secrets")
         /\ createKvNamespace(c) => Counts(c, "kvNamespaces")
         /\ createDurableObjectNamespace(c) => Counts(c, "doNamespaces")
<1> DEFINE i == in(c)
<1>0. {"artifacts", "secrets", "kvNamespaces", "doNamespaces"} \subseteq DOMAIN db
  BY DEF CallsInv, EmptyDb
<1>1. createArtifact(c) => Counts(c, "artifacts")
  <2>1. \A x, p : Holding(x, p, "artifacts") <=> InCall(x, "createArtifact", {"write"}) /\ x.req.project = p
    BY DEF Holding
  <2> DEFINE row == [project |-> i.project, digest |-> i.digest, size |-> i.size, signature |-> i.signature]
             r == Then(requireProject(i.project), LAMBDA e :
                  Then(enforceProjectQuota(e, i.project, "artifacts"), LAMBDA f :
                       Require(f, enforceArtifactAdmissionPolicy(row), "validation")))
  <2>2. row.project = i.project
    OBVIOUS
  <2>3. createArtifact(c) => \/ At(c, "createArtifact", "start") /\ Check(c, r, "write", None)
                             \/ At(c, "createArtifact", "write") /\ Finish(c, Pg!Insert(db, "artifacts", i.id, row))
    BY DEF createArtifact, Pg!createArtifact, createWithinQuota
  <2>4. CountedResult(c, "artifacts", r)
    BY CountRead DEF CountedResult, requireProject, Then, Require, Ok, Fail, IsResult
  <2> HIDE DEF row, r
  <2> QED
    BY <1>0, <2>1, <2>2, <2>3, <2>4, CreationCounts
<1>2. createSecret(c) => Counts(c, "secrets")
  <2>1. \A x, p : Holding(x, p, "secrets") <=> InCall(x, "createSecret", {"write"}) /\ x.req.project = p
    BY DEF Holding
  <2> DEFINE row == [project |-> i.project, name |-> i.name, value |-> i.value]
             r == Then(requireProject(i.project), LAMBDA e :
                  Then(enforceProjectQuota(e, i.project, "secrets"), LAMBDA f : Require(f, TRUE, "validation")))
  <2>2. row.project = i.project
    OBVIOUS
  <2>3. createSecret(c) => \/ At(c, "createSecret", "start") /\ Check(c, r, "write", None)
                           \/ At(c, "createSecret", "write") /\ Finish(c, Pg!Insert(db, "secrets", i.id, row))
    BY DEF createSecret, Pg!createSecret, createWithinQuota
  <2>4. CountedResult(c, "secrets", r)
    BY CountRead DEF CountedResult, requireProject, Then, Require, Ok, Fail, IsResult
  <2> HIDE DEF row, r
  <2> QED
    BY <1>0, <2>1, <2>2, <2>3, <2>4, CreationCounts
<1>3. createKvNamespace(c) => Counts(c, "kvNamespaces")
  <2>1. \A x, p : Holding(x, p, "kvNamespaces") <=> InCall(x, "createKvNamespace", {"write"}) /\ x.req.project = p
    BY DEF Holding
  <2> DEFINE row == [project |-> i.project, name |-> i.name]
             r == Then(requireProject(i.project), LAMBDA e :
                  Then(enforceProjectQuota(e, i.project, "kvNamespaces"), LAMBDA f : Require(f, TRUE, "validation")))
  <2>2. row.project = i.project
    OBVIOUS
  <2>3. createKvNamespace(c) => \/ At(c, "createKvNamespace", "start") /\ Check(c, r, "write", None)
                                \/ At(c, "createKvNamespace", "write") /\ Finish(c, Pg!Insert(db, "kvNamespaces", i.id, row))
    BY DEF createKvNamespace, Pg!createKvNamespace, createWithinQuota
  <2>4. CountedResult(c, "kvNamespaces", r)
    BY CountRead DEF CountedResult, requireProject, Then, Require, Ok, Fail, IsResult
  <2> HIDE DEF row, r
  <2> QED
    BY <1>0, <2>1, <2>2, <2>3, <2>4, CreationCounts
<1>4. createDurableObjectNamespace(c) => Counts(c, "doNamespaces")
  <2>1. \A x, p : Holding(x, p, "doNamespaces") <=>
                    InCall(x, "createDurableObjectNamespace", {"write"}) /\ x.req.project = p
    BY DEF Holding
  <2> DEFINE row == [project |-> i.project, name |-> i.name]
             r == Then(requireProject(i.project), LAMBDA e :
                  Then(enforceProjectQuota(e, i.project, "doNamespaces"), LAMBDA f : Require(f, TRUE, "validation")))
  <2>2. row.project = i.project
    OBVIOUS
  <2>3. createDurableObjectNamespace(c) => \/ At(c, "createDurableObjectNamespace", "start") /\ Check(c, r, "write", None)
                                           \/ At(c, "createDurableObjectNamespace", "write") /\ Finish(c, Pg!Insert(db, "doNamespaces", i.id, row))
    BY DEF createDurableObjectNamespace, Pg!createDurableObjectNamespace, createWithinQuota
  <2>4. CountedResult(c, "doNamespaces", r)
    BY CountRead DEF CountedResult, requireProject, Then, Require, Ok, Fail, IsResult
  <2> HIDE DEF row, r
  <2> QED
    BY <1>0, <2>1, <2>2, <2>3, <2>4, CreationCounts
<1> QED
  BY <1>1, <1>2, <1>3, <1>4

\* createDeployment(): counted first, inserted four awaits later.
LEMMA createDeploymentCounts ==
  ASSUME CallsInv, NEW c \in Callers, createDeployment(c) PROVE Counts(c, "deployments")
<1> DEFINE i == in(c)
<1>0. DOMAIN db = DOMAIN EmptyDb /\ "deployments" \in DOMAIN db
  BY DEF CallsInv, EmptyDb
<1>00. \A x, p : Holding(x, p, "deployments") <=>
                   InCall(x, "createDeployment", {"kv", "do", "secrets", "write"}) /\ x.req.project = p
  BY DEF Holding
<1>1. CASE At(c, "createDeployment", "start")
  <2> DEFINE artifact == db.artifacts[i.artifact]
             r == Then(requireProject(i.project), LAMBDA e :
                  Then(enforceProjectQuota(e, i.project, "deployments"), LAMBDA f :
                  Then(requireArtifact(i.artifact), LAMBDA g :
                       Require(g, /\ artifact.project = i.project
                                  /\ SignatureKeys # None => verifyArtifactSignature(artifact)
                                  /\ enforceDeploymentAdmissionPolicy(artifact, i.world, i.capabilities),
                               "validation"))))
  <2>1. Check(c, r, "kv", None)
    BY <1>1 DEF createDeployment, At
  <2>2. IsResult(r) /\ (r.out = "ok" => enforceProjectQuota(db, i.project, "deployments").out = "ok")
    BY CountRead DEF requireProject, requireArtifact, Then, Require, Ok, Fail, IsResult
  <2> HIDE DEF r
  <2>3. /\ db' = db
        /\ \/ call'[c].pc \in {"idle", "start"}
           \/ enforceProjectQuota(db, i.project, "deployments").out = "ok" /\ call'[c].req = i
    BY <2>1, <2>2, CheckLands DEF in
  <2>4. CASE call'[c].pc \in {"idle", "start"}
    BY <2>3, <2>4, StartHoldsNothing, SameCounts
  <2>5. CASE enforceProjectQuota(db, i.project, "deployments").out = "ok" /\ call'[c].req = i
    <3>1. Cardinality(RowsOf(db, i.project, "deployments")) < Quota
      BY <2>5, CountRead
    <3>2. \A p : p # i.project => ~Holding(call'[c], p, "deployments")
      BY <1>00, <2>5
    <3>3. \A p : RowsOf(db', p, "deployments") = RowsOf(db, p, "deployments")
      BY <2>3
    <3>4. \A p : CountStep(c, p, "deployments")
      BY <3>1, <3>2, <3>3 DEF CountStep
    <3> QED
      BY <2>3, <3>4 DEF Counts
  <2> QED
    BY <2>3, <2>4, <2>5
<1>2. CASE At(c, "createDeployment", "kv") \/ At(c, "createDeployment", "do") \/ At(c, "createDeployment", "secrets")
  <2>1. \E r, pc : IsResult(r) /\ Check(c, r, pc, None)
    BY <1>2
    DEF createDeployment, At, requireDeploymentSecrets, requireDeploymentServiceBindings, requireDeploymentKvNamespaces,
        requireDeploymentDurableObjectNamespaces, requireOwn, Then, Require, Ok, Fail, IsResult
  <2>2. db' = db /\ (call'[c].pc \in {"idle", "start"} \/ call'[c].req = call[c].req)
    BY <2>1, CheckLands
  <2>3. \A p : Holding(call'[c], p, "deployments") => Holding(call[c], p, "deployments")
    <3>1. InCall(call[c], "createDeployment", {"kv", "do", "secrets", "write"})
      BY <1>2 DEF At, InCall
    <3> QED
      BY <1>00, <2>2, <3>1, StartHoldsNothing
  <2> QED
    BY <2>2, <2>3, SameCounts
<1>3. CASE At(c, "createDeployment", "write")
  <2> DEFINE row == [project |-> i.project, artifact |-> i.artifact, capabilities |-> i.capabilities]
  <2>1. Write(c, Pg!Insert(db, "deployments", i.id, row), "audit", None)
    BY <1>3 DEF createDeployment, At, Pg!createDeployment
  <2>2. db' = Pg!Insert(db, "deployments", i.id, row).db /\ call'[c].pc \in {"idle", "start", "audit"}
    BY <2>1, WriteLands
  <2>3. \A p : ~Holding(call'[c], p, "deployments")
    BY <1>00, <2>2 DEF InCall
  <2>4. Holding(call[c], i.project, "deployments")
    BY <1>00, <1>3 DEF At, InCall, in
  <2>5. row.project = i.project
    OBVIOUS
  <2> HIDE DEF row
  <2>6. \A p : CountStep(c, p, "deployments")
    BY <1>0, <2>2, <2>3, <2>4, <2>5, InsertRows DEF CountStep
  <2> QED
    BY <1>0, <2>2, <2>6, InsertRows DEF Counts
<1>4. CASE At(c, "createDeployment", "audit")
  <2>1. db'.deployments = db.deployments /\ call'[c].pc \in {"idle", "start"}
    BY <1>0, <1>4, FinishLands, AuditWrites DEF createDeployment, At, Writes, Touches, EmptyDb
  <2> QED
    BY <2>1, StartHoldsNothing, SameCounts
<1> QED
  BY <1>1, <1>2, <1>3, <1>4 DEF createDeployment

-----------------------------------------------------------------------------
(* The routes a quota counts.                                              *)

\* Routes are found by their project, and none goes.
OwnKeys(d) == \A r \in DOMAIN d.routes : d.routes[r].project = r[1]
RoutesGrow(d, e) == \A r \in DOMAIN d.routes : Has(e.routes, r)

\* What a step of a route writer leaves: a route it is about to write is there.
RouteCounts(c) ==
  /\ Counts(c, "routes") /\ OwnKeys(db') /\ RoutesGrow(db, db')
  /\ Rewriting(call'[c]) => Has(db'.routes, routeKey(call'[c].req))

\* upsertRoute() adds one route, of its project, unless it is there.
LEMMA PointedRows ==
  ASSUME NEW d, DOMAIN d = DOMAIN EmptyDb, OwnKeys(d), NEW q, NEW h, NEW t
  PROVE  LET e == Pg!upsertRoute(d, q, h, t).db IN
         /\ DOMAIN e.routes \subseteq DOMAIN d.routes \union {<<q, h>>}
         /\ OwnKeys(e) /\ RoutesGrow(d, e)
         /\ \A p : RowsOf(e, p, "routes") \subseteq RowsOf(d, p, "routes") \union {<<q, h>>}
         /\ \A p : p # q \/ Has(d.routes, <<q, h>>) => RowsOf(e, p, "routes") \subseteq RowsOf(d, p, "routes")
<1> DEFINE row == [project |-> q, host |-> h, deployment |-> t[1].deployment, targets |-> t]
           key == <<q, h>>
           e == Pg!upsertRoute(d, q, h, t).db
<1>1. \/ e = d
      \/ e.routes = [x \in DOMAIN d.routes \union {key} |-> IF x = key THEN row ELSE d.routes[x]]
  BY DEF Pg!upsertRoute, Pg!Upsert, Pg!Ok, Pg!Fail, Pg!Put, EmptyDb
<1>2. row.project = q /\ key[1] = q
  OBVIOUS
<1> HIDE DEF e, row, key
<1>3. /\ DOMAIN e.routes \subseteq DOMAIN d.routes \union {key} /\ DOMAIN d.routes \subseteq DOMAIN e.routes
      /\ \A x \in DOMAIN e.routes : (x \in DOMAIN d.routes /\ e.routes[x] = d.routes[x]) \/ (x = key /\ e.routes[x] = row)
  BY <1>1
<1>4. OwnKeys(e) /\ RoutesGrow(d, e)
  BY <1>2, <1>3 DEF OwnKeys, RoutesGrow, Has
<1>5. \A p : RowsOf(e, p, "routes") \subseteq RowsOf(d, p, "routes") \union {key}
  BY <1>3 DEF RowsOf
<1>6. ASSUME NEW p, p # q \/ key \in DOMAIN d.routes, NEW x \in RowsOf(e, p, "routes") PROVE x \in RowsOf(d, p, "routes")
  BY <1>2, <1>3, <1>6 DEF RowsOf, OwnKeys
<1>7. \A p : p # q \/ Has(d.routes, key) => RowsOf(e, p, "routes") \subseteq RowsOf(d, p, "routes")
  BY <1>6 DEF Has
<1> QED
  BY <1>3, <1>4, <1>5, <1>7 DEF e, key

\* A step that leaves the routes alone.
LEMMA RoutesRest ==
  ASSUME NEW c, OwnKeys(db), db'.routes = db.routes,
         \A p : Holding(call'[c], p, "routes") => Holding(call[c], p, "routes"),
         Rewriting(call'[c]) => Has(db.routes, routeKey(call'[c].req))
  PROVE  RouteCounts(c)
BY SameCounts DEF RouteCounts, OwnKeys, RoutesGrow, Has

\* A step to somewhere that holds no count and no route.
LEMMA RoutesRestThere ==
  ASSUME NEW c, OwnKeys(db), db'.routes = db.routes,
         \/ call'[c].pc \in {"idle", "start", "domain", "route", "quota", "audit", "insert"}
         \/ call'[c].req.op \notin {"pointRoute", "createDeployPreview"}
              /\ (Rewriting(call'[c]) => Has(db.routes, routeKey(call'[c].req)))
  PROVE  RouteCounts(c)
<1>1. \A p : ~Holding(call'[c], p, "routes")
  BY DEF Holding, InCall
<1>2. Rewriting(call'[c]) => Has(db.routes, routeKey(call'[c].req))
  BY DEF Rewriting, InCall
<1> QED
  BY <1>1, <1>2, RoutesRest

\* A step that writes a route which is there, or which was counted.
LEMMA RoutesPointed ==
  ASSUME CallsInv, OwnKeys(db), NEW c, NEW t,
         LET i == in(c) IN
         /\ db' = Pg!upsertRoute(db, i.project, i.host, t).db
         /\ Has(db.routes, routeKey(i)) \/ Holding(call[c], i.project, "routes"),
         call'[c].pc \in {"idle", "start", "audit", "insert"}
  PROVE  RouteCounts(c)
<1> DEFINE i == in(c)
<1>0. DOMAIN db = DOMAIN EmptyDb
  BY DEF CallsInv
<1>1. (\A p : ~Holding(call'[c], p, "routes")) /\ ~Rewriting(call'[c])
  BY DEF Holding, Rewriting, InCall
<1>2. /\ DOMAIN db'.routes \subseteq DOMAIN db.routes \union {routeKey(i)}
      /\ OwnKeys(db') /\ RoutesGrow(db, db')
      /\ \A p : RowsOf(db', p, "routes") \subseteq RowsOf(db, p, "routes") \union {routeKey(i)}
      /\ \A p : p # i.project \/ Has(db.routes, routeKey(i)) => RowsOf(db', p, "routes") \subseteq RowsOf(db, p, "routes")
  BY <1>0, PointedRows DEF routeKey
<1>3. \A p : CountStep(c, p, "routes")
  BY <1>1, <1>2 DEF CountStep
<1> QED
  BY <1>1, <1>2, <1>3 DEF RouteCounts, Counts

\* checkRoute(): a route that is found is held, one that is not is counted.
LEMMA RouteCheckCounts ==
  ASSUME CallsInv, OwnKeys(db), NEW c \in Callers, NEW op, NEW write, checkRoute(c, op, write),
         <<op, write>> \in {<<"pointRoute", "write">>, <<"createDeployPreview", "point">>}
  PROVE  RouteCounts(c)
<1> DEFINE i == in(c)
<1>0. write \notin {"idle", "start", "domain", "route", "quota"} /\ op \in {"pointRoute", "createDeployPreview"}
  OBVIOUS
<1>00. \A x : InCall(x, "pointRoute", {"write"}) \/ InCall(x, "createDeployPreview", {"point"}) =>
                x.pc \in {"write", "point"}
  BY DEF InCall
<1>1. CASE At(c, op, "domain")
  <2>1. Check(c, enforceRouteCustomDomain(i.project, i.host), "route", None)
    BY <1>1 DEF checkRoute, At
  <2>2. IsResult(enforceRouteCustomDomain(i.project, i.host))
    BY RequireResult DEF enforceRouteCustomDomain
  <2> QED
    BY <2>1, <2>2, CheckLands, RoutesRestThere
<1>2. CASE At(c, op, "route")
  <2>1. Await(c, IF currentTargets(i) = None THEN "quota" ELSE write, currentTargets(i))
    BY <1>2 DEF checkRoute, At
  <2>2. /\ db' = db /\ call'[c].req = i /\ call'[c].loc = currentTargets(i)
        /\ call'[c].pc = IF currentTargets(i) = None THEN "quota" ELSE write
    BY <2>1, AwaitLands DEF in
  <2>3. CASE currentTargets(i) = None
    BY <2>2, <2>3, RoutesRestThere
  <2>4. CASE currentTargets(i) # None
    <3>1. Has(db.routes, routeKey(i))
      BY <2>4 DEF currentTargets
    <3>2. \A p : ~Holding(call'[c], p, "routes")
      BY <2>2, <2>4 DEF Holding
    <3> QED
      BY <2>2, <3>1, <3>2, RoutesRest
  <2> QED
    BY <2>3, <2>4
<1>3. CASE At(c, op, "quota")
  <2> DEFINE r == enforceProjectQuota(db, i.project, "routes")
  <2>1. Check(c, r, write, None)
    BY <1>3 DEF checkRoute, At
  <2>2. IsResult(r) /\ (r.out = "ok" => Cardinality(RowsOf(db, i.project, "routes")) < Quota)
    BY CountRead
  <2> HIDE DEF r
  <2>3. /\ db' = db
        /\ \/ call'[c].pc \in {"idle", "start"}
           \/ /\ Cardinality(RowsOf(db, i.project, "routes")) < Quota
              /\ call'[c].req = i /\ call'[c].pc = write /\ call'[c].loc = None
    BY <2>1, <2>2, CheckLands DEF in
  <2>4. CASE call'[c].pc \in {"idle", "start"}
    BY <2>3, <2>4, RoutesRestThere
  <2>5. CASE /\ Cardinality(RowsOf(db, i.project, "routes")) < Quota
             /\ call'[c].req = i /\ call'[c].pc = write /\ call'[c].loc = None
    <3>1. \A p : p # i.project => ~Holding(call'[c], p, "routes")
      BY <2>5 DEF Holding
    <3>2. \A p : RowsOf(db', p, "routes") = RowsOf(db, p, "routes")
      BY <2>3
    <3>3. \A p : CountStep(c, p, "routes")
      BY <2>5, <3>1, <3>2 DEF CountStep
    <3>4. ~Rewriting(call'[c])
      BY <1>0, <1>3, <2>5 DEF Rewriting, InCall, At, in
    <3> QED
      BY <2>3, <3>3, <3>4 DEF RouteCounts, Counts, OwnKeys, RoutesGrow, Has
  <2> QED
    BY <2>3, <2>4, <2>5
<1> QED
  BY <1>1, <1>2, <1>3 DEF checkRoute


\* A call about to write a route: the route is there, or was counted.
LEMMA AboutToWrite ==
  ASSUME RowsInv, NoRestore, NEW c \in Callers, NEW op, NEW pc, At(c, op, pc),
         <<op, pc>> \in {<<"pointRoute", "write">>, <<"createDeployPreview", "point">>, <<"startRouteCanary", "write">>,
                         <<"rollbackRoute", "write">>, <<"analyzeRouteCanary", "decide">>, <<"analyzeRouteCanary", "write">>}
  PROVE  Has(db.routes, routeKey(in(c))) \/ Holding(call[c], in(c).project, "routes")
BY DEF RowsInv, Rewriting, Holding, InCall, At, in

\* pointRoute() counts the route it adds, four awaits before it adds it.
LEMMA pointRouteCounts ==
  ASSUME CallsInv, RowsInv, NoRestore, NEW c \in Callers, pointRoute(c) PROVE RouteCounts(c)
<1> DEFINE i == call[c].req
<1>0. OwnKeys(db) /\ DOMAIN db = DOMAIN EmptyDb
  BY DEF CallsInv, RowsInv, OwnKeys
<1>00. checkRoute(c, "pointRoute", "write") => call[c].pc \in {"domain", "route", "quota"}
  BY DEF checkRoute, At
<1>1. CASE At(c, "pointRoute", "start")
  <2> DEFINE r == Then(requireProject(i.project), LAMBDA e :
                       Then(Require(e, normalizeRouteTargets(i.targets), "validation"), LAMBDA f :
                            requireTargets(f, i.project, i.targets)))
  <2>0. IsResult(requireTargets(db, i.project, i.targets))
    BY ZenonT(30) DEF requireTargets, Ok, Fail, IsResult
  <2>1. IsResult(r)
    BY <2>0 DEF requireProject, Then, Require, Ok, Fail, IsResult
  <2>2. Check(c, r, "domain", None)
    BY <1>00, <1>1 DEF pointRoute, At, in, Then
  <2> HIDE DEF r
  <2> QED
    BY <1>0, <2>1, <2>2, CheckLands, RoutesRestThere
<1>2. CASE checkRoute(c, "pointRoute", "write")
  BY <1>0, <1>2, RouteCheckCounts
<1>3. CASE At(c, "pointRoute", "write")
  <2>1. /\ db' = Pg!upsertRoute(db, i.project, i.host, i.targets).db
        /\ call'[c].pc \in {"idle", "start", "audit"}
    BY <1>00, <1>3, WriteLands DEF pointRoute, At, in
  <2> QED
    BY <1>0, <1>3, <2>1, AboutToWrite, RoutesPointed DEF in
<1>4. CASE At(c, "pointRoute", "audit")
  <2>1. db'.routes = db.routes /\ call'[c].pc \in {"idle", "start"}
    BY <1>0, <1>00, <1>4, FinishLands, AuditWrites DEF pointRoute, At, Writes, Touches, EmptyDb
  <2> QED
    BY <1>0, <2>1, RoutesRestThere
<1> QED
  BY <1>1, <1>2, <1>3, <1>4 DEF pointRoute

\* A canary or a rollback checks that the route is there.
LEMMA CandidateFound ==
  ASSUME NEW i, NEW x, NEW accepted
  PROVE  /\ IsResult(requireCandidate(i, x, accepted))
         /\ requireCandidate(i, x, accepted).out = "ok" => Has(db.routes, routeKey(i))
<1>1. /\ IsResult(requireProjectDeployment(i.project, x))
      /\ IsResult(requireRoute(i)) /\ (requireRoute(i).out = "ok" => Has(db.routes, routeKey(i)))
      /\ requireRoute(i).db = db
  BY DEF requireRoute, requireProjectDeployment, requireProject, requireDeployment, Then, Require, Ok, Fail, IsResult
<1> QED
  BY <1>1 DEF requireCandidate, Then, Require, Ok, Fail, IsResult

\* A call that found its candidate holds the route it will write.
LEMMA CandidateCounts ==
  ASSUME CallsInv, OwnKeys(db), NEW c \in Callers, NEW x, NEW accepted, NEW pc, NEW l,
         in(c).op \notin {"pointRoute", "createDeployPreview"},
         Check(c, requireCandidate(in(c), x, accepted), pc, l)
  PROVE  RouteCounts(c)
<1>1. /\ db' = db
      /\ \/ call'[c].pc \in {"idle", "start"}
         \/ call'[c].req = in(c) /\ Has(db.routes, routeKey(in(c)))
  BY CandidateFound, CheckLands DEF in
<1> QED
  BY <1>1, RoutesRestThere

\* A canary, its promotion or rollback and the rollback of a route write a route that is there.
LEMMA CanariesCount ==
  ASSUME CallsInv, RowsInv, NoRestore, NEW c \in Callers
  PROVE  /\ startRouteCanary(c) => RouteCounts(c)
         /\ rollbackRoute(c) => RouteCounts(c)
         /\ analyzeRouteCanary(c) => RouteCounts(c)
<1> DEFINE i == call[c].req
<1>0. OwnKeys(db) /\ DOMAIN db = DOMAIN EmptyDb
  BY DEF CallsInv, RowsInv, OwnKeys
<1>1. ASSUME startRouteCanary(c) PROVE RouteCounts(c)
  <2>1. CASE At(c, "startRouteCanary", "start")
    <3>1. \E accepted \in BOOLEAN : Check(c, requireCandidate(in(c), i.deployment, accepted), "write", currentTargets(i))
      BY <1>1, <2>1 DEF startRouteCanary, At, in
    <3> QED
      BY <1>0, <2>1, <3>1, CandidateCounts DEF At, in
  <2>2. CASE At(c, "startRouteCanary", "write")
    <3>1. (\E t : db' = Pg!upsertRoute(db, in(c).project, in(c).host, t).db) /\ call'[c].pc \in {"idle", "start"}
      BY <1>1, <2>2, FinishLands DEF startRouteCanary, At, in
    <3> QED
      BY <1>0, <2>2, <3>1, AboutToWrite, RoutesPointed
  <2> QED
    BY <1>1, <2>1, <2>2 DEF startRouteCanary
<1>2. ASSUME rollbackRoute(c) PROVE RouteCounts(c)
  <2>1. CASE At(c, "rollbackRoute", "start")
    <3>1. \E accepted \in BOOLEAN : \E to : Check(c, requireCandidate(in(c), to, accepted), "write", to)
      BY <1>2, <2>1 DEF rollbackRoute, At, in
    <3> QED
      BY <1>0, <2>1, <3>1, CandidateCounts DEF At, in
  <2>2. CASE At(c, "rollbackRoute", "write")
    <3>1. (\E t : db' = Pg!upsertRoute(db, in(c).project, in(c).host, t).db) /\ call'[c].pc \in {"idle", "start"}
      BY <1>2, <2>2, FinishLands DEF rollbackRoute, At, in
    <3> QED
      BY <1>0, <2>2, <3>1, AboutToWrite, RoutesPointed
  <2> QED
    BY <1>2, <2>1, <2>2 DEF rollbackRoute
<1>3. ASSUME analyzeRouteCanary(c) PROVE RouteCounts(c)
  <2>1. CASE At(c, "analyzeRouteCanary", "start")
    <3>1. \E accepted \in BOOLEAN : Check(c, requireCandidate(in(c), i.deployment, accepted), "decide", currentTargets(i))
      BY <1>3, <2>1 DEF analyzeRouteCanary, At, in
    <3> QED
      BY <1>0, <2>1, <3>1, CandidateCounts DEF At, in
  <2>2. CASE At(c, "analyzeRouteCanary", "decide")
    <3>1. PICK decision, l : LET r == Pg!createCanaryDecision(db, decision) IN Write(c, r, "write", l) \/ Finish(c, r)
      BY <1>3, <2>2 DEF analyzeRouteCanary, At
    <3> DEFINE r == Pg!createCanaryDecision(db, decision)
    <3>2. Touches(db, r.db, {"decisions"})
      BY DEF Pg!createCanaryDecision, Pg!Ok, Pg!Fail, Touches
    <3>3. Write(c, r, "write", l) \/ Finish(c, r)
      BY <3>1
    <3> HIDE DEF r
    <3>4. db' = r.db /\ (call'[c].pc \in {"idle", "start"} \/ call'[c].req = call[c].req)
      BY <3>3, WriteLands, FinishLands
    <3>5. db'.routes = db.routes
      BY <1>0, <3>2, <3>4 DEF Touches, EmptyDb
    <3>6. Has(db.routes, routeKey(in(c))) /\ in(c).op = "analyzeRouteCanary"
      BY <2>2, AboutToWrite DEF Holding, InCall, At, in
    <3> QED
      BY <1>0, <3>4, <3>5, <3>6, RoutesRestThere DEF in
  <2>3. CASE At(c, "analyzeRouteCanary", "write")
    <3>1. (\E t : db' = Pg!upsertRoute(db, in(c).project, in(c).host, t).db) /\ call'[c].pc \in {"idle", "start"}
      BY <1>3, <2>3, FinishLands DEF analyzeRouteCanary, At, in
    <3> QED
      BY <1>0, <2>3, <3>1, AboutToWrite, RoutesPointed
  <2> QED
    BY <1>3, <2>1, <2>2, <2>3 DEF analyzeRouteCanary
<1> QED
  BY <1>1, <1>2, <1>3

\* createDeployPreview() counts the route of its preview if it is new.
LEMMA createDeployPreviewCounts ==
  ASSUME CallsInv, RowsInv, NoRestore, NEW c \in Callers, createDeployPreview(c) PROVE RouteCounts(c)
<1> DEFINE i == call[c].req
<1>0. OwnKeys(db) /\ DOMAIN db = DOMAIN EmptyDb
  BY DEF CallsInv, RowsInv, OwnKeys
<1>00. checkRoute(c, "createDeployPreview", "point") => call[c].pc \in {"domain", "route", "quota"}
  BY DEF checkRoute, At
<1>1. CASE At(c, "createDeployPreview", "start")
  <2>1. Check(c, requireProjectDeployment(i.project, i.deployment), "domain", None)
    BY <1>00, <1>1 DEF createDeployPreview, At, in
  <2>2. IsResult(requireProjectDeployment(i.project, i.deployment))
    BY DEF requireProjectDeployment, requireProject, requireDeployment, Then, Require, Ok, Fail, IsResult
  <2> QED
    BY <1>0, <2>1, <2>2, CheckLands, RoutesRestThere
<1>2. CASE checkRoute(c, "createDeployPreview", "point")
  BY <1>0, <1>2, RouteCheckCounts
<1>3. CASE At(c, "createDeployPreview", "point")
  <2>1. /\ db' = Pg!upsertRoute(db, i.project, i.host, WholeRoute(i.deployment)).db
        /\ call'[c].pc \in {"idle", "start", "insert"}
    BY <1>00, <1>3, WriteLands DEF createDeployPreview, At, in
  <2> QED
    BY <1>0, <1>3, <2>1, AboutToWrite, RoutesPointed DEF in
<1>4. CASE At(c, "createDeployPreview", "insert")
  <2>1. \E row : Finish(c, Pg!createDeployPreview(db, i.id, row))
    BY <1>00, <1>4 DEF createDeployPreview, At, in
  <2>2. db'.routes = db.routes /\ call'[c].pc \in {"idle", "start"}
    BY <1>0, <2>1, FinishLands, InsertWrites DEF Pg!createDeployPreview, Writes, Touches, EmptyDb
  <2> QED
    BY <1>0, <2>2, RoutesRestThere
<1> QED
  BY <1>1, <1>2, <1>3, <1>4 DEF createDeployPreview

\* The rollback of a preview restores one route of its project, or deletes one.
LEMMA RestoredRoutes ==
  ASSUME CallsInv, RowsInv, NEW c \in Callers, rollbackDeployPreview(c)
  PROVE  OwnKeys(db') /\ \E k : DOMAIN db'.routes \subseteq DOMAIN db.routes \union {k}
<1> DEFINE i == call[c].req
<1>0. OwnKeys(db) /\ DOMAIN db = DOMAIN EmptyDb
  BY DEF CallsInv, RowsInv, OwnKeys
<1>1. CASE At(c, "rollbackDeployPreview", "start")
  <2>1. db' = db
    BY <1>1, ReplyLands, CheckLands DEF rollbackDeployPreview, At, in, Require, Ok, Fail, IsResult
  <2> QED
    BY <1>0, <2>1
<1>2. CASE At(c, "rollbackDeployPreview", "route")
  <2> DEFINE l == call[c].loc
  <2>1. db' = restorePreviousRoute(l).db
    BY <1>2, WriteLands DEF rollbackDeployPreview, At, loc, in
  <2>2. CASE l.previous = None
    <3>1. DOMAIN db'.routes \subseteq DOMAIN db.routes /\ \A x \in DOMAIN db'.routes : db'.routes[x] = db.routes[x]
      BY <1>0, <2>1, <2>2 DEF restorePreviousRoute, Pg!deleteRoute, Pg!Drop, Pg!Ok, EmptyDb
    <3> QED
      BY <1>0, <3>1 DEF OwnKeys
  <2>3. CASE l.previous # None
    <3>1. db' = Pg!upsertRoute(db, l.project, l.host, l.previous).db
      BY <2>1, <2>3 DEF restorePreviousRoute
    <3>2. OwnKeys(db') /\ DOMAIN db'.routes \subseteq DOMAIN db.routes \union {<<l.project, l.host>>}
      BY <1>0, <3>1, PointedRows
    <3> QED
      BY <3>2
  <2> QED
    BY <2>2, <2>3
<1>3. CASE At(c, "rollbackDeployPreview", "update")
  <2>1. db'.routes = db.routes
    BY <1>0, <1>3, FinishLands, SetColumnWrites
    DEF rollbackDeployPreview, At, Pg!updateDeployPreview, Writes, Touches, EmptyDb
  <2> QED
    BY <1>0, <2>1 DEF OwnKeys
<1> QED
  BY <1>1, <1>2, <1>3 DEF rollbackDeployPreview

\* A step that writes a route writes one; the other writers of routes than a rollback add it or point it.
LEMMA RoutesWritten ==
  ASSUME CallsInv, RowsInv, NEW c \in Callers, Step(c)
  PROVE  OwnKeys(db') /\ \E k : DOMAIN db'.routes \subseteq DOMAIN db.routes \union {k}
<1> DEFINE Pointed == db'.routes = db.routes \/ \E q, h, t : db' = Pg!upsertRoute(db, q, h, t).db
<1>0. OwnKeys(db) /\ DOMAIN db = DOMAIN EmptyDb
  BY DEF CallsInv, RowsInv, OwnKeys
<1>1. ASSUME NEW op, NEW write, checkRoute(c, op, write) PROVE Pointed
  BY <1>1, CheckStep, AwaitStep
  DEF checkRoute, enforceRouteCustomDomain, enforceProjectQuota, Require, Ok, Fail, IsResult
<1>2. pointRoute(c) => Pointed
  <2>1. IsResult(requireTargets(db, in(c).project, in(c).targets))
    BY DEF requireTargets, Ok, Fail, IsResult
  <2>2. Writes(db, recordCustomerAuditEvent(db, "route.pointed", in(c).host, db.projects[in(c).project].org, in(c).project),
               {"audit"})
    BY AuditWrites
  <2> QED
    BY <1>0, <1>1, <2>1, <2>2, CheckStep, WriteStep, FinishStep
    DEF pointRoute, requireProject, Then, Require, Ok, Fail, IsResult, Writes, Touches, EmptyDb
<1>3. startRouteCanary(c) => Pointed
  BY CandidateFound, CheckStep, FinishStep DEF startRouteCanary
<1>4. rollbackRoute(c) => Pointed
  <2>1. rollbackRoute(c) => \/ \E accepted \in BOOLEAN : \E to : Check(c, requireCandidate(in(c), to, accepted), "write", to)
                            \/ \E t : Finish(c, Pg!upsertRoute(db, in(c).project, in(c).host, t))
    BY DEF rollbackRoute
  <2> QED
    BY <2>1, CandidateFound, CheckStep, FinishStep
<1>5. analyzeRouteCanary(c) => Pointed
  <2>1. ASSUME NEW decision PROVE Pg!createCanaryDecision(db, decision).db.routes = db.routes
    BY <1>0 DEF Pg!createCanaryDecision, Pg!Ok, Pg!Fail, EmptyDb
  <2> QED
    BY <2>1, CandidateFound, CheckStep, WriteStep, FinishStep DEF analyzeRouteCanary
<1>6. createDeployPreview(c) => Pointed
  <2>1. ASSUME NEW id, NEW row PROVE Pg!createDeployPreview(db, id, row).db.routes = db.routes
    BY <1>0, InsertWrites DEF Pg!createDeployPreview, Writes, Touches, EmptyDb
  <2>2. IsResult(requireProjectDeployment(in(c).project, in(c).deployment))
    BY DEF requireProjectDeployment, requireProject, requireDeployment, Then, Require, Ok, Fail, IsResult
  <2> QED
    BY <1>1, <2>1, <2>2, CheckStep, WriteStep, FinishStep DEF createDeployPreview
<1>7. CASE in(c).op = "rollbackDeployPreview"
  BY <1>0, <1>7, StepsOfOps, RestoredRoutes
<1>8. CASE in(c).op # "rollbackDeployPreview"
  <2>1. Pointed
    <3>1. db'.routes = db.routes => Pointed
      OBVIOUS
    <3> HIDE DEF Pointed
    <3> QED
      BY <1>0, <1>2, <1>3, <1>4, <1>5, <1>6, <1>8, <3>1, Writers, StepsOfOps DEF WritersOnly, RouteWriters
  <2>2. CASE db'.routes = db.routes
    BY <1>0, <2>2 DEF OwnKeys
  <2>3. CASE \E q, h, t : db' = Pg!upsertRoute(db, q, h, t).db
    <3>1. PICK q, h, t : db' = Pg!upsertRoute(db, q, h, t).db
      BY <2>3
    <3>2. OwnKeys(db') /\ DOMAIN db'.routes \subseteq DOMAIN db.routes \union {<<q, h>>}
      BY <1>0, <3>1, PointedRows
    <3> QED
      BY <3>2
  <2> QED
    BY <2>1, <2>2, <2>3
<1> QED
  BY <1>7, <1>8

-----------------------------------------------------------------------------
(* Rows and holders, step by step.                                         *)

\* A step moves its own caller alone, and whether the workload is serial is settled.
LEMMA CallersApart ==
  ASSUME CallsInv, NEW c \in Callers, Moves(c)
  PROVE  serial' = serial /\ \A x \in Callers \ {c} : todo'[x] = todo[x]
<1>1. ASSUME NEW pc, NEW l, Goto(c, pc, l) PROVE serial' = serial /\ todo' = todo
  BY <1>1 DEF Goto
<1>2. ASSUME NEW out, Return(c, out) PROVE serial' = serial /\ \A x \in Callers \ {c} : todo'[x] = todo[x]
  BY <1>2 DEF Return, CallsInv
<1> QED
  BY <1>1, <1>2 DEF Moves

\* The caller of a serial workload is the one that steps.
LEMMA OneCallerStays ==
  ASSUME CallsInv, OneCaller, NEW c \in Callers, call[c].pc # "idle", Moved(c), Moves(c) PROVE OneCaller'
<1> SUFFICES ASSUME serial' PROVE \E c0 \in Callers : \A x \in Callers \ {c0} : call'[x].pc = "idle" /\ todo'[x] = <<>>
  BY DEF OneCaller
<1>0. serial /\ \A x \in Callers \ {c} : todo'[x] = todo[x] /\ call'[x] = call[x]
  BY CallersApart DEF Moved
<1>1. PICK c0 \in Callers : \A x \in Callers \ {c0} : call[x].pc = "idle" /\ todo[x] = <<>>
  BY <1>0 DEF OneCaller
<1>2. c = c0
  BY <1>1
<1> QED
  BY <1>0, <1>1, <1>2

\* The rollback of a preview that has begun stays among the requests.
LEMMA RestoreStays ==
  ASSUME CallsInv, NEW c \in Callers, Step(c), NoRestore' PROVE NoRestore /\ in(c).op # "rollbackDeployPreview"
<1>0. WritersOnly(c) /\ Moved(c) /\ DOMAIN db = DOMAIN EmptyDb
  BY Writers, StepCalls DEF CallsInv
<1>1. answered \subseteq answered'
  BY <1>0, MovesAnswers DEF WritersOnly
<1>2. in(c).op # "rollbackDeployPreview"
  <2> SUFFICES ASSUME in(c).op = "rollbackDeployPreview" PROVE FALSE
    OBVIOUS
  <2>1. rollbackDeployPreview(c)
    BY <1>0, StepsOfOps
  <2>2. \/ \E pc, l : pc # "idle" /\ Goes(c, pc, l)
        \/ \E out : Answers(c, out)
    BY <2>1, WriteAnswers, CheckAnswers, FinishAnswers, RequireResult, ReplyAnswers DEF rollbackDeployPreview
  <2>3. CASE \E pc, l : pc # "idle" /\ Goes(c, pc, l)
    BY <2>3 DEF Goes, NoRestore, InFlight, in
  <2>4. CASE \E out : Answers(c, out)
    <3>1. in(c) \in Asked'
      BY <2>4 DEF Answers, Asked
    <3> QED
      BY <3>1 DEF NoRestore, AskedOps
  <2> QED
    BY <2>2, <2>3, <2>4
<1>3. "rollbackDeployPreview" \notin AskedOps
  BY <1>1 DEF NoRestore, AskedOps, Asked
<1>4. "rollbackDeployPreview" \notin InFlight
  BY <1>0, <1>2 DEF NoRestore, InFlight, Moved, in
<1> QED
  BY <1>2, <1>3, <1>4 DEF NoRestore

\* A secret or a namespace that is changed or deleted counts nothing, and keeps its project.
LEMMA ChangedCounts ==
  ASSUME CallsInv, RowsInv, NEW c \in Callers, Moved(c),
         \/ updateSecretValue(c) \/ deleteSecret(c) \/ deleteKvNamespace(c) \/ deleteDurableObjectNamespace(c)
  PROVE  /\ \A resource \in {"secrets", "kvNamespaces", "doNamespaces"} :
              /\ DOMAIN db'[resource] \subseteq DOMAIN db[resource]
              /\ \A p : RowsOf(db', p, resource) \subseteq RowsOf(db, p, resource)
         /\ \A s \in DOMAIN db'.secrets : "project" \in DOMAIN db'.secrets[s]
<1> DEFINE Fewer(d) == /\ \A resource \in {"secrets", "kvNamespaces", "doNamespaces"} :
                            /\ DOMAIN d[resource] \subseteq DOMAIN db[resource]
                            /\ \A p : RowsOf(d, p, resource) \subseteq RowsOf(db, p, resource)
                       /\ \A s \in DOMAIN d.secrets : "project" \in DOMAIN d.secrets[s]
           i == in(c)
<1>0. DOMAIN db = DOMAIN EmptyDb /\ {"secrets", "kvNamespaces", "doNamespaces"} \subseteq DOMAIN db
  BY DEF CallsInv, EmptyDb
<1>1. ASSUME NEW op, NEW table, NEW result, changeExisting(c, op, table, result) PROVE db' = db \/ db' = result.db
  BY <1>1, CheckStep, FinishStep, RequireResult DEF changeExisting
<1>2. \/ db' = db
      \/ db' = Pg!updateSecretValue(db, i.id, i.value).db
      \/ \E t \in {"secrets", "kvNamespaces", "doNamespaces"} : db' = Pg!Delete(db, t, i.id).db
  BY <1>1 DEF updateSecretValue, deleteSecret, deleteKvNamespace, deleteDurableObjectNamespace,
              Pg!deleteSecret, Pg!deleteKvNamespace, Pg!deleteDurableObjectNamespace
<1>3. Fewer(db)
  BY DEF RowsInv
<1>4. CASE db' = Pg!updateSecretValue(db, i.id, i.value).db
  <2> DEFINE e == Pg!SetColumn(db, "secrets", i.id, "value", i.value).db
  <2>1. db' = e
    BY <1>4 DEF Pg!updateSecretValue
  <2>2. /\ DOMAIN e.secrets = DOMAIN db.secrets
        /\ \A x \in DOMAIN e.secrets : "project" \in DOMAIN e.secrets[x]
        /\ \A p : RowsOf(e, p, "secrets") = RowsOf(db, p, "secrets")
    BY <1>0, UpdatedRows DEF RowsInv
  <2>3. Touches(db, e, {"secrets"})
    BY SetColumnWrites DEF Writes
  <2> HIDE DEF e
  <2>4. e.kvNamespaces = db.kvNamespaces /\ e.doNamespaces = db.doNamespaces
    BY <1>0, <2>3 DEF Touches
  <2>5. \A p, resource : e[resource] = db[resource] => RowsOf(e, p, resource) = RowsOf(db, p, resource)
    BY DEF RowsOf
  <2>6. Fewer(e)
    BY <1>3, <2>2, <2>4, <2>5
  <2> QED
    BY <2>1, <2>6
<1>5. ASSUME NEW t \in {"secrets", "kvNamespaces", "doNamespaces"}, db' = Pg!Delete(db, t, i.id).db PROVE Fewer(db')
  <2> DEFINE e == Pg!Delete(db, t, i.id).db
  <2>2. /\ DOMAIN e[t] \subseteq DOMAIN db[t]
        /\ \A x \in DOMAIN e[t] : e[t][x] = db[t][x]
        /\ \A p : RowsOf(e, p, t) \subseteq RowsOf(db, p, t)
    BY <1>0, DeletedRows
  <2>3. Touches(db, e, {t})
    BY DeleteWrites DEF Writes
  <2>4. db' = e
    BY <1>5
  <2> HIDE DEF e
  <2>5. \A resource \in {"secrets", "kvNamespaces", "doNamespaces"} \ {t} : e[resource] = db[resource]
    BY <1>0, <2>3 DEF Touches
  <2>6. \A p, resource : e[resource] = db[resource] => RowsOf(e, p, resource) = RowsOf(db, p, resource)
    BY DEF RowsOf
  <2>7. \A s \in DOMAIN e.secrets : s \in DOMAIN db.secrets /\ e.secrets[s] = db.secrets[s]
    BY <2>2, <2>5
  <2>8. \A resource \in {"secrets", "kvNamespaces", "doNamespaces"} :
          DOMAIN e[resource] \subseteq DOMAIN db[resource] /\ \A p : RowsOf(e, p, resource) \subseteq RowsOf(db, p, resource)
    BY <2>2, <2>5, <2>6
  <2>9. Fewer(e)
    BY <1>3, <2>7, <2>8
  <2> QED
    BY <2>4, <2>9
<1> QED
  BY <1>2, <1>3, <1>4, <1>5

\* A step of any call counts the rows it adds; but for a route, when a preview may be rolled back.
LEMMA StepCounts ==
  ASSUME CallsInv, RowsInv, NEW c \in Callers, Step(c), NEW resource \in Resources, resource = "routes" => NoRestore'
  PROVE  Counts(c, resource)
<1>0. Moved(c) /\ DOMAIN db = DOMAIN EmptyDb
  BY StepCalls DEF CallsInv
<1>1. resource = "routes" => NoRestore /\ in(c).op # "rollbackDeployPreview"
  BY RestoreStays
<1>2. CASE resource # "routes" /\ Counting(in(c).op, resource)
  BY <1>0, <1>2, StepsOfCreations, StepsOfOps, CreationsCount, createDeploymentCounts DEF Counting
<1>3. CASE resource = "routes" /\ in(c).op \in RouteWriters
  <2>1. RouteCounts(c)
    BY <1>0, <1>1, <1>3, StepsOfOps, pointRouteCounts, CanariesCount, createDeployPreviewCounts DEF RouteWriters
  <2> QED
    BY <1>3, <2>1 DEF RouteCounts
<1>4. CASE db'[resource] = db[resource] /\ ~Counting(in(c).op, resource)
  <2>1. \A p : RowsOf(db', p, resource) = RowsOf(db, p, resource)
    BY <1>4 DEF RowsOf
  <2> QED
    BY <1>0, <1>4, <2>1, OthersCount
<1>5. CASE /\ resource \in {"secrets", "kvNamespaces", "doNamespaces"} /\ ~Counting(in(c).op, resource)
           /\ in(c).op \in {"updateSecretValue", "deleteSecret", "deleteKvNamespace", "deleteDurableObjectNamespace"}
  BY <1>0, <1>5, StepsOfCreations, ChangedCounts, OthersCount
<1>6. db'[resource] = db[resource] \/ RowWriter(in(c).op, resource)
  BY <1>0, StepRows DEF RowWriters
<1> QED
  BY <1>2, <1>3, <1>4, <1>5, <1>6 DEF RowWriter, Counting, RouteWriters

\* A call about to write a route finds it there, if no preview is rolled back.
LEMMA StepRewrites ==
  ASSUME CallsInv, RowsInv, NEW c \in Callers, Step(c), NoRestore', NEW x \in Callers, Rewriting(call'[x])
  PROVE  Has(db'.routes, routeKey(call'[x].req))
<1>0. Moved(c) /\ DOMAIN db = DOMAIN EmptyDb /\ WritersOnly(c) /\ NoRestore /\ in(c).op # "rollbackDeployPreview"
  BY StepCalls, Writers, RestoreStays DEF CallsInv
<1>1. CASE in(c).op \in RouteWriters
  <2>1. RouteCounts(c)
    BY <1>0, <1>1, StepsOfOps, pointRouteCounts, CanariesCount, createDeployPreviewCounts DEF RouteWriters
  <2>2. CASE x = c
    BY <2>1, <2>2 DEF RouteCounts
  <2>3. CASE x # c
    <3>1. call'[x] = call[x]
      BY <1>0, <2>3 DEF Moved
    <3>2. Has(db.routes, routeKey(call[x].req))
      BY <1>0, <3>1 DEF RowsInv, in
    <3> QED
      BY <2>1, <3>1, <3>2 DEF RouteCounts, RoutesGrow, Has
  <2> QED
    BY <2>2, <2>3
<1>2. CASE in(c).op \notin RouteWriters
  <2>1. db'.routes = db.routes
    BY <1>0, <1>2 DEF WritersOnly
  <2>2. call'[x] = call[x]
    <3>1. CASE x # c
      BY <1>0, <3>1 DEF Moved
    <3>2. CASE x = c
      BY <1>0, <1>2, <3>2, StartHoldsNothing DEF Moved, Rewriting, InCall, RouteWriters, in
    <3> QED
      BY <3>1, <3>2
  <2> QED
    BY <1>0, <2>1, <2>2 DEF RowsInv, in
<1> QED
  BY <1>1, <1>2

\* Every secret has a project.
LEMMA StepSecrets ==
  ASSUME CallsInv, RowsInv, NEW c \in Callers, Step(c)
  PROVE  \A s \in DOMAIN db'.secrets : "project" \in DOMAIN db'.secrets[s]
<1> DEFINE i == in(c)
           row == [project |-> i.project, name |-> i.name, value |-> i.value]
<1>0. Moved(c) /\ DOMAIN db = DOMAIN EmptyDb /\ "secrets" \in DOMAIN db
  BY StepCalls DEF CallsInv, EmptyDb
<1>1. CASE in(c).op \in {"updateSecretValue", "deleteSecret"}
  BY <1>0, <1>1, StepsOfCreations, ChangedCounts
<1>2. CASE in(c).op = "createSecret"
  <2>1. createSecret(c)
    BY <1>0, <1>2, StepsOfCreations
  <2>2. db' = db \/ db' = Pg!Insert(db, "secrets", i.id, row).db
    BY <2>1, CheckStep, FinishStep
    DEF createSecret, Pg!createSecret, createWithinQuota, enforceProjectQuota, requireProject, Then, Require, Ok, Fail, IsResult
  <2>3. "project" \in DOMAIN row
    OBVIOUS
  <2> HIDE DEF row
  <2>4. \/ db' = db
        \/ db'.secrets = [x \in DOMAIN db.secrets \union {i.id} |-> IF x = i.id THEN row ELSE db.secrets[x]]
    BY <1>0, <2>2 DEF Pg!Insert, Pg!Ok, Pg!Fail, Pg!Put
  <2> QED
    BY <2>3, <2>4 DEF RowsInv
<1>3. CASE in(c).op \notin {"createSecret", "updateSecretValue", "deleteSecret"}
  <2>1. db'.secrets = db.secrets
    BY <1>0, <1>3, StepRows DEF RowWriters, RowWriter, Counting, Resources
  <2> QED
    BY <2>1 DEF RowsInv
<1> QED
  BY <1>1, <1>2, <1>3

\* Every step keeps the rows and the holders within the bound.
LEMMA StepRowsInv == ASSUME CallsInv, RowsInv, NEW c \in Callers, Step(c) PROVE RowsInv'
<1>0. Moved(c) /\ Moves(c) /\ call[c].pc # "idle"
  BY StepCalls, Writers DEF WritersOnly, CallsInv
<1>1. serial' = serial /\ OneCaller'
  BY <1>0, CallersApart, OneCallerStays DEF RowsInv
<1>2. OwnKeys(db') /\ \E k : DOMAIN db'.routes \subseteq DOMAIN db.routes \union {k}
  BY RoutesWritten
<1>3. ASSUME NEW resource \in Resources PROVE IsFiniteSet(DOMAIN db'[resource])
  <2>1. \E k : DOMAIN db'[resource] \subseteq DOMAIN db[resource] \union {k}
    <3>1. CASE resource = "routes"
      BY <1>2, <3>1
    <3>2. CASE resource # "routes"
      BY <3>2, StepCounts DEF Counts
    <3> QED
      BY <3>1, <3>2
  <2>2. PICK k : DOMAIN db'[resource] \in SUBSET (DOMAIN db[resource] \union {k})
    BY <2>1
  <2>3. IsFiniteSet(DOMAIN db[resource] \union {k})
    BY OneMore DEF RowsInv
  <2> QED
    BY <2>2, <2>3, FS_Subset
<1>4. NoRestore' => \A x \in Callers : Rewriting(call'[x]) => Has(db'.routes, routeKey(call'[x].req))
  BY StepRewrites
<1>5. ASSUME NEW p, NEW resource, resource \in Counted'
      PROVE  Cardinality(RowsOf(db', p, resource)) + Cardinality(Holders(p, resource)') <= Quota + Others
  <2>1. resource \in Resources /\ (resource = "routes" => NoRestore')
    BY <1>5 DEF Counted, NoRestore
  <2>2. resource \in Counted
    BY <2>1, RestoreStays DEF Counted, NoRestore
  <2>3. CountStep(c, p, resource)
    BY <2>1, StepCounts DEF Counts
  <2> QED
    BY <1>0, <1>1, <2>1, <2>2, <2>3, CountHolds
<1>6. Others' = Others /\ \A p, resource : RowsOf(db, p, resource)' = RowsOf(db', p, resource)
  BY <1>1 DEF Others, RowsOf
<1>7. \A x : routeKey(in(x))' = routeKey(call'[x].req)
  BY DEF routeKey, in
<1> QED
  BY <1>1, <1>2, <1>3, <1>4, <1>5, <1>6, <1>7, StepSecrets DEF RowsInv, OwnKeys

\* A process that dies leaves its count: whoever asks again counts anew.
LEMMA RetryRowsInv == ASSUME CallsInv, RowsInv, NEW c \in Callers, Retry(c) PROVE RowsInv'
<1>0. /\ Moved(c) /\ call'[c].req = call[c].req /\ call'[c].pc = "start" /\ call[c].pc # "idle"
      /\ UNCHANGED <<db, todo, answered, base, serial>>
  BY RetryCalls DEF Retry
<1>1. OneCaller'
  BY <1>0 DEF Retry, RowsInv, OneCaller
<1>2. NoRestore' => NoRestore
  BY <1>0 DEF NoRestore, AskedOps, Asked, InFlight, Moved, in
<1>3. NoRestore' => \A x \in Callers : Rewriting(call'[x]) => Has(db'.routes, routeKey(call'[x].req))
  BY <1>0, <1>2, StartHoldsNothing DEF RowsInv, Moved, in
<1>4. ASSUME NEW p, NEW resource, resource \in Counted'
      PROVE  Cardinality(RowsOf(db', p, resource)) + Cardinality(Holders(p, resource)') <= Quota + Others
  <2>1. resource \in Counted
    BY <1>2, <1>4 DEF Counted, NoRestore
  <2>2. CountStep(c, p, resource)
    BY <1>0, StartHoldsNothing DEF CountStep, RowsOf
  <2> QED
    BY <1>0, <2>1, <2>2, CountHolds DEF Counted
<1>6. Others' = Others /\ \A p, resource : RowsOf(db, p, resource)' = RowsOf(db', p, resource)
  BY <1>0 DEF Others, RowsOf
<1>7. \A x : routeKey(in(x))' = routeKey(call'[x].req)
  BY DEF routeKey, in
<1> QED
  BY <1>0, <1>1, <1>3, <1>4, <1>6, <1>7 DEF RowsInv

\* A workload starts within its quotas, with nothing counted.
LEMMA RowsStart == ASSUME Init PROVE RowsInv
<1>1. PICK w \in Workloads : CallsInit(w.db, w.calls)
  BY DEF Init
<1>2. WithinQuota(w.db) /\ w.calls \in [Callers -> Seq(Requests)]
  BY WorkloadsAssumption DEF SoundDb
<1>3. \A c \in Callers : call[c] = FirstCall(w.calls[c]) /\ todo[c] = RestOf(w.calls[c]) /\ call[c].pc \in {"idle", "start"}
  BY <1>1, <1>2, FirstCallStarts DEF CallsInit
<1>4. db = w.db
  BY <1>1 DEF CallsInit
<1>5. OneCaller
  <2> SUFFICES ASSUME serial PROVE \E c0 \in Callers : \A c \in Callers \ {c0} : call[c].pc = "idle" /\ todo[c] = <<>>
    BY DEF OneCaller
  <2> DEFINE Busy == {c \in Callers : w.calls[c] # <<>>}
  <2>1. Cardinality(Busy) = 1
    BY <1>1 DEF CallsInit
  <2>2. IsFiniteSet(Busy)
    BY Numbers, FS_Subset
  <2> HIDE DEF Busy
  <2>3. PICK c0 : Busy = {c0}
    BY <2>1, <2>2, FS_Singleton
  <2>4. c0 \in Callers /\ \A c \in Callers \ {c0} : w.calls[c] = <<>>
    BY <2>3 DEF Busy
  <2>5. \A c \in Callers \ {c0} : call[c].pc = "idle" /\ todo[c] = <<>>
    BY <1>3, <2>4 DEF FirstCall, RestOf, Idle
  <2> QED
    BY <2>4, <2>5
<1>6. \A p, resource : Holders(p, resource) = {}
  BY <1>3, StartHoldsNothing DEF Holders
<1>7. \A c \in Callers : ~Rewriting(call[c])
  BY <1>3, StartHoldsNothing
<1>8. ASSUME NEW p, NEW resource \in Resources PROVE Cardinality(RowsOf(db, p, resource)) <= Quota
  <2>1. CASE RowsOf(db, p, resource) = {}
    BY <2>1, FS_EmptySet, Numbers
  <2>2. CASE RowsOf(db, p, resource) # {}
    <3>1. PICK x \in DOMAIN db[resource] : db[resource][x].project = p
      BY <2>2 DEF RowsOf
    <3>2. getProjectUsage(db, p, resource) <= Quota
      BY <1>2, <1>4, <3>1 DEF WithinQuota
    <3> QED
      BY <3>2 DEF getProjectUsage, RowsOf
  <2> QED
    BY <2>1, <2>2
<1>9. ASSUME NEW p, NEW resource, resource \in Counted
      PROVE  Cardinality(RowsOf(db, p, resource)) + Cardinality(Holders(p, resource)) <= Quota + Others
  <2>1. resource \in Resources
    BY <1>9 DEF Counted
  <2>2. Cardinality(RowsOf(db, p, resource)) <= Quota /\ Cardinality(Holders(p, resource)) = 0
    BY <1>6, <1>8, <2>1, FS_EmptySet
  <2>3. Cardinality(RowsOf(db, p, resource)) \in Nat
    <3>1. RowsOf(db, p, resource) \in SUBSET DOMAIN db[resource]
      BY DEF RowsOf
    <3> QED
      BY <1>2, <1>4, <2>1, <3>1, FS_Subset, FS_CardinalityType DEF WithinQuota
  <2> QED
    BY <2>2, <2>3, Numbers
<1>10. "secrets" \in Resources
  BY DEF Resources
<1> QED
  BY <1>2, <1>4, <1>5, <1>7, <1>9, <1>10 DEF WithinQuota, RowsInv

\* The rows of every project stay within its quotas and what the other calls may add.
LEMMA RowsBounded == ASSUME RowsInv PROVE RowsWithinQuota
<1> SUFFICES ASSUME NEW p \in DOMAIN db.projects, NEW resource \in Counted
             PROVE  getProjectUsage(db, p, resource) <= Quota + Others
  BY DEF RowsWithinQuota
<1>1. Cardinality(RowsOf(db, p, resource)) + Cardinality(Holders(p, resource)) <= Quota + Others
  BY DEF RowsInv
<1>2. IsFiniteSet(Holders(p, resource)) /\ Cardinality(Holders(p, resource)) \in Nat
  BY Numbers, FS_Subset, FS_CardinalityType DEF Holders
<1>3. Cardinality(RowsOf(db, p, resource)) \in Nat
  <2>1. RowsOf(db, p, resource) \in SUBSET DOMAIN db[resource]
    BY DEF RowsOf
  <2> QED
    BY <2>1, FS_Subset, FS_CardinalityType DEF RowsInv, Counted
<1> QED
  BY <1>1, <1>2, <1>3, Numbers DEF getProjectUsage, RowsOf

-----------------------------------------------------------------------------
(* The sum of the units.                                                   *)

UsageOf(u, p, period) == {e \in DOMAIN u : u[e].project = p /\ u[e].at = period}

Quantities(u) == [e \in DOMAIN u |-> u[e].quantity]

\* getProjectUsageSummary() is the sum of the units of the events of the project and the period.
LEMMA SummaryIsTotal ==
  ASSUME NEW d, NEW p, NEW period
  PROVE  getProjectUsageSummary(d, p, period)
           = SumFunctionOnSet(Quantities(d.usage), UsageOf(d.usage, p, period))
BY DEF getProjectUsageSummary, UsageOf, Quantities

\* The events of d are finitely many, and their units numbers.
Countable(d) == IsFiniteSet(DOMAIN d.usage) /\ \A e \in DOMAIN d.usage : d.usage[e].quantity \in Nat

\* Units are numbers.
LEMMA UnitsType ==
  ASSUME NEW d, Countable(d), NEW p, NEW period
  PROVE  /\ getProjectUsageSummary(d, p, period) \in Nat
         /\ UsageOf(d.usage, p, period) = {} => getProjectUsageSummary(d, p, period) = 0
<1> DEFINE S == UsageOf(d.usage, p, period)
           f == Quantities(d.usage)
<1>1. S \in SUBSET DOMAIN d.usage /\ \A x \in S : f[x] \in Nat
  BY DEF Countable, UsageOf, Quantities
<1>2. IsFiniteSet(S)
  BY <1>1, FS_Subset DEF Countable
<1>3. getProjectUsageSummary(d, p, period) = SumFunctionOnSet(f, S)
  BY SummaryIsTotal
<1> HIDE DEF S, f
<1>4. SumFunctionOnSet(f, S) \in Nat /\ (S = {} => SumFunctionOnSet(f, S) = 0)
  BY <1>1, <1>2, SumInNat
<1> QED
  BY <1>3, <1>4 DEF S

\* The units of a database are those of its events.
LEMMA UnitsSame ==
  ASSUME NEW d, NEW e, e.usage = d.usage, NEW p, NEW period
  PROVE  getProjectUsageSummary(e, p, period) = getProjectUsageSummary(d, p, period)
BY SummaryIsTotal

\* One more event adds its units, to its project and its period.
LEMMA UnitsAdded ==
  ASSUME NEW d, NEW e, Countable(d), NEW k, k \notin DOMAIN d.usage, NEW row, row.quantity \in Nat,
         e.usage = [x \in DOMAIN d.usage \union {k} |-> IF x = k THEN row ELSE d.usage[x]],
         NEW p, NEW period
  PROVE  getProjectUsageSummary(e, p, period) =
           getProjectUsageSummary(d, p, period) + (IF row.project = p /\ row.at = period THEN row.quantity ELSE 0)
<1> DEFINE u == d.usage
           v == e.usage
           f == Quantities(u)
           w == Quantities(v)
           S == UsageOf(u, p, period)
           T == UsageOf(v, p, period)
<1>1. /\ S \in SUBSET DOMAIN u /\ k \notin S
      /\ T = IF row.project = p /\ row.at = period THEN S \union {k} ELSE S
      /\ \A x \in S : f[x] = w[x] /\ f[x] \in Nat
      /\ w[k] = row.quantity
  BY DEF UsageOf, Countable, Quantities
<1>2. IsFiniteSet(S)
  BY <1>1, FS_Subset DEF Countable
<1>3. /\ getProjectUsageSummary(d, p, period) = SumFunctionOnSet(f, S)
      /\ getProjectUsageSummary(e, p, period) = SumFunctionOnSet(w, T)
  BY SummaryIsTotal
<1> HIDE DEF S, T, u, v, f, w
<1>4. SumFunctionOnSet(f, S) \in Nat
  BY <1>1, <1>2, SumInNat
<1>5. SumFunctionOnSet(f, S) = SumFunctionOnSet(w, S)
  BY <1>1, <1>2, SumSame
<1>6. SumFunctionOnSet(w, S \union {k}) = w[k] + SumFunctionOnSet(w, S)
  <2>1. \A x \in S \union {k} : w[x] \in Nat
    BY <1>1
  <2> QED
    BY <1>1, <1>2, <2>1, SumWith
<1> QED
  BY <1>1, <1>3, <1>4, <1>5, <1>6

-----------------------------------------------------------------------------
(* The units a quota counts.                                               *)

\* The call k has passed the count of the units of the project p in the period, and has yet to insert its event.
Metering(k, p, period) ==
  InCall(k, "recordUsageEvent", {"budget", "insert"}) /\ k.req.project = p /\ k.req.at = period

Meters(p, period) == {c \in Callers : Metering(call[c], p, period)}

\* The units recorded, and those of the calls M that were counted, are bounded together: the last
\* that was counted saw the units of none of the others.
UnitsBound(units, M, k) ==
  /\ units <= UsageLimit * (Others + 1)
  /\ M # {} => \E c \in M : units + k[c].req.quantity <= UsageLimit * (Others + 2 - Cardinality(M))

UnitsInv ==
  /\ Countable(db)
  /\ \A c \in Callers : InCall(call[c], "recordUsageEvent", {"budget", "insert"}) => in(c).quantity <= UsageLimit
  /\ \A p, period : UnitsBound(getProjectUsageSummary(db, p, period), Meters(p, period), call)

\* A step of c counts nothing, or counts its units before it adds them, or adds those that it counted.
MeterStep(c, p, period) ==
  LET before == getProjectUsageSummary(db, p, period)
      after == getProjectUsageSummary(db', p, period)
      held == Metering(call[c], p, period)
      holds == Metering(call'[c], p, period) IN
  \/ after = before /\ (holds => held)
  \/ after = before /\ holds /\ before + in(c).quantity <= UsageLimit
  \/ after = before + in(c).quantity /\ held /\ ~holds

\* The units of an event that is being recorded are a number.
LEMMA MeteredIsNat ==
  ASSUME CallsInv, NEW c \in Callers, call[c].pc # "idle", in(c).op = "recordUsageEvent" PROVE in(c).quantity \in Nat
BY WorkloadsAssumption DEF CallsInv, in

\* The limit for several calls grows with each of them.
LEMMA RoomsGrow ==
  ASSUME NEW L \in Nat
  PROVE  /\ \A n \in Nat : L * n \in Nat /\ L * (n + 1) = L * n + L /\ L * n <= L * (n + 1)
         /\ \A n \in Nat : n >= 1 => L <= L * n
         /\ \A m, n \in Nat : m <= n => L * m <= L * n
<1>1. ASSUME NEW n \in Nat PROVE L * n \in Nat /\ L * (n + 1) = L * n + L
  OBVIOUS
<1>2. ASSUME NEW m \in Nat, NEW n \in Nat, m <= n PROVE L * m <= L * n
  <2>1. PICK j \in Nat : n = m + j
    <3>1. n - m \in Nat /\ n = m + (n - m)
      BY <1>2
    <3> QED
      BY <3>1
  <2>2. L * n = L * m + L * j /\ L * j \in Nat /\ L * m \in Nat
    BY <2>1
  <2> QED
    BY <2>2
<1>3. L * 1 = L
  OBVIOUS
<1>4. \A n \in Nat : n >= 1 => L <= L * n
  <2> SUFFICES ASSUME NEW n \in Nat, n >= 1 PROVE L <= L * n
    OBVIOUS
  <2>1. L * 1 <= L * n
    BY <1>2
  <2> QED
    BY <1>3, <2>1
<1>5. \A n \in Nat : L * n <= L * (n + 1)
  <2> SUFFICES ASSUME NEW n \in Nat PROVE L * n <= L * (n + 1)
    OBVIOUS
  <2>1. n + 1 \in Nat /\ n <= n + 1
    OBVIOUS
  <2> QED
    BY <1>2, <2>1
<1> QED
  BY <1>1, <1>2, <1>4, <1>5

\* What remains when a metered event of c is inserted, or c gives up, or c is counted.
LEMMA MeterHolds ==
  ASSUME CallsInv, OneCaller, UnitsInv, NEW c \in Callers, call[c].pc # "idle", Moved(c), serial' = serial,
         NEW p, NEW period, MeterStep(c, p, period), getProjectUsageSummary(db', p, period) \in Nat,
         InCall(call'[c], "recordUsageEvent", {"budget", "insert"}) => call'[c].req.quantity <= UsageLimit
  PROVE  UnitsBound(getProjectUsageSummary(db', p, period), Meters(p, period)', call')
<1> DEFINE U == getProjectUsageSummary(db, p, period)
           V == getProjectUsageSummary(db', p, period)
           H == Meters(p, period)
           K == {x \in Callers : Metering(call'[x], p, period)}
           q(x) == call[x].req.quantity
           room(n) == UsageLimit * n
           h == Cardinality(H)
           k == Cardinality(K)
<1>1. Meters(p, period)' = K
  BY DEF Meters
<1>2. U \in Nat /\ V \in Nat
  BY UnitsType DEF UnitsInv
<1>3. H \in SUBSET Callers /\ \A x \in H : call[x].pc # "idle" /\ q(x) \in Nat /\ q(x) <= UsageLimit
  BY MeteredIsNat DEF Meters, Metering, InCall, UnitsInv, in
<1>4. K \ {c} = H \ {c}
  BY DEF Meters, Moved
<1>5. \A x \in K : call'[x].req = call[x].req /\ q(x) \in Nat /\ q(x) <= UsageLimit
  <2>1. \A x \in K \ {c} : call'[x] = call[x]
    BY DEF Moved
  <2>2. c \in K => call'[c].req = call[c].req /\ call[c].req.op = "recordUsageEvent"
    BY DEF Moved, Metering, InCall
  <2>3. c \in K => InCall(call'[c], "recordUsageEvent", {"budget", "insert"})
    BY DEF Metering
  <2>4. c \in K => q(c) \in Nat
    BY <2>2, MeteredIsNat DEF in
  <2> QED
    BY <1>3, <1>4, <2>1, <2>2, <2>3, <2>4
<1>6. IsFiniteSet(H) /\ h \in Nat /\ h <= Others + 1
  BY <1>3, FewHold
<1>7. IsFiniteSet(K) /\ k \in Nat /\ k <= Others + 1
  <2>1. K \in SUBSET Callers /\ \A x \in K \ {c} : call[x].pc # "idle"
    BY <1>3, <1>4
  <2> HIDE DEF K
  <2> QED
    BY <2>1, FewHold
<1>8. /\ (c \in H <=> Metering(call[c], p, period))
      /\ (c \in K <=> Metering(call'[c], p, period))
  BY DEF Meters
<1>9. U <= room(Others + 1) /\ (H # {} => \E x \in H : U + q(x) <= room(Others + 2 - h))
  BY DEF UnitsInv, UnitsBound
<1>10. \/ V = U /\ (c \in K => c \in H)
       \/ V = U /\ c \in K /\ U + q(c) <= UsageLimit
       \/ V = U + q(c) /\ c \in H /\ c \notin K
  BY <1>8 DEF MeterStep, in
<1>11. UsageLimit \in Nat /\ Others \in Nat
  BY Numbers
<1> HIDE DEF U, V, H, K, q
<1>12. c \in H /\ c \notin K => K = H \ {c} /\ h = k + 1
  <2> SUFFICES ASSUME c \in H, c \notin K PROVE K = H \ {c} /\ h = k + 1
    OBVIOUS
  <2>1. K = H \ {c}
    BY <1>4
  <2>2. Cardinality(H \ {c}) = Cardinality(H) - 1
    BY <1>6, FS_RemoveElement
  <2> QED
    BY <1>6, <2>1, <2>2
<1>13. (c \in H /\ c \in K) \/ (c \notin H /\ c \notin K) => K = H
  BY <1>4
<1> HIDE DEF h, k
<1>14. /\ \A n \in Nat : room(n) \in Nat /\ room(n + 1) = room(n) + UsageLimit /\ room(n) <= room(n + 1)
       /\ \A n \in Nat : n >= 1 => UsageLimit <= room(n)
       /\ \A m, n \in Nat : m <= n => room(m) <= room(n)
  BY <1>11, RoomsGrow
<1> HIDE DEF room
<1>15. V <= room(Others + 1) /\ (K # {} => \E x \in K : V + q(x) <= room(Others + 2 - k))
  <2>1. CASE V = U /\ (c \in K => c \in H)
    <3>1. CASE K = H
      BY <1>9, <2>1, <3>1 DEF h, k
    <3>2. CASE K # H
      <4>1. K = H \ {c} /\ h = k + 1 /\ c \in H
        BY <1>12, <1>13, <2>1, <3>2
      <4>2. PICK x \in H : U + q(x) <= room(Others + 2 - h)
        BY <1>9, <4>1
      <4>3. Others + 2 - h \in Nat /\ (Others + 2 - h) + 1 = Others + 2 - k
        BY <1>6, <1>7, <1>11, <4>1
      <4>4. room(Others + 2 - k) = room(Others + 2 - h) + UsageLimit /\ room(Others + 2 - h) \in Nat
        BY <1>14, <4>3
      <4>5. \A y \in K : V + q(y) <= room(Others + 2 - k)
        BY <1>2, <1>3, <1>5, <1>11, <2>1, <4>2, <4>4
      <4> QED
        BY <1>9, <2>1, <4>5
    <3> QED
      BY <3>1, <3>2
  <2>2. CASE V = U /\ c \in K /\ U + q(c) <= UsageLimit
    <3>1. Others + 2 - k \in Nat /\ Others + 2 - k >= 1
      BY <1>7, <1>11
    <3>2. UsageLimit <= room(Others + 2 - k) /\ room(Others + 2 - k) \in Nat
      BY <1>14, <3>1
    <3>3. V + q(c) <= room(Others + 2 - k)
      BY <1>2, <1>5, <1>11, <2>2, <3>2
    <3> QED
      BY <1>9, <2>2, <3>3
  <2>3. CASE V = U + q(c) /\ c \in H /\ c \notin K
    <3>1. K = H \ {c} /\ h = k + 1
      BY <1>12, <2>3
    <3>2. PICK w \in H : U + q(w) <= room(Others + 2 - h)
      BY <1>9, <2>3
    <3>3. Others + 2 - h \in Nat /\ (Others + 2 - h) + 1 = Others + 2 - k /\ Others + 1 \in Nat /\ Others + 2 - h <= Others + 1
      BY <1>6, <1>7, <1>11, <3>1
    <3>4. /\ room(Others + 2 - k) = room(Others + 2 - h) + UsageLimit /\ room(Others + 2 - h) \in Nat
          /\ room(Others + 2 - h) <= room(Others + 1) /\ room(Others + 1) \in Nat
      BY <1>14, <3>3
    <3>5. CASE w = c
      <4>1. V <= room(Others + 2 - h)
        BY <2>3, <3>2, <3>5
      <4>2. V <= room(Others + 1)
        BY <1>2, <3>4, <4>1
      <4>3. \A y \in K : V + q(y) <= room(Others + 2 - k)
        BY <1>2, <1>5, <1>11, <3>4, <4>1
      <4> QED
        BY <4>2, <4>3
    <3>6. CASE w # c
      <4>1. w \in K /\ q(w) \in Nat /\ q(c) \in Nat /\ q(c) <= UsageLimit
        BY <1>3, <2>3, <3>1, <3>6
      <4>2. V + q(w) <= room(Others + 2 - k)
        BY <1>2, <1>11, <2>3, <3>2, <3>4, <4>1
      <4>3. k >= 1
        BY <1>7, <4>1, FS_EmptySet DEF k
      <4>4. Others + 2 - k \in Nat /\ Others + 2 - k <= Others + 1
        BY <1>7, <1>11, <4>3
      <4>5. room(Others + 2 - k) <= room(Others + 1) /\ room(Others + 2 - k) \in Nat
        BY <1>14, <3>3, <4>4
      <4>6. V <= room(Others + 1)
        BY <1>2, <3>4, <4>1, <4>2, <4>5
      <4> QED
        BY <4>1, <4>2, <4>6
    <3> QED
      BY <3>5, <3>6
  <2> QED
    BY <1>10, <2>1, <2>2, <2>3
<1>16. Others' = Others
  BY DEF Others
<1>17. K # {} => \E x \in K : V + call'[x].req.quantity <= room(Others + 2 - k)
  BY <1>5, <1>15 DEF q
<1> QED
  BY <1>1, <1>15, <1>16, <1>17 DEF UnitsBound, U, V, K, k, room

\* A call that is idle or at its start has counted no units.
LEMMA StartMetersNothing ==
  ASSUME NEW k, k.pc \in {"idle", "start"}
  PROVE  ~InCall(k, "recordUsageEvent", {"budget", "insert"}) /\ \A p, period : ~Metering(k, p, period)
BY DEF Metering, InCall

\* A step that leaves the usage events alone, and counts none, keeps what is metered.
LEMMA MetersAsBefore ==
  ASSUME UnitsInv, NEW c \in Callers, db'.usage = db.usage,
         \A p, period : Metering(call'[c], p, period) => Metering(call[c], p, period)
  PROVE  Countable(db') /\ \A p, period : MeterStep(c, p, period)
<1>1. Countable(db')
  BY DEF UnitsInv, Countable
<1>2. \A p, period : getProjectUsageSummary(db', p, period) = getProjectUsageSummary(db, p, period)
  BY UnitsSame
<1> QED
  BY <1>1, <1>2 DEF MeterStep

\* recordUsageEvent() counts the units of its event, reads the budget, and inserts it.
LEMMA RecordMeters ==
  ASSUME CallsInv, UnitsInv, NEW c \in Callers, call[c].pc # "idle", recordUsageEvent(c)
  PROVE  /\ Countable(db') /\ \A p, period : MeterStep(c, p, period)
         /\ InCall(call'[c], "recordUsageEvent", {"budget", "insert"}) => call'[c].req.quantity <= UsageLimit
<1> DEFINE i == call[c].req
<1>0. /\ DOMAIN db = DOMAIN EmptyDb /\ "usage" \in DOMAIN db
      /\ i.op = "recordUsageEvent" /\ i.quantity \in Nat
  <2>1. in(c).op = "recordUsageEvent"
    BY DEF recordUsageEvent, At, in
  <2> QED
    BY <2>1, MeteredIsNat DEF CallsInv, EmptyDb, in
<1>1. CASE db' = db /\ call'[c].pc \in {"idle", "start", "quota", "raced"}
  <2>1. ~InCall(call'[c], "recordUsageEvent", {"budget", "insert"}) /\ \A p, period : ~Metering(call'[c], p, period)
    BY <1>1 DEF Metering, InCall
  <2> QED
    BY <1>1, <2>1, MetersAsBefore
<1>2. CASE At(c, "recordUsageEvent", "start")
  <2>1. IsResult(requireProject(i.project))
    BY RequireResult DEF requireProject
  <2>2. \/ \E out : Reply(c, out)
        \/ Check(c, requireProject(i.project), "quota", None)
    BY <1>2 DEF recordUsageEvent, At, in
  <2> QED
    BY <1>1, <2>1, <2>2, ReplyLands, CheckLands
<1>3. CASE At(c, "recordUsageEvent", "quota")
  <2> DEFINE r == enforceProjectUsageQuota(db, i)
  <2>1. Check(c, r, "budget", None)
    BY <1>3 DEF recordUsageEvent, At, in
  <2>2. IsResult(r) /\ (r.out = "ok" => getProjectUsageSummary(db, i.project, i.at) + i.quantity <= UsageLimit)
    BY DEF enforceProjectUsageQuota, Require, Ok, Fail, IsResult
  <2> HIDE DEF r
  <2>3. /\ db' = db
        /\ \/ call'[c].pc \in {"idle", "start"}
           \/ r.out = "ok" /\ call'[c].req = i /\ call'[c].pc = "budget"
    BY <2>1, <2>2, CheckLands
  <2>4. CASE r.out = "ok" /\ call'[c].req = i /\ call'[c].pc = "budget"
    <3>1. getProjectUsageSummary(db, i.project, i.at) + i.quantity <= UsageLimit
      BY <2>2, <2>4
    <3>2. i.quantity <= UsageLimit
      <4>1. getProjectUsageSummary(db, i.project, i.at) \in Nat
        BY UnitsType DEF UnitsInv
      <4> QED
        BY <1>0, <3>1, <4>1, Numbers
    <3>3. ASSUME NEW p, NEW period PROVE MeterStep(c, p, period)
      <4>1. getProjectUsageSummary(db', p, period) = getProjectUsageSummary(db, p, period)
        BY <2>3
      <4>2. CASE p = i.project /\ period = i.at
        <5>1. Metering(call'[c], p, period)
          BY <1>0, <2>4, <4>2 DEF Metering, InCall
        <5> QED
          BY <3>1, <4>1, <4>2, <5>1 DEF MeterStep, in
      <4>3. CASE ~(p = i.project /\ period = i.at)
        <5>1. ~Metering(call'[c], p, period)
          BY <2>4, <4>3 DEF Metering
        <5> QED
          BY <4>1, <5>1 DEF MeterStep
      <4> QED
        BY <4>2, <4>3
    <3>4. Countable(db')
      BY <2>3 DEF UnitsInv
    <3> QED
      BY <2>4, <3>2, <3>3, <3>4
  <2> QED
    BY <1>1, <2>3, <2>4
<1>4. CASE At(c, "recordUsageEvent", "budget")
  <2> DEFINE r == enforceProjectBillingBudget(db, i)
  <2>1. Check(c, r, "insert", None)
    BY <1>4 DEF recordUsageEvent, At, in
  <2>2. IsResult(r)
    BY RequireResult DEF enforceProjectBillingBudget
  <2> HIDE DEF r
  <2>3. db' = db /\ (call'[c].pc \in {"idle", "start"} \/ (call'[c].req = i /\ call'[c].pc = "insert"))
    BY <2>1, <2>2, CheckLands
  <2>4. CASE call'[c].req = i /\ call'[c].pc = "insert"
    <3>1. \A p, period : Metering(call'[c], p, period) => Metering(call[c], p, period)
      BY <1>4, <2>4 DEF Metering, InCall, At
    <3>2. i.quantity <= UsageLimit
      BY <1>4 DEF UnitsInv, InCall, At, in
    <3> QED
      BY <2>3, <2>4, <3>1, <3>2, MetersAsBefore
  <2> QED
    BY <1>1, <2>3, <2>4
<1>5. CASE At(c, "recordUsageEvent", "insert")
  <2> DEFINE row == [project |-> i.project, quantity |-> i.quantity, at |-> i.at]
             r == Pg!createUsageEvent(db, i)
  <2>1. IF r.out = "conflict" THEN Await(c, "raced", None) ELSE Finish(c, r)
    BY <1>5 DEF recordUsageEvent, At, in
  <2>2. row.project = i.project /\ row.quantity = i.quantity /\ row.at = i.at
    OBVIOUS
  <2>3. r = Pg!Insert(db, "usage", i.id, row)
    BY DEF Pg!createUsageEvent
  <2> HIDE DEF row
  <2>4. \/ r.db = db
        \/ /\ r.db.usage = [x \in DOMAIN db.usage \union {i.id} |-> IF x = i.id THEN row ELSE db.usage[x]]
           /\ i.id \notin DOMAIN db.usage
    BY <1>0, <2>3 DEF Pg!Insert, Pg!Ok, Pg!Fail, Pg!Put, Pg!Has
  <2> HIDE DEF r
  <2>5. \/ db' = db /\ call'[c].pc = "raced"
        \/ db' = r.db /\ call'[c].pc \in {"idle", "start"}
    BY <2>1, AwaitLands, FinishLands
  <2>6. CASE db' = db
    BY <1>1, <2>5, <2>6
  <2>7. CASE /\ db'.usage = [x \in DOMAIN db.usage \union {i.id} |-> IF x = i.id THEN row ELSE db.usage[x]]
             /\ i.id \notin DOMAIN db.usage
             /\ call'[c].pc \in {"idle", "start"}
    <3>1. Countable(db')
      <4>1. IsFiniteSet(DOMAIN db.usage \union {i.id})
        BY OneMore DEF UnitsInv, Countable
      <4> QED
        BY <1>0, <2>2, <2>7, <4>1 DEF UnitsInv, Countable
    <3>2. ASSUME NEW p, NEW period PROVE MeterStep(c, p, period)
      <4>1. getProjectUsageSummary(db', p, period) =
              getProjectUsageSummary(db, p, period) + (IF row.project = p /\ row.at = period THEN row.quantity ELSE 0)
        BY <1>0, <2>2, <2>7, UnitsAdded DEF UnitsInv
      <4>2. getProjectUsageSummary(db, p, period) \in Nat
        BY UnitsType DEF UnitsInv
      <4>3. ~Metering(call'[c], p, period)
        BY <2>7, StartMetersNothing
      <4>4. CASE i.project = p /\ i.at = period
        <5>1. Metering(call[c], p, period)
          BY <1>5, <4>4 DEF Metering, InCall, At
        <5>2. getProjectUsageSummary(db', p, period) = getProjectUsageSummary(db, p, period) + i.quantity
          BY <2>2, <4>1, <4>4
        <5> QED
          BY <4>3, <5>1, <5>2 DEF MeterStep, in
      <4>5. CASE ~(i.project = p /\ i.at = period)
        <5>1. getProjectUsageSummary(db', p, period) = getProjectUsageSummary(db, p, period)
          BY <2>2, <4>1, <4>2, <4>5
        <5> QED
          BY <4>3, <5>1 DEF MeterStep
      <4> QED
        BY <4>4, <4>5
    <3> QED
      BY <2>7, <3>1, <3>2, StartMetersNothing
  <2> QED
    BY <2>4, <2>5, <2>6, <2>7
<1>6. CASE At(c, "recordUsageEvent", "raced")
  <2>1. \E out : Reply(c, out)
    BY <1>6 DEF recordUsageEvent, At
  <2> QED
    BY <1>1, <2>1, ReplyLands
<1> QED
  BY <1>2, <1>3, <1>4, <1>5, <1>6 DEF recordUsageEvent

\* What a step must do to the units to keep their bound.
LEMMA UnitsKept ==
  ASSUME CallsInv, OneCaller, UnitsInv, NEW c \in Callers, call[c].pc # "idle", Moved(c), serial' = serial,
         Countable(db'), \A p, period : MeterStep(c, p, period),
         InCall(call'[c], "recordUsageEvent", {"budget", "insert"}) => call'[c].req.quantity <= UsageLimit
  PROVE  UnitsInv'
<1>1. ASSUME NEW p, NEW period
      PROVE  UnitsBound(getProjectUsageSummary(db', p, period), Meters(p, period)', call')
  <2>1. getProjectUsageSummary(db', p, period) \in Nat
    BY UnitsType
  <2> QED
    BY <2>1, MeterHolds
<1>2. ASSUME NEW x \in Callers, InCall(call'[x], "recordUsageEvent", {"budget", "insert"})
      PROVE  call'[x].req.quantity <= UsageLimit
  BY <1>2 DEF Moved, UnitsInv, in
<1>3. Others' = Others
  BY DEF Others
<1> QED
  BY <1>1, <1>2, <1>3 DEF UnitsInv, UnitsBound, in, Countable

\* Every step keeps the units and those that were counted within the bound.
LEMMA StepUnitsInv == ASSUME CallsInv, RowsInv, UnitsInv, NEW c \in Callers, Step(c) PROVE UnitsInv'
<1>0. Moved(c) /\ WritersOnly(c) /\ DOMAIN db = DOMAIN EmptyDb
  BY StepCalls, Writers DEF CallsInv
<1>1. serial' = serial /\ call[c].pc # "idle"
  BY <1>0, CallersApart DEF WritersOnly
<1>2. /\ Countable(db') /\ \A p, period : MeterStep(c, p, period)
      /\ InCall(call'[c], "recordUsageEvent", {"budget", "insert"}) => call'[c].req.quantity <= UsageLimit
  <2>1. CASE in(c).op = "recordUsageEvent"
    BY <1>0, <1>1, <2>1, StepsOfOps, RecordMeters
  <2>2. CASE in(c).op # "recordUsageEvent"
    <3>1. db'.usage = db.usage
      BY <1>0, <2>2 DEF WritersOnly
    <3>2. ~InCall(call'[c], "recordUsageEvent", {"budget", "insert"})
      BY <1>0, <2>2 DEF Moved, InCall, in
    <3> QED
      BY <3>1, <3>2, MetersAsBefore DEF Metering
  <2> QED
    BY <2>1, <2>2
<1> QED
  BY <1>0, <1>1, <1>2, UnitsKept DEF RowsInv

\* A process that dies leaves its count, and the client asks anew.
LEMMA RetryUnitsInv == ASSUME CallsInv, RowsInv, UnitsInv, NEW c \in Callers, Retry(c) PROVE UnitsInv'
<1>0. Moved(c) /\ call'[c].pc = "start" /\ call[c].pc # "idle" /\ serial' = serial /\ db' = db
  BY RetryCalls DEF Retry
<1>1. ~InCall(call'[c], "recordUsageEvent", {"budget", "insert"}) /\ \A p, period : ~Metering(call'[c], p, period)
  BY <1>0, StartMetersNothing
<1>2. Countable(db') /\ \A p, period : MeterStep(c, p, period)
  BY <1>0, <1>1, MetersAsBefore
<1> QED
  BY <1>0, <1>1, <1>2, UnitsKept DEF RowsInv

\* A workload starts within the units of its projects, with none counted.
LEMMA UnitsStart == ASSUME Init PROVE UnitsInv
<1>1. PICK w \in Workloads : CallsInit(w.db, w.calls)
  BY DEF Init
<1>2. WithinQuota(w.db) /\ w.calls \in [Callers -> Seq(Requests)]
  BY WorkloadsAssumption DEF SoundDb
<1>3. \A c \in Callers : call[c].pc \in {"idle", "start"}
  BY <1>1, <1>2, FirstCallStarts DEF CallsInit
<1>4. db = w.db
  BY <1>1 DEF CallsInit
<1>5. Countable(db)
  BY <1>2, <1>4 DEF WithinQuota, Countable
<1>6. \A p, period : Meters(p, period) = {}
  BY <1>3, StartMetersNothing DEF Meters
<1>7. ASSUME NEW p, NEW period PROVE getProjectUsageSummary(db, p, period) <= UsageLimit
  <2>1. CASE UsageOf(db.usage, p, period) = {}
    <3>1. getProjectUsageSummary(db, p, period) = 0
      BY <1>5, <2>1, UnitsType
    <3> QED
      BY <3>1, Numbers
  <2>2. CASE UsageOf(db.usage, p, period) # {}
    <3>1. PICK e \in DOMAIN db.usage : db.usage[e].project = p /\ db.usage[e].at = period
      BY <2>2 DEF UsageOf
    <3>2. getProjectUsageSummary(db, db.usage[e].project, db.usage[e].at) <= UsageLimit
      BY <1>2, <1>4 DEF WithinQuota
    <3> QED
      BY <3>1, <3>2
  <2> QED
    BY <2>1, <2>2
<1>8. UsageLimit <= UsageLimit * (Others + 1) /\ UsageLimit * (Others + 1) \in Nat
  <2>1. Others + 1 \in Nat /\ Others + 1 >= 1
    BY Numbers
  <2> QED
    BY <2>1, Numbers, RoomsGrow
<1>9. ASSUME NEW p, NEW period PROVE UnitsBound(getProjectUsageSummary(db, p, period), Meters(p, period), call)
  <2>1. getProjectUsageSummary(db, p, period) \in Nat
    BY <1>5, UnitsType
  <2>2. getProjectUsageSummary(db, p, period) <= UsageLimit * (Others + 1)
    BY <1>7, <1>8, <2>1, Numbers
  <2> QED
    BY <1>6, <2>2 DEF UnitsBound
<1> QED
  BY <1>3, <1>5, <1>9, StartMetersNothing DEF UnitsInv

-----------------------------------------------------------------------------
(* The theorems.                                                           *)

\* The rows and units that are stored, and those that calls in flight have counted, never
\* exceed what enforceProjectQuota() and enforceProjectUsageQuota() allow them together.
THEOREM QuotaInvariant == Spec => [](RowsInv /\ UnitsInv)
<1>1. Init => RowsInv /\ UnitsInv
  BY RowsStart, UnitsStart
<1>2. CallsInv /\ (RowsInv /\ UnitsInv) /\ [Next]_vars => (RowsInv /\ UnitsInv)'
  <2> SUFFICES ASSUME CallsInv, RowsInv, UnitsInv, [Next]_vars PROVE (RowsInv /\ UnitsInv)'
    OBVIOUS
  <2>1. ASSUME NEW c \in Callers, Step(c) PROVE (RowsInv /\ UnitsInv)'
    BY <2>1, StepRowsInv, StepUnitsInv
  <2>2. ASSUME NEW c \in Callers, Retry(c) PROVE (RowsInv /\ UnitsInv)'
    BY <2>2, RetryRowsInv, RetryUnitsInv
  <2>3. CASE UNCHANGED vars
    <3>1. UNCHANGED <<db, call, todo, answered, serial>>
      BY <2>3 DEF vars, callVars
    <3>2. RowsInv'
      <4>1. OneCaller' = OneCaller /\ Others' = Others
        BY <3>1 DEF OneCaller, Others
      <4>2. NoRestore' = NoRestore /\ Counted' = Counted
        BY <3>1 DEF NoRestore, Counted, AskedOps, Asked, InFlight, in
      <4>3. \A p, resource : RowsOf(db, p, resource)' = RowsOf(db, p, resource) /\ Holders(p, resource)' = Holders(p, resource)
        BY <3>1 DEF RowsOf, Holders
      <4>4. \A x : routeKey(in(x))' = routeKey(in(x))
        BY <3>1 DEF routeKey, in
      <4> QED
        BY <3>1, <4>1, <4>2, <4>3, <4>4 DEF RowsInv
    <3>3. UnitsInv'
      BY <3>1 DEF UnitsInv, Countable, UnitsBound, Meters, Metering, Others, in
    <3> QED
      BY <3>2, <3>3
  <2> QED
    BY <2>1, <2>2, <2>3 DEF Next
<1>3. IInv => CallsInv
  BY DEF IInv
<1> QED
  BY <1>1, <1>2, <1>3, ControlPlaneInvariant, PTL DEF Spec

\* However many creations and usage events of a project are in flight, its rows and
\* its metered units exceed their quotas by at most what the other calls may add
\* after they were counted, for any number of calls, workload and limit: the count
\* and the insert of createWithinQuota(), pointRoute() and recordUsageEvent() are
\* two statements, and nothing makes a call between them wait.
THEOREM QuotaOvershoot == Spec => []QuotaOvershootIsBounded
<1>1. RowsInv /\ UnitsInv => QuotaOvershootIsBounded
  <2>1. UnitsInv => UsageWithinQuota
    BY DEF UnitsInv, UnitsBound, UsageWithinQuota
  <2> QED
    BY <2>1, RowsBounded DEF QuotaOvershootIsBounded
<1> QED
  BY <1>1, QuotaInvariant, PTL

-----------------------------------------------------------------------------
(* The owners of a project, whose requests are served one after the other. *)

MemberWriters == {"addProjectMembership", "updateProjectMembershipRole", "removeProjectMembership",
                  "acceptProjectMembershipInvite", "createBetaOnboarding"}

MemberRow == {"project", "user", "role", "invite"}
MembersAreRows(d) == \A k \in DOMAIN d.memberships : DOMAIN d.memberships[k] = MemberRow

\* A project of b that has an accepted owner in d has one in e.
OwnersStay(b, d, e) == \A p \in DOMAIN b.projects : Owners(d, p) # {} => Owners(e, p) # {}

\* The project has an accepted owner besides the member of the request i, if the member is one.
Spared(d, i) ==
  <<i.project, i.user>> \in Owners(d, i.project) => \E k \in Owners(d, i.project) : k # <<i.project, i.user>>

\* What a call k relies on after its awaits: b is the database at the last answer, d what k has made of it.
MemberCall(b, d, k) ==
  /\ k.req.op \notin MemberWriters \/ k.pc \in {"start", "owners", "write", "user", "project", "member"} =>
       d.memberships = b.memberships
  /\ ~InCall(k, "addProjectMembership", {"audit"}) => OwnersStay(b, b, d)
  /\ InCall(k, "createBetaOnboarding", {"start", "user", "project"}) => d.projects = b.projects
  /\ InCall(k, "createBetaOnboarding", {"member"}) => k.req.project \notin DOMAIN b.projects
  /\ InCall(k, "updateProjectMembershipRole", {"owners"}) \/ InCall(k, "removeProjectMembership", {"owners"}) =>
       k.loc = d.memberships[<<k.req.project, k.req.user>>]
  /\ InCall(k, "updateProjectMembershipRole", {"write"}) => k.req.role = "owner" \/ Spared(d, k.req)
  /\ InCall(k, "removeProjectMembership", {"write"}) => Spared(d, k.req)

OwnersInv ==
  /\ OneCaller
  /\ serial => MembersAreRows(db) /\ \A c \in Callers : call[c].pc # "idle" => MemberCall(base, db, call[c])

\* The owners are read off the table of memberships.
LEMMA OwnersOfTable ==
  ASSUME NEW d, NEW e, e.memberships = d.memberships
  PROVE  /\ \A p : Owners(e, p) = Owners(d, p)
         /\ MembersAreRows(d) => MembersAreRows(e)
         /\ \A b : OwnersStay(b, d, e)
         /\ \A i : Spared(d, i) => Spared(e, i)
<1>1. \A p : Owners(e, p) = Owners(d, p)
  BY DEF Owners
<1>2. MembersAreRows(d) => MembersAreRows(e)
  BY DEF MembersAreRows
<1>3. \A b : OwnersStay(b, d, e)
  BY <1>1 DEF OwnersStay
<1>4. \A i : Spared(d, i) => Spared(e, i)
  BY <1>1 DEF Spared
<1> QED
  BY <1>1, <1>2, <1>3, <1>4

\* Inviting a member, again or first, may only touch the owners of its own project.
LEMMA MemberInvited ==
  ASSUME NEW d, DOMAIN d = DOMAIN EmptyDb, MembersAreRows(d), NEW p, NEW u, NEW role
  PROVE  LET r == Pg!createProjectMembership(d, p, u, role) IN
         /\ MembersAreRows(r.db)
         /\ \A b : p \notin DOMAIN b.projects => OwnersStay(b, d, r.db)
         /\ r.out # "ok" => r.db = d
<1> DEFINE row == [project |-> p, user |-> u, role |-> role, invite |-> "pending"]
           r == Pg!createProjectMembership(d, p, u, role)
<1>1. r.db = d \/ (r.out = "ok" /\ r.db = [d EXCEPT !["memberships"] = Put(d.memberships, <<p, u>>, row)])
  BY DEF Pg!createProjectMembership, Pg!Upsert, Pg!Ok, Pg!Fail, Pg!Put, Put
<1>2. DOMAIN row = MemberRow
  BY DEF MemberRow
<1> HIDE DEF row, r
<1>3. CASE r.db = d
  BY <1>3, OwnersOfTable DEF r
<1>4. CASE r.out = "ok" /\ r.db = [d EXCEPT !["memberships"] = Put(d.memberships, <<p, u>>, row)]
  <2>1. r.db.memberships = Put(d.memberships, <<p, u>>, row)
    BY <1>4 DEF EmptyDb
  <2>2. /\ DOMAIN r.db.memberships = DOMAIN d.memberships \union {<<p, u>>}
        /\ r.db.memberships[<<p, u>>] = row
        /\ \A k \in DOMAIN d.memberships \ {<<p, u>>} : r.db.memberships[k] = d.memberships[k]
    BY <2>1 DEF Put
  <2>3. MembersAreRows(r.db)
    BY <1>2, <2>2 DEF MembersAreRows
  <2>4. ASSUME NEW q, q # p, NEW k \in Owners(d, q) PROVE k \in Owners(r.db, q)
    <3>1. k \in DOMAIN d.memberships /\ k[1] = q
      BY <2>4 DEF Owners
    <3>2. k # <<p, u>>
      BY <2>4, <3>1
    <3> QED
      BY <2>2, <2>4, <3>1, <3>2 DEF Owners
  <2>5. \A b : p \notin DOMAIN b.projects => OwnersStay(b, d, r.db)
    BY <2>4 DEF OwnersStay
  <2> QED
    BY <1>4, <2>3, <2>5 DEF r
<1> QED
  BY <1>1, <1>3, <1>4

\* A column of a membership is set: the other memberships stay, and so does what the column does not change.
LEMMA MemberColumn ==
  ASSUME NEW d, DOMAIN d = DOMAIN EmptyDb, MembersAreRows(d), NEW p, NEW u, NEW column \in {"role", "invite"}, NEW v
  PROVE  LET r == Pg!SetColumn(d, "memberships", <<p, u>>, column, v) IN
         \/ r.db = d
         \/ /\ MembersAreRows(r.db)
            /\ <<p, u>> \in DOMAIN d.memberships
            /\ DOMAIN r.db.memberships = DOMAIN d.memberships
            /\ \A k \in DOMAIN d.memberships \ {<<p, u>>} : r.db.memberships[k] = d.memberships[k]
            /\ r.db.memberships[<<p, u>>][column] = v
            /\ \A other \in {"role", "invite"} \ {column} :
                 r.db.memberships[<<p, u>>][other] = d.memberships[<<p, u>>][other]
<1> DEFINE r == Pg!SetColumn(d, "memberships", <<p, u>>, column, v)
           k0 == <<p, u>>
<1>1. r.db = d \/ (k0 \in DOMAIN d.memberships /\ r.db = [d EXCEPT !["memberships"][k0][column] = v])
  BY DEF Pg!SetColumn, Pg!Ok, Pg!Fail, Pg!Has
<1> HIDE DEF r, k0
<1>2. ASSUME k0 \in DOMAIN d.memberships, r.db = [d EXCEPT !["memberships"][k0][column] = v]
      PROVE  /\ MembersAreRows(r.db)
             /\ DOMAIN r.db.memberships = DOMAIN d.memberships
             /\ \A k \in DOMAIN d.memberships \ {k0} : r.db.memberships[k] = d.memberships[k]
             /\ r.db.memberships[k0][column] = v
             /\ \A other \in {"role", "invite"} \ {column} : r.db.memberships[k0][other] = d.memberships[k0][other]
  <2>1. r.db.memberships = [d.memberships EXCEPT ![k0] = [d.memberships[k0] EXCEPT ![column] = v]]
    BY <1>2 DEF EmptyDb
  <2>2. DOMAIN d.memberships[k0] = MemberRow
    BY <1>2 DEF MembersAreRows
  <2>3. r.db.memberships[k0] = [d.memberships[k0] EXCEPT ![column] = v]
    BY <1>2, <2>1
  <2>4. DOMAIN r.db.memberships[k0] = MemberRow
    BY <2>2, <2>3
  <2> QED
    BY <1>2, <2>1, <2>2, <2>3, <2>4 DEF MembersAreRows, MemberRow
<1> QED
  BY <1>1, <1>2 DEF r, k0

\* Accepting an invitation takes no owner away.
LEMMA MemberAccepts ==
  ASSUME NEW d, DOMAIN d = DOMAIN EmptyDb, MembersAreRows(d), NEW p, NEW u
  PROVE  LET e == Pg!acceptProjectMembershipInvite(d, p, u).db IN MembersAreRows(e) /\ \A b : OwnersStay(b, d, e)
<1> DEFINE e == Pg!acceptProjectMembershipInvite(d, p, u).db
<1>1. e = Pg!SetColumn(d, "memberships", <<p, u>>, "invite", "accepted").db
  BY DEF Pg!acceptProjectMembershipInvite
<1>2. \/ e = d
      \/ /\ MembersAreRows(e) /\ DOMAIN e.memberships = DOMAIN d.memberships
         /\ \A k \in DOMAIN d.memberships \ {<<p, u>>} : e.memberships[k] = d.memberships[k]
         /\ e.memberships[<<p, u>>].invite = "accepted"
         /\ e.memberships[<<p, u>>].role = d.memberships[<<p, u>>].role
  BY <1>1, MemberColumn
<1> HIDE DEF e
<1>3. \A q : Owners(d, q) \subseteq Owners(e, q)
  BY <1>2 DEF Owners
<1>4. MembersAreRows(e)
  BY <1>2
<1> QED
  BY <1>3, <1>4 DEF OwnersStay, e

\* A role is changed to owner, or another accepted owner was found, or the member was none.
LEMMA MemberChanges ==
  ASSUME NEW d, DOMAIN d = DOMAIN EmptyDb, MembersAreRows(d), NEW i, i.role = "owner" \/ Spared(d, i)
  PROVE  LET e == Pg!updateProjectMembershipRole(d, i.project, i.user, i.role).db IN
         MembersAreRows(e) /\ \A b : OwnersStay(b, d, e)
<1> DEFINE e == Pg!updateProjectMembershipRole(d, i.project, i.user, i.role).db
           k0 == <<i.project, i.user>>
<1>1. e = Pg!SetColumn(d, "memberships", <<i.project, i.user>>, "role", i.role).db
  BY DEF Pg!updateProjectMembershipRole
<1>2. \/ e = d
      \/ /\ MembersAreRows(e) /\ DOMAIN e.memberships = DOMAIN d.memberships
         /\ \A k \in DOMAIN d.memberships \ {<<i.project, i.user>>} : e.memberships[k] = d.memberships[k]
         /\ e.memberships[<<i.project, i.user>>].role = i.role
         /\ e.memberships[<<i.project, i.user>>].invite = d.memberships[<<i.project, i.user>>].invite
  BY <1>1, MemberColumn
<1> HIDE DEF e
<1>3. \A q : Owners(d, q) \ {k0} \subseteq Owners(e, q)
  BY <1>2 DEF Owners
<1>4. i.role = "owner" => \A q : Owners(d, q) \subseteq Owners(e, q)
  BY <1>2 DEF Owners
<1>5. \A q : k0 \in Owners(d, q) => q = i.project
  BY DEF Owners
<1>6. ASSUME NEW q, Owners(d, q) # {} PROVE Owners(e, q) # {}
  BY <1>3, <1>4, <1>5, <1>6 DEF Spared
<1> QED
  BY <1>2, <1>6 DEF OwnersStay, e

\* A member is removed that is no accepted owner, or another one was found.
LEMMA MemberLeaves ==
  ASSUME NEW d, DOMAIN d = DOMAIN EmptyDb, MembersAreRows(d), NEW i, Spared(d, i)
  PROVE  LET e == Pg!deleteProjectMembership(d, i.project, i.user).db IN
         MembersAreRows(e) /\ \A b : OwnersStay(b, d, e)
<1> DEFINE e == Pg!deleteProjectMembership(d, i.project, i.user).db
           k0 == <<i.project, i.user>>
<1>1. e = d \/ e.memberships = [k \in DOMAIN d.memberships \ {k0} |-> d.memberships[k]]
  BY DEF Pg!deleteProjectMembership, Pg!Delete, Pg!Ok, Pg!Fail, Pg!Drop, EmptyDb
<1> HIDE DEF e
<1>2. MembersAreRows(e)
  BY <1>1 DEF MembersAreRows
<1>3. \A q : Owners(d, q) \ {k0} \subseteq Owners(e, q)
  BY <1>1 DEF Owners
<1>4. \A q : k0 \in Owners(d, q) => q = i.project
  BY DEF Owners
<1>5. ASSUME NEW q, Owners(d, q) # {} PROVE Owners(e, q) # {}
  BY <1>3, <1>4, <1>5 DEF Spared
<1> QED
  BY <1>2, <1>5 DEF OwnersStay, e

\* Where a step of c leaves the memberships, the owners and the call.
MemberLands(c) ==
  /\ MembersAreRows(db')
  /\ \/ At(c, "addProjectMembership", "audit")
     \/ InCall(call'[c], "addProjectMembership", {"audit"})
     \/ OwnersStay(base, base, db')
  /\ Settles(c) \/ (base' = base /\ MemberCall(base, db', call'[c]))

\* What a call of a serial workload relies on before its step.
LEMMA MemberCalls ==
  ASSUME CallsInv, OwnersInv, serial, NEW c \in Callers, call[c].pc # "idle"
  PROVE  DOMAIN db = DOMAIN EmptyDb /\ MembersAreRows(db) /\ MemberCall(base, db, call[c])
BY DEF CallsInv, OwnersInv

\* The owners that are left by one statement are left by two.
LEMMA OwnersStayTwice ==
  ASSUME NEW b, NEW d, NEW e, OwnersStay(b, b, d), OwnersStay(b, d, e) PROVE OwnersStay(b, b, e)
BY DEF OwnersStay

\* An audit event touches no membership.
LEMMA AuditSpares ==
  ASSUME DOMAIN db = DOMAIN EmptyDb, NEW action, NEW target, NEW org, NEW project
  PROVE  recordCustomerAuditEvent(db, action, target, org, project).db.memberships = db.memberships
BY AuditWrites DEF Writes, Touches, EmptyDb

\* addProjectMembership(): the one operation that may take an acceptance back.
LEMMA addProjectMembershipLands ==
  ASSUME CallsInv, OwnersInv, serial, NEW c \in Callers, call[c].pc # "idle", addProjectMembership(c)
  PROVE  MemberLands(c)
<1> DEFINE i == call[c].req
<1>0. DOMAIN db = DOMAIN EmptyDb /\ MembersAreRows(db) /\ MemberCall(base, db, call[c])
  BY MemberCalls
<1>1. CASE At(c, "addProjectMembership", "start")
  <2>1. PICK r : IsResult(r) /\ Check(c, r, "write", None)
    BY <1>1 DEF addProjectMembership, At, requireProjectAndUser, requireProject, requireUser, Then, Require, Ok, Fail, IsResult
  <2>2. db' = db /\ (Settles(c) \/ (base' = base /\ Goes(c, "write", None)))
    BY <2>1, CheckSettles
  <2>3. OwnersStay(base, base, db) /\ db.memberships = base.memberships
    BY <1>0, <1>1 DEF MemberCall, InCall, At
  <2> QED
    BY <1>0, <1>1, <2>2, <2>3 DEF MemberLands, Goes, MemberCall, InCall, At
<1>2. CASE At(c, "addProjectMembership", "write")
  <2> DEFINE r == Pg!createProjectMembership(db, i.project, i.user, i.role)
  <2>1. Write(c, r, "audit", None)
    BY <1>2 DEF addProjectMembership, At, in
  <2>2. MembersAreRows(r.db) /\ (r.out # "ok" => r.db = db)
    BY <1>0, MemberInvited
  <2> HIDE DEF r
  <2>3. OwnersStay(base, base, db)
    BY <1>0, <1>2 DEF MemberCall, InCall, At
  <2>4. CASE r.out = "ok"
    <3>1. db' = r.db /\ base' = base /\ Goes(c, "audit", None)
      BY <2>1, <2>4, WriteSettles
    <3> QED
      BY <1>2, <2>2, <3>1 DEF MemberLands, Goes, MemberCall, InCall, At, MemberWriters
  <2>5. CASE r.out # "ok"
    <3>1. db' = db /\ Settles(c)
      BY <2>1, <2>2, <2>5, WriteSettles
    <3> QED
      BY <1>0, <2>3, <3>1 DEF MemberLands
  <2> QED
    BY <2>4, <2>5
<1>3. CASE At(c, "addProjectMembership", "audit")
  <2>1. db'.memberships = db.memberships /\ Settles(c)
    BY <1>0, <1>3, FinishSettles, AuditSpares DEF addProjectMembership, auditMember, At
  <2> QED
    BY <1>0, <1>3, <2>1, OwnersOfTable DEF MemberLands
<1> QED
  BY <1>1, <1>2, <1>3 DEF addProjectMembership

\* What assertProjectKeepsOwner() finds: another accepted owner, unless the member is none itself.
LEMMA OwnerKept ==
  ASSUME NEW i, assertProjectKeepsOwner(i.project, i.user, db.memberships[<<i.project, i.user>>]).out = "ok"
  PROVE  Spared(db, i)
<1> DEFINE row == db.memberships[<<i.project, i.user>>]
           others == {k \in DOMAIN db.memberships :
                        k[1] = i.project /\ k[2] # i.user /\ db.memberships[k].role = "owner"}
<1>1. \/ row.role # "owner"
      \/ row.invite # "accepted"
      \/ \E k \in others : db.memberships[k].invite = "accepted"
  BY DEF assertProjectKeepsOwner, Require, Ok, Fail
<1>2. <<i.project, i.user>> \in Owners(db, i.project) => row.role = "owner" /\ row.invite = "accepted"
  BY DEF Owners
<1>3. \A k \in others : db.memberships[k].invite = "accepted" => k \in Owners(db, i.project) /\ k # <<i.project, i.user>>
  BY DEF Owners
<1> QED
  BY <1>1, <1>2, <1>3 DEF Spared

\* updateProjectMembershipRole(): between the listing of the owners and the UPDATE no other request runs.
LEMMA updateProjectMembershipRoleLands ==
  ASSUME CallsInv, OwnersInv, serial, NEW c \in Callers, call[c].pc # "idle", updateProjectMembershipRole(c)
  PROVE  MemberLands(c)
<1> DEFINE i == call[c].req
<1>0. DOMAIN db = DOMAIN EmptyDb /\ MembersAreRows(db) /\ MemberCall(base, db, call[c])
  BY MemberCalls
<1>1. CASE At(c, "updateProjectMembershipRole", "start")
  <2>1. PICK r : IsResult(r) /\ (r.out = "ok" => Has(db.memberships, <<i.project, i.user>>))
                 /\ Check(c, r, "owners", currentMembership(i))
    BY <1>1 DEF updateProjectMembershipRole, At, in, requireProjectAndUser, requireProject, requireUser,
                requireProjectMembership, Then, Require, Ok, Fail, IsResult
  <2>2. db' = db /\ (Settles(c) \/ (base' = base /\ Goes(c, "owners", currentMembership(i)) /\ r.out = "ok"))
    BY <2>1, CheckSettles
  <2>3. r.out = "ok" => currentMembership(i) = db.memberships[<<i.project, i.user>>]
    BY <2>1 DEF currentMembership
  <2>4. OwnersStay(base, base, db) /\ db.memberships = base.memberships
    BY <1>0, <1>1 DEF MemberCall, InCall, At
  <2> QED
    BY <1>0, <1>1, <2>2, <2>3, <2>4 DEF MemberLands, Goes, MemberCall, InCall, At
<1>2. CASE At(c, "updateProjectMembershipRole", "owners")
  <2> DEFINE r == IF i.role = "owner" THEN Ok(db) ELSE assertProjectKeepsOwner(i.project, i.user, loc(c))
  <2>1. Check(c, r, "write", None) /\ IsResult(r)
    BY <1>2 DEF updateProjectMembershipRole, At, in, assertProjectKeepsOwner, Require, Ok, Fail, IsResult
  <2>2. loc(c) = db.memberships[<<i.project, i.user>>]
    BY <1>0, <1>2 DEF MemberCall, InCall, At, loc
  <2>3. r.out = "ok" => i.role = "owner" \/ Spared(db, i)
    BY <2>2, OwnerKept
  <2> HIDE DEF r
  <2>4. db' = db /\ (Settles(c) \/ (base' = base /\ Goes(c, "write", None) /\ r.out = "ok"))
    BY <2>1, CheckSettles
  <2>5. OwnersStay(base, base, db) /\ db.memberships = base.memberships
    BY <1>0, <1>2 DEF MemberCall, InCall, At
  <2> QED
    BY <1>0, <1>2, <2>3, <2>4, <2>5 DEF MemberLands, Goes, MemberCall, InCall, At
<1>3. CASE At(c, "updateProjectMembershipRole", "write")
  <2> DEFINE r == Pg!updateProjectMembershipRole(db, i.project, i.user, i.role)
  <2>1. Write(c, r, "audit", None)
    BY <1>3 DEF updateProjectMembershipRole, At, in
  <2>2. (i.role = "owner" \/ Spared(db, i)) /\ OwnersStay(base, base, db)
    BY <1>0, <1>3 DEF MemberCall, InCall, At
  <2>3. MembersAreRows(r.db) /\ OwnersStay(base, db, r.db)
    BY <1>0, <2>2, MemberChanges
  <2> HIDE DEF r
  <2>4. db' = r.db /\ (Settles(c) \/ (base' = base /\ Goes(c, "audit", None)))
    BY <2>1, WriteSettles
  <2>5. OwnersStay(base, base, db')
    BY <2>2, <2>3, <2>4, OwnersStayTwice
  <2> QED
    BY <1>3, <2>3, <2>4, <2>5 DEF MemberLands, Goes, MemberCall, InCall, At, MemberWriters
<1>4. CASE At(c, "updateProjectMembershipRole", "audit")
  <2>1. db'.memberships = db.memberships /\ Settles(c)
    BY <1>0, <1>4, FinishSettles, AuditSpares DEF updateProjectMembershipRole, auditMember, At
  <2>2. OwnersStay(base, base, db)
    BY <1>0, <1>4 DEF MemberCall, InCall, At
  <2>3. MembersAreRows(db') /\ OwnersStay(base, base, db')
    BY <1>0, <2>1, <2>2, OwnersOfTable, OwnersStayTwice
  <2> QED
    BY <2>1, <2>3 DEF MemberLands
<1> QED
  BY <1>1, <1>2, <1>3, <1>4 DEF updateProjectMembershipRole

\* removeProjectMembership(): the same check, then the DELETE.
LEMMA removeProjectMembershipLands ==
  ASSUME CallsInv, OwnersInv, serial, NEW c \in Callers, call[c].pc # "idle", removeProjectMembership(c)
  PROVE  MemberLands(c)
<1> DEFINE i == call[c].req
<1>0. DOMAIN db = DOMAIN EmptyDb /\ MembersAreRows(db) /\ MemberCall(base, db, call[c])
  BY MemberCalls
<1>1. CASE At(c, "removeProjectMembership", "start")
  <2>1. PICK r : IsResult(r) /\ (r.out = "ok" => Has(db.memberships, <<i.project, i.user>>))
                 /\ Check(c, r, "owners", currentMembership(i))
    BY <1>1 DEF removeProjectMembership, At, in, requireProjectAndUser, requireProject, requireUser,
                requireProjectMembership, Then, Require, Ok, Fail, IsResult
  <2>2. db' = db /\ (Settles(c) \/ (base' = base /\ Goes(c, "owners", currentMembership(i)) /\ r.out = "ok"))
    BY <2>1, CheckSettles
  <2>3. r.out = "ok" => currentMembership(i) = db.memberships[<<i.project, i.user>>]
    BY <2>1 DEF currentMembership
  <2>4. OwnersStay(base, base, db) /\ db.memberships = base.memberships
    BY <1>0, <1>1 DEF MemberCall, InCall, At
  <2> QED
    BY <1>0, <1>1, <2>2, <2>3, <2>4 DEF MemberLands, Goes, MemberCall, InCall, At
<1>2. CASE At(c, "removeProjectMembership", "owners")
  <2> DEFINE r == assertProjectKeepsOwner(i.project, i.user, loc(c))
  <2>1. Check(c, r, "write", None) /\ IsResult(r)
    BY <1>2 DEF removeProjectMembership, At, in, assertProjectKeepsOwner, Require, Ok, Fail, IsResult
  <2>2. loc(c) = db.memberships[<<i.project, i.user>>]
    BY <1>0, <1>2 DEF MemberCall, InCall, At, loc
  <2>3. r.out = "ok" => Spared(db, i)
    BY <2>2, OwnerKept
  <2> HIDE DEF r
  <2>4. db' = db /\ (Settles(c) \/ (base' = base /\ Goes(c, "write", None) /\ r.out = "ok"))
    BY <2>1, CheckSettles
  <2>5. OwnersStay(base, base, db) /\ db.memberships = base.memberships
    BY <1>0, <1>2 DEF MemberCall, InCall, At
  <2> QED
    BY <1>0, <1>2, <2>3, <2>4, <2>5 DEF MemberLands, Goes, MemberCall, InCall, At
<1>3. CASE At(c, "removeProjectMembership", "write")
  <2> DEFINE r == Pg!deleteProjectMembership(db, i.project, i.user)
  <2>1. Write(c, r, "audit", None)
    BY <1>3 DEF removeProjectMembership, At, in
  <2>2. Spared(db, i) /\ OwnersStay(base, base, db)
    BY <1>0, <1>3 DEF MemberCall, InCall, At
  <2>3. MembersAreRows(r.db) /\ OwnersStay(base, db, r.db)
    BY <1>0, <2>2, MemberLeaves
  <2> HIDE DEF r
  <2>4. db' = r.db /\ (Settles(c) \/ (base' = base /\ Goes(c, "audit", None)))
    BY <2>1, WriteSettles
  <2>5. OwnersStay(base, base, db')
    BY <2>2, <2>3, <2>4, OwnersStayTwice
  <2> QED
    BY <1>3, <2>3, <2>4, <2>5 DEF MemberLands, Goes, MemberCall, InCall, At, MemberWriters
<1>4. CASE At(c, "removeProjectMembership", "audit")
  <2>1. db'.memberships = db.memberships /\ Settles(c)
    BY <1>0, <1>4, FinishSettles, AuditSpares DEF removeProjectMembership, auditMember, At
  <2>2. OwnersStay(base, base, db)
    BY <1>0, <1>4 DEF MemberCall, InCall, At
  <2>3. MembersAreRows(db') /\ OwnersStay(base, base, db')
    BY <1>0, <2>1, <2>2, OwnersOfTable, OwnersStayTwice
  <2> QED
    BY <2>1, <2>3 DEF MemberLands
<1> QED
  BY <1>1, <1>2, <1>3, <1>4 DEF removeProjectMembership

\* acceptProjectMembershipInvite() makes members owners at most.
LEMMA acceptProjectMembershipInviteLands ==
  ASSUME CallsInv, OwnersInv, serial, NEW c \in Callers, call[c].pc # "idle", acceptProjectMembershipInvite(c)
  PROVE  MemberLands(c)
<1> DEFINE i == call[c].req
<1>0. DOMAIN db = DOMAIN EmptyDb /\ MembersAreRows(db) /\ MemberCall(base, db, call[c])
  BY MemberCalls
<1>1. CASE At(c, "acceptProjectMembershipInvite", "start")
  <2>1. PICK r : IsResult(r) /\ Check(c, r, "write", None)
    BY <1>1 DEF acceptProjectMembershipInvite, At, requireProjectAndUser, requireProject, requireUser,
                Then, Require, Ok, Fail, IsResult
  <2>2. db' = db /\ (Settles(c) \/ (base' = base /\ Goes(c, "write", None)))
    BY <2>1, CheckSettles
  <2>3. OwnersStay(base, base, db) /\ db.memberships = base.memberships
    BY <1>0, <1>1 DEF MemberCall, InCall, At
  <2> QED
    BY <1>0, <1>1, <2>2, <2>3 DEF MemberLands, Goes, MemberCall, InCall, At
<1>2. CASE At(c, "acceptProjectMembershipInvite", "write")
  <2> DEFINE r == Pg!acceptProjectMembershipInvite(db, i.project, i.user)
  <2>1. Write(c, r, "audit", None)
    BY <1>2 DEF acceptProjectMembershipInvite, At, in
  <2>2. OwnersStay(base, base, db)
    BY <1>0, <1>2 DEF MemberCall, InCall, At
  <2>3. MembersAreRows(r.db) /\ OwnersStay(base, db, r.db)
    BY <1>0, MemberAccepts
  <2> HIDE DEF r
  <2>4. db' = r.db /\ (Settles(c) \/ (base' = base /\ Goes(c, "audit", None)))
    BY <2>1, WriteSettles
  <2>5. OwnersStay(base, base, db')
    BY <2>2, <2>3, <2>4, OwnersStayTwice
  <2> QED
    BY <1>2, <2>3, <2>4, <2>5 DEF MemberLands, Goes, MemberCall, InCall, At, MemberWriters
<1>3. CASE At(c, "acceptProjectMembershipInvite", "audit")
  <2>1. db'.memberships = db.memberships /\ Settles(c)
    BY <1>0, <1>3, FinishSettles, AuditSpares DEF acceptProjectMembershipInvite, auditMember, At
  <2>2. OwnersStay(base, base, db)
    BY <1>0, <1>3 DEF MemberCall, InCall, At
  <2>3. MembersAreRows(db') /\ OwnersStay(base, base, db')
    BY <1>0, <2>1, <2>2, OwnersOfTable, OwnersStayTwice
  <2> QED
    BY <2>1, <2>3 DEF MemberLands
<1> QED
  BY <1>1, <1>2, <1>3 DEF acceptProjectMembershipInvite

\* createBetaOnboarding() invites an owner to a project that it has just made, and that had none.
LEMMA createBetaOnboardingLands ==
  ASSUME CallsInv, OwnersInv, serial, NEW c \in Callers, call[c].pc # "idle", createBetaOnboarding(c)
  PROVE  MemberLands(c)
<1> DEFINE i == call[c].req
<1>0. /\ DOMAIN db = DOMAIN EmptyDb /\ MembersAreRows(db) /\ MemberCall(base, db, call[c])
      /\ i.op = "createBetaOnboarding"
  BY MemberCalls DEF createBetaOnboarding, At
<1>1. OwnersStay(base, base, db)
  BY <1>0 DEF MemberCall, InCall
<1>2. ASSUME db'.memberships = db.memberships PROVE MembersAreRows(db') /\ OwnersStay(base, base, db')
  BY <1>0, <1>1, <1>2, OwnersOfTable, OwnersStayTwice
<1>3. CASE call[c].pc = "start" \/ call[c].pc = "user"
  <2>1. PICK r, pc : /\ Write(c, r, pc, None) /\ pc \in {"user", "project"}
                     /\ Writes(db, r, {"organizations"}) \/ Writes(db, r, {"users"})
    BY <1>0, <1>3, InsertWrites DEF createBetaOnboarding, At, Pg!createOrganization, Pg!createUser
  <2>2. db' = r.db /\ (Settles(c) \/ (base' = base /\ Goes(c, pc, None)))
    BY <2>1, WriteSettles
  <2>3. db'.memberships = db.memberships /\ db'.projects = db.projects
    BY <1>0, <2>1, <2>2 DEF Writes, Touches, EmptyDb
  <2>4. db.memberships = base.memberships /\ db.projects = base.projects
    BY <1>0, <1>3 DEF MemberCall, InCall
  <2> QED
    BY <1>0, <1>2, <2>1, <2>2, <2>3, <2>4 DEF MemberLands, Goes, MemberCall, InCall
<1>4. CASE call[c].pc = "project"
  <2> DEFINE row == [id |-> i.project, name |-> i.project, org |-> i.org]
             r == Pg!createProject(db, row)
  <2>1. Write(c, r, "member", None)
    BY <1>0, <1>4 DEF createBetaOnboarding, At, in
  <2>2. Writes(db, r, {"projects"}) /\ (r.out = "ok" => ~Has(db.projects, i.project))
    <3>1. r = Pg!Insert(db, "projects", i.project, [name |-> i.project, org |-> i.org])
      BY DEF Pg!createProject
    <3>2. r.out = "ok" => ~Has(db.projects, i.project)
      BY <3>1 DEF Pg!Insert, Pg!Ok, Pg!Fail, Pg!Has, Has
    <3> QED
      BY <3>1, <3>2, InsertWrites
  <2> HIDE DEF r
  <2>3. db' = r.db /\ (Settles(c) \/ (base' = base /\ Goes(c, "member", None) /\ r.out = "ok"))
    BY <2>1, WriteSettles
  <2>4. db'.memberships = db.memberships
    BY <1>0, <2>2, <2>3 DEF Writes, Touches, EmptyDb
  <2>5. db.memberships = base.memberships /\ db.projects = base.projects
    BY <1>0, <1>4 DEF MemberCall, InCall
  <2> QED
    BY <1>0, <1>2, <2>2, <2>3, <2>4, <2>5 DEF MemberLands, Goes, MemberCall, InCall, Has
<1>5. CASE call[c].pc = "member"
  <2> DEFINE r == Pg!createProjectMembership(db, i.project, i.user, "owner")
  <2>1. Write(c, r, "memberAudit", None)
    BY <1>0, <1>5 DEF createBetaOnboarding, At, in
  <2>2. i.project \notin DOMAIN base.projects
    BY <1>0, <1>5 DEF MemberCall, InCall
  <2>3. MembersAreRows(r.db) /\ OwnersStay(base, db, r.db)
    BY <1>0, <2>2, MemberInvited
  <2> HIDE DEF r
  <2>4. db' = r.db /\ (Settles(c) \/ (base' = base /\ Goes(c, "memberAudit", None)))
    BY <2>1, WriteSettles
  <2>5. OwnersStay(base, base, db')
    BY <1>1, <2>3, <2>4, OwnersStayTwice
  <2> QED
    BY <1>0, <2>3, <2>4, <2>5 DEF MemberLands, Goes, MemberCall, InCall, MemberWriters
<1>6. CASE call[c].pc = "memberAudit" \/ call[c].pc = "key"
  <2>1. PICK r, pc : /\ Write(c, r, pc, None) /\ pc \in {"key", "keyAudit"}
                     /\ Writes(db, r, {"audit"}) \/ Writes(db, r, {"apiKeys"})
    BY <1>0, <1>6, InsertWrites, AuditWrites DEF createBetaOnboarding, At, Pg!createApiKey
  <2>2. db' = r.db /\ (Settles(c) \/ (base' = base /\ Goes(c, pc, None)))
    BY <2>1, WriteSettles
  <2>3. db'.memberships = db.memberships
    BY <1>0, <2>1, <2>2 DEF Writes, Touches, EmptyDb
  <2> QED
    BY <1>0, <1>2, <2>1, <2>2, <2>3 DEF MemberLands, Goes, MemberCall, InCall, MemberWriters
<1>7. CASE call[c].pc = "keyAudit"
  <2>1. db'.memberships = db.memberships /\ Settles(c)
    BY <1>0, <1>7, FinishSettles, AuditSpares DEF createBetaOnboarding, At
  <2> QED
    BY <1>2, <2>1 DEF MemberLands
<1> QED
  BY <1>3, <1>4, <1>5, <1>6, <1>7 DEF createBetaOnboarding, At

\* Only the operations on members write memberships.
LEMMA NoMemberWritten ==
  ASSUME NEW c, DOMAIN db = DOMAIN EmptyDb, Step(c)
  PROVE  /\ db'.memberships = db.memberships \/ in(c).op \in MemberWriters
         /\ in(c).op = "addProjectMembership" => addProjectMembership(c)
         /\ in(c).op = "updateProjectMembershipRole" => updateProjectMembershipRole(c)
         /\ in(c).op = "removeProjectMembership" => removeProjectMembership(c)
         /\ in(c).op = "acceptProjectMembershipInvite" => acceptProjectMembershipInvite(c)
         /\ in(c).op = "createBetaOnboarding" => createBetaOnboarding(c)
<1>0. ASSUME NEW op, NEW T, Effect(c, op, T), "memberships" \notin T PROVE db'.memberships = db.memberships
  BY <1>0 DEF Effect, Touches, EmptyDb
<1>1. CASE TenancyNext(c)
  BY <1>0, <1>1, TenancyEffects DEF TenancyNext, Effect, MemberWriters
<1>2. CASE BillingNext(c)
  BY <1>0, <1>2, BillingEffects DEF BillingNext, Effect
<1>3. CASE RoutingNext(c)
  BY <1>0, <1>3, RoutingEffects, RouteEffects DEF RoutingNext, Effect
<1>4. CASE FleetNext(c)
  BY <1>0, <1>4, FleetEffects DEF FleetNext, Effect
<1> QED
  BY <1>1, <1>2, <1>3, <1>4 DEF Step

\* Every step of a serial workload lands well.
LEMMA StepLandsMembers ==
  ASSUME CallsInv, OwnersInv, serial, NEW c \in Callers, Step(c) PROVE MemberLands(c)
<1>0. DOMAIN db = DOMAIN EmptyDb /\ call[c].pc # "idle" /\ Moves(c)
  BY Writers DEF CallsInv, WritersOnly
<1>1. CASE in(c).op \in MemberWriters
  BY <1>0, <1>1, NoMemberWritten, addProjectMembershipLands, updateProjectMembershipRoleLands,
     removeProjectMembershipLands, acceptProjectMembershipInviteLands, createBetaOnboardingLands DEF MemberWriters
<1>2. CASE in(c).op \notin MemberWriters
  <2>1. db'.memberships = db.memberships
    BY <1>0, <1>2, NoMemberWritten
  <2>2. MembersAreRows(db) /\ MemberCall(base, db, call[c])
    BY <1>0, MemberCalls
  <2>3. db.memberships = base.memberships
    BY <1>2, <2>2 DEF MemberCall, in
  <2>4. MembersAreRows(db') /\ OwnersStay(base, base, db')
    BY <2>1, <2>2, <2>3, OwnersOfTable
  <2>5. Settles(c) \/ (base' = base /\ call'[c].req = call[c].req)
    <3>1. ASSUME NEW pc, NEW l, Goto(c, pc, l) PROVE base' = base /\ call'[c].req = call[c].req
      BY <3>1, GoesOn
    <3>2. ASSUME NEW out, Return(c, out) PROVE Settles(c)
      BY <3>2, GoesHome DEF Return, Settles
    <3> QED
      BY <1>0, <3>1, <3>2 DEF Moves
  <2>6. base' = base /\ call'[c].req = call[c].req => MemberCall(base, db', call'[c])
    BY <1>2, <2>1, <2>3, <2>4 DEF MemberCall, InCall, MemberWriters, in
  <2> QED
    BY <2>4, <2>5, <2>6 DEF MemberLands
<1> QED
  BY <1>1, <1>2

\* A call that has just begun relies on nothing but the database of the last answer.
LEMMA MemberCallStarts == ASSUME NEW d, NEW k, k.pc = "start" PROVE MemberCall(d, d, k)
BY DEF MemberCall, InCall, OwnersStay

\* Every step keeps OwnersInv.
LEMMA StepOwners == ASSUME CallsInv, OwnersInv, NEW c \in Callers, Step(c) PROVE OwnersInv'
<1>0. Moved(c) /\ Moves(c) /\ call[c].pc # "idle" /\ DOMAIN db = DOMAIN EmptyDb
  BY StepCalls, Writers DEF WritersOnly, CallsInv
<1>1. serial' = serial /\ OneCaller'
  BY <1>0, CallersApart, OneCallerStays DEF OwnersInv
<1>2. MembersAreRows(db)' = MembersAreRows(db')
  BY DEF MembersAreRows
<1>3. CASE serial
  <2>1. MemberLands(c)
    BY <1>3, StepLandsMembers
  <2>2. \A x \in Callers \ {c} : call'[x].pc = "idle"
    <3>1. PICK c0 \in Callers : \A x \in Callers \ {c0} : call[x].pc = "idle"
      BY <1>3 DEF OwnersInv, OneCaller
    <3>2. c0 = c
      BY <1>0, <3>1
    <3> QED
      BY <1>0, <3>1, <3>2 DEF Moved
  <2>3. call'[c].pc # "idle" => MemberCall(base', db', call'[c])
    BY <1>3, <2>1, MemberCallStarts DEF MemberLands, Settles
  <2>4. \A x \in Callers : MemberCall(base, db, call[x])' = MemberCall(base', db', call'[x])
    BY DEF MemberCall, InCall, OwnersStay, Owners, Spared
  <2> QED
    BY <1>1, <1>2, <2>1, <2>2, <2>3, <2>4 DEF OwnersInv, MemberLands
<1>4. CASE ~serial
  BY <1>1, <1>4 DEF OwnersInv
<1> QED
  BY <1>3, <1>4

\* A process that dies is no process of a serial workload.
LEMMA RetryOwners == ASSUME CallsInv, OwnersInv, NEW c \in Callers, Retry(c) PROVE OwnersInv'
<1>1. ~serial /\ serial' = serial
  BY DEF Retry
<1> QED
  BY <1>1 DEF OwnersInv, OneCaller

\* A workload starts with the database of the last answer.
LEMMA OwnersStart == ASSUME Init PROVE OwnersInv
<1>1. PICK w \in Workloads : CallsInit(w.db, w.calls)
  BY DEF Init
<1>2. SoundDb(w.db) /\ w.calls \in [Callers -> Seq(Requests)]
  BY WorkloadsAssumption
<1>3. \A c \in Callers : call[c].pc \in {"idle", "start"}
  BY <1>1, <1>2, FirstCallStarts DEF CallsInit
<1>4. db = w.db /\ base = w.db
  BY <1>1 DEF CallsInit
<1>5. MembersAreRows(db)
  BY <1>2, <1>4 DEF SoundDb, MembersAreRows, MemberRow
<1>6. OneCaller
  BY RowsStart DEF RowsInv
<1> QED
  BY <1>3, <1>4, <1>5, <1>6, MemberCallStarts DEF OwnersInv

\* A step of a serial workload takes the last accepted owner of a project with an invitation alone.
LEMMA StepKeepsOwners ==
  ASSUME CallsInv, OwnersInv, NEW c \in Callers, Step(c)
  PROVE  \A p \in DOMAIN base.projects :
           (Owners(base, p) # {} /\ Owners(base', p) = {}) => At(c, "addProjectMembership", "audit")
<1>0. Moves(c)
  BY Writers DEF WritersOnly, CallsInv
<1>1. CASE base' = base
  BY <1>1
<1>2. CASE base' # base
  <2>1. serial /\ base' = db'
    BY <1>0, <1>2 DEF Moves, Goto, Return
  <2>2. MemberLands(c)
    BY <2>1, StepLandsMembers
  <2>3. call'[c].pc \in {"idle", "start"}
    BY <1>2, <2>2 DEF MemberLands, Settles
  <2> QED
    BY <2>1, <2>2, <2>3 DEF MemberLands, InCall, OwnersStay
<1> QED
  BY <1>1, <1>2

\* The owners' invariant holds of every execution.
LEMMA OwnersInvariant == Spec => []OwnersInv
<1>1. Init => OwnersInv
  BY OwnersStart
<1>2. CallsInv /\ OwnersInv /\ [Next]_vars => OwnersInv'
  <2> SUFFICES ASSUME CallsInv, OwnersInv, [Next]_vars PROVE OwnersInv'
    OBVIOUS
  <2>1. ASSUME NEW c \in Callers, Step(c) PROVE OwnersInv'
    BY <2>1, StepOwners
  <2>2. ASSUME NEW c \in Callers, Retry(c) PROVE OwnersInv'
    BY <2>2, RetryOwners
  <2>3. CASE UNCHANGED vars
    <3>1. db' = db /\ call' = call /\ todo' = todo /\ base' = base /\ serial' = serial
      BY <2>3 DEF vars, callVars
    <3>2. OneCaller' = OneCaller
      BY <3>1 DEF OneCaller
    <3> QED
      BY <3>1, <3>2 DEF OwnersInv, MembersAreRows, MemberCall, InCall, OwnersStay, Owners, Spared
  <2> QED
    BY <2>1, <2>2, <2>3 DEF Next
<1>3. IInv => CallsInv
  BY DEF IInv
<1> QED
  BY <1>1, <1>2, <1>3, ControlPlaneInvariant, PTL DEF Spec

\* Served one after the other, whatever the requests, nothing but inviting a member
\* again takes the last accepted owner of a project: the listing of the owners and the
\* UPDATE or DELETE of updateProjectMembershipRole() and removeProjectMembership() are
\* two statements, and the onboarding invites to a project of its own.
THEOREM LastOwner == Spec => LastOwnerStays
<1>1. CallsInv /\ OwnersInv /\ [Next]_vars =>
        [\A p \in DOMAIN base.projects :
           (Owners(base, p) # {} /\ Owners(base', p) = {}) =>
             \E c \in Callers : At(c, "addProjectMembership", "audit")]_vars
  <2> SUFFICES ASSUME CallsInv, OwnersInv, Next, NEW p \in DOMAIN base.projects, Owners(base, p) # {}, Owners(base', p) = {}
               PROVE  \E c \in Callers : At(c, "addProjectMembership", "audit")
    OBVIOUS
  <2>1. base' # base
    OBVIOUS
  <2>2. PICK c \in Callers : Step(c)
    BY <2>1 DEF Next, Retry, vars, callVars
  <2> QED
    BY <2>2, StepKeepsOwners
<1>2. IInv => CallsInv
  BY DEF IInv
<1> QED
  BY <1>1, <1>2, OwnersInvariant, ControlPlaneInvariant, PTL DEF Spec, LastOwnerStays

-----------------------------------------------------------------------------
(* Every step of an operation is a step of its twin: routes.               *)

\* pointRoute() reads the domain, the route and the quota, and writes.
LEMMA pointRouteTwins == ASSUME NEW c, Serving(c), pointRoute(c) PROVE Twins(c)
<1> DEFINE i == in(c)
<1>0. /\ i = call[c].req /\ i.op = "pointRoute" /\ i.op \in RouteOps
      /\ Sync!Serve(db, i) = Sync!pointRoute(db, i)
  <2>1. i = call[c].req /\ i.op = "pointRoute"
    BY DEF in, pointRoute, checkRoute, At
  <2> QED
    BY <2>1, ServesMethods DEF RouteOps
<1>R. call[c].pc # "start" => RouteRests(Served(c), db, call[c])
  BY <1>0, ServingFrom, RestsOf
<1>1. CASE call[c].pc = "start"
  <2> DEFINE check == Provided(Found(db, "projects", i.project), Provided(Require(db, normalizeRouteTargets(i.targets), "validation"), requireTargets(db, i.project, i.targets)))
         rest == Provided(DomainAllows(db, i), Provided(RouteFree(db, i), RoutePointed(db, i)))
  <2>1. Served(c) = Provided(check, rest)
    <3>1. Sync!pointRoute(db, i) =
            Provided(Found(db, "projects", i.project), Provided(Require(db, normalizeRouteTargets(i.targets), "validation"),
            Provided(requireTargets(db, i.project, i.targets),
            Provided(DomainAllows(db, i), Provided(RouteFree(db, i), RoutePointed(db, i))))))
      BY pointRouteServed, ServingFrom
    <3> QED
      BY <1>0, <1>1, <3>1, ServingFrom DEF Provided
  <2>2. IsResult(check) /\ check.db = db
    BY DEF Provided, Require, Ok, Fail, IsResult, Found, requireTargets
  <2>3. check = Then(requireProject(i.project), LAMBDA e :
             Then(Require(e, normalizeRouteTargets(i.targets), "validation"), LAMBDA f :
                  requireTargets(f, i.project, i.targets)))
    BY DEF Then, Provided, Require, Ok, Fail, requireProject, Found
  <2>4. ASSUME NEW k, check.out = "ok", GoneOn(c, k, "domain", None) PROVE Rests(rest, db, k)
    <3>1. RouteRests(rest, db, k)
      BY <1>0, <2>4 DEF GoneOn, RouteRests, in
    <3> QED
      BY <1>0, <2>4, <3>1, RestsOf DEF GoneOn
  <2> HIDE DEF check, rest
  <2>5. Check(c, check, "domain", None)
    BY <1>0, <1>1, <2>3 DEF pointRoute, checkRoute, At, in, loc
  <2> QED
    BY <2>1, <2>2, <2>4, <2>5, CheckTwins
<1>2. CASE call[c].pc = "domain"
  <2> DEFINE check == DomainAllows(db, i)
         rest == Provided(RouteFree(db, i), RoutePointed(db, i))
  <2>1. Served(c) = Provided(check, rest)
    BY <1>0, <1>2, <1>R DEF RouteRests
  <2>2. IsResult(check) /\ check.db = db
    BY DEF Provided, Require, Ok, Fail, IsResult, DomainAllows
  <2>3. ASSUME NEW k, check.out = "ok", GoneOn(c, k, "route", None) PROVE Rests(rest, db, k)
    <3>1. RouteRests(rest, db, k)
      BY <1>0, <2>3 DEF GoneOn, RouteRests, in
    <3> QED
      BY <1>0, <2>3, <3>1, RestsOf DEF GoneOn
  <2> HIDE DEF check, rest
  <2>4. Check(c, check, "route", None)
    BY <1>0, <1>2 DEF check, pointRoute, checkRoute, At, in, loc, enforceRouteCustomDomain, DomainAllows
  <2> QED
    BY <2>1, <2>2, <2>3, <2>4, CheckTwins
<1>3. CASE call[c].pc = "route"
  <2>0. TargetsOf(db, i) = currentTargets(i)
    BY DEF TargetsOf, currentTargets
  <2>1. CASE currentTargets(i) # None
    <3>1. Served(c) = RoutePointed(db, i)
      BY <1>0, <1>3, <2>0, <2>1, <1>R DEF RouteRests, RouteFree, Provided, Ok
    <3>2. ASSUME NEW k, GoneOn(c, k, "write", currentTargets(i)) PROVE Rests(Served(c), db, k)
      <4>1. RouteRests(Served(c), db, k)
        BY <1>0, <1>3, <2>1, <3>1, <3>2 DEF GoneOn, RouteRests, in
      <4> QED
        BY <1>0, <3>2, <4>1, RestsOf DEF GoneOn
    <3>3. Await(c, "write", currentTargets(i))
      BY <1>0, <1>3, <2>1 DEF pointRoute, checkRoute, At, in, loc
    <3> QED
      BY <3>2, <3>3, AwaitTwins
  <2>2. CASE currentTargets(i) = None
    <3>1. Served(c) = Provided(enforceProjectQuota(db, i.project, "routes"), RoutePointed(db, i))
      BY <1>0, <1>3, <2>0, <2>2, <1>R DEF RouteRests, RouteFree
    <3>2. ASSUME NEW k, GoneOn(c, k, "quota", currentTargets(i)) PROVE Rests(Served(c), db, k)
      <4>1. RouteRests(Served(c), db, k)
        BY <1>0, <1>3, <2>2, <3>1, <3>2 DEF GoneOn, RouteRests, in
      <4> QED
        BY <1>0, <3>2, <4>1, RestsOf DEF GoneOn
    <3>3. Await(c, "quota", currentTargets(i))
      BY <1>0, <1>3, <2>2 DEF pointRoute, checkRoute, At, in, loc
    <3> QED
      BY <3>2, <3>3, AwaitTwins
  <2> QED
    BY <2>1, <2>2
<1>4. CASE call[c].pc = "quota"
  <2> DEFINE check == enforceProjectQuota(db, i.project, "routes")
         rest == RoutePointed(db, i)
  <2>1. Served(c) = Provided(check, rest)
    BY <1>0, <1>4, <1>R DEF RouteRests
  <2>2. IsResult(check) /\ check.db = db
    BY DEF Provided, Require, Ok, Fail, IsResult, enforceProjectQuota
  <2>3. ASSUME NEW k, check.out = "ok", GoneOn(c, k, "write", None) PROVE Rests(rest, db, k)
    <3>1. RouteRests(rest, db, k)
      BY <1>0, <2>3 DEF GoneOn, RouteRests, in
    <3> QED
      BY <1>0, <2>3, <3>1, RestsOf DEF GoneOn
  <2> HIDE DEF check, rest
  <2>4. Check(c, check, "write", None)
    BY <1>0, <1>4 DEF check, pointRoute, checkRoute, At, in, loc
  <2> QED
    BY <2>1, <2>2, <2>3, <2>4, CheckTwins
<1>5. CASE call[c].pc = "write"
  <2> DEFINE w == Pg!upsertRoute(db, i.project, i.host, i.targets)
         rest == RouteAudit(w.db, i)
  <2>1. Served(c) = Provided(w, rest)
    BY <1>0, <1>5, <1>R DEF RouteRests, RoutePointed, RouteAudit
  <2>2. ASSUME NEW k, w.out = "ok", GoneOn(c, k, "audit", None) PROVE Rests(rest, w.db, k)
    <3>1. RouteRests(rest, w.db, k)
      BY <1>0, <2>2 DEF GoneOn, RouteRests, in
    <3> QED
      BY <1>0, <2>2, <3>1, RestsOf DEF GoneOn
  <2> HIDE DEF w, rest
  <2>3. Write(c, w, "audit", None)
    BY <1>0, <1>5 DEF w, pointRoute, checkRoute, At, in, loc
  <2> QED
    BY <2>1, <2>2, <2>3, WriteTwins
<1>6. CASE call[c].pc = "audit"
  <2>1. Served(c) = RouteAudit(db, i)
    BY <1>0, <1>6, <1>R DEF RouteRests
  <2>2. Finish(c, RouteAudit(db, i))
    BY <1>0, <1>6 DEF pointRoute, checkRoute, At, in, loc, RouteAudit
  <2> QED
    BY <2>1, <2>2, FinishTwins
<1> QED
  BY <1>0, <1>1, <1>2, <1>3, <1>4, <1>5, <1>6 DEF pointRoute, checkRoute, At

\* startRouteCanary() writes the route with the stable deployment it has read.
LEMMA startRouteCanaryTwins == ASSUME NEW c, Serving(c), startRouteCanary(c) PROVE Twins(c)
<1> DEFINE i == in(c)
<1>0. /\ i = call[c].req /\ i.op = "startRouteCanary" /\ i.op \in RouteOps
      /\ Sync!Serve(db, i) = Sync!startRouteCanary(db, i)
  <2>1. i = call[c].req /\ i.op = "startRouteCanary"
    BY DEF in, startRouteCanary, At
  <2> QED
    BY <2>1, ServesMethods DEF RouteOps
<1>R. call[c].pc # "start" => RouteRests(Served(c), db, call[c])
  BY <1>0, ServingFrom, RestsOf
<1>1. CASE call[c].pc = "start"
  <2> DEFINE check == Provided(RouteOf(db, i), Provided(DeploymentOf(db, i.project, i.deployment),
                        Require(db, db.routes[routeKey(i)].targets[1].deployment # i.deployment /\ canaryWeight(i.weight), "validation")))
         rest == CanaryStarted(db, i, db.routes[routeKey(i)].targets)
  <2>1. Served(c) = Provided(check, rest)
    <3>1. Sync!startRouteCanary(db, i) =
            Provided(RouteOf(db, i), Provided(DeploymentOf(db, i.project, i.deployment),
            Provided(Require(db, db.routes[routeKey(i)].targets[1].deployment # i.deployment /\ canaryWeight(i.weight), "validation"),
                     CanaryStarted(db, i, db.routes[routeKey(i)].targets))))
      BY startRouteCanaryServed, ServingFrom
    <3> QED
      BY <1>0, <1>1, <3>1, ServingFrom DEF Provided
  <2>2. IsResult(check) /\ check.db = db
    BY DEF Provided, Require, Ok, Fail, IsResult, RouteOf, DeploymentOf, Found
  <2>3. check = requireCandidate(i, i.deployment, currentTargets(i)[1].deployment # i.deployment /\ canaryWeight(i.weight))
    BY DEF Then, Provided, Require, Ok, Fail, RouteOf, DeploymentOf, Found, requireCandidate, requireRoute,
       requireProject, requireProjectDeployment, requireDeployment, currentTargets
  <2>4. check.out = "ok" => currentTargets(i) = db.routes[routeKey(i)].targets
    BY DEF Provided, Require, Ok, Fail, RouteOf, DeploymentOf, Found, currentTargets, Has
  <2>5. ASSUME NEW k, check.out = "ok", GoneOn(c, k, "write", currentTargets(i)) PROVE Rests(rest, db, k)
    <3>1. RouteRests(rest, db, k)
      BY <1>0, <2>5, <2>4 DEF GoneOn, RouteRests, in
    <3> QED
      BY <1>0, <2>5, <3>1, RestsOf DEF GoneOn
  <2> HIDE DEF check, rest
  <2>6. Check(c, check, "write", currentTargets(i))
    BY <1>0, <1>1, <2>3 DEF startRouteCanary, At, in, loc
  <2> QED
    BY <2>1, <2>2, <2>5, <2>6, CheckTwins
<1>2. CASE call[c].pc = "write"
  <2>1. Served(c) = CanaryStarted(db, i, loc(c))
    BY <1>0, <1>2, <1>R DEF RouteRests, loc
  <2>2. Finish(c, CanaryStarted(db, i, loc(c)))
    BY <1>0, <1>2 DEF startRouteCanary, At, in, loc, CanaryStarted
  <2> QED
    BY <2>1, <2>2, FinishTwins
<1> QED
  BY <1>0, <1>1, <1>2 DEF startRouteCanary, At

\* rollbackRoute() goes back to the deployment it has read.
LEMMA rollbackRouteTwins == ASSUME NEW c, Serving(c), rollbackRoute(c) PROVE Twins(c)
<1> DEFINE i == in(c)
<1>0. /\ i = call[c].req /\ i.op = "rollbackRoute" /\ i.op \in RouteOps
      /\ Sync!Serve(db, i) = Sync!rollbackRoute(db, i)
  <2>1. i = call[c].req /\ i.op = "rollbackRoute"
    BY DEF in, rollbackRoute, At
  <2> QED
    BY <2>1, ServesMethods DEF RouteOps
<1>R. call[c].pc # "start" => RouteRests(Served(c), db, call[c])
  BY <1>0, ServingFrom, RestsOf
<1>1. CASE call[c].pc = "start"
  <2> DEFINE check == Provided(RouteOf(db, i), DeploymentOf(db, i.project, IF i.deployment = None THEN db.routes[routeKey(i)].targets[1].deployment ELSE i.deployment))
         rest == RolledBack(db, i, IF i.deployment = None THEN db.routes[routeKey(i)].targets[1].deployment ELSE i.deployment)
  <2>1. Served(c) = Provided(check, rest)
    <3>1. Sync!rollbackRoute(db, i) =
            Provided(RouteOf(db, i),
            Provided(DeploymentOf(db, i.project, IF i.deployment = None THEN db.routes[routeKey(i)].targets[1].deployment ELSE i.deployment),
                     RolledBack(db, i, IF i.deployment = None THEN db.routes[routeKey(i)].targets[1].deployment ELSE i.deployment)))
      BY rollbackRouteServed, ServingFrom
    <3> QED
      BY <1>0, <1>1, <3>1, ServingFrom DEF Provided
  <2>2. IsResult(check) /\ check.db = db
    BY DEF Provided, Require, Ok, Fail, IsResult, RouteOf, DeploymentOf, Found
  <2>3. check = requireCandidate(i, IF i.deployment = None THEN currentTargets(i)[1].deployment ELSE i.deployment, TRUE)
    BY DEF Then, Provided, Require, Ok, Fail, RouteOf, DeploymentOf, Found, requireCandidate, requireRoute,
       requireProject, requireProjectDeployment, requireDeployment, currentTargets
  <2>4. check.out = "ok" => (IF i.deployment = None THEN currentTargets(i)[1].deployment ELSE i.deployment) = (IF i.deployment = None THEN db.routes[routeKey(i)].targets[1].deployment ELSE i.deployment)
    BY DEF Provided, Require, Ok, Fail, RouteOf, DeploymentOf, Found, currentTargets, Has
  <2>5. ASSUME NEW k, check.out = "ok", GoneOn(c, k, "write", IF i.deployment = None THEN currentTargets(i)[1].deployment ELSE i.deployment) PROVE Rests(rest, db, k)
    <3>1. RouteRests(rest, db, k)
      BY <1>0, <2>5, <2>4 DEF GoneOn, RouteRests, in
    <3> QED
      BY <1>0, <2>5, <3>1, RestsOf DEF GoneOn
  <2> HIDE DEF check, rest
  <2>6. Check(c, check, "write", IF i.deployment = None THEN currentTargets(i)[1].deployment ELSE i.deployment)
    BY <1>0, <1>1, <2>3 DEF rollbackRoute, At, in, loc
  <2> QED
    BY <2>1, <2>2, <2>5, <2>6, CheckTwins
<1>2. CASE call[c].pc = "write"
  <2>1. Served(c) = RolledBack(db, i, loc(c))
    BY <1>0, <1>2, <1>R DEF RouteRests, loc
  <2>2. Finish(c, RolledBack(db, i, loc(c)))
    BY <1>0, <1>2 DEF rollbackRoute, At, in, loc, RolledBack
  <2> QED
    BY <2>1, <2>2, FinishTwins
<1> QED
  BY <1>0, <1>1, <1>2 DEF rollbackRoute, At

\* analyzeRouteCanary() decides with the route it has read.
LEMMA analyzeRouteCanaryTwins == ASSUME NEW c, Serving(c), analyzeRouteCanary(c) PROVE Twins(c)
<1> DEFINE i == in(c)
<1>0. /\ i = call[c].req /\ i.op = "analyzeRouteCanary" /\ i.op \in RouteOps
      /\ Sync!Serve(db, i) = Sync!analyzeRouteCanary(db, i)
  <2>1. i = call[c].req /\ i.op = "analyzeRouteCanary"
    BY DEF in, analyzeRouteCanary, At
  <2> QED
    BY <2>1, ServesMethods DEF RouteOps
<1>R. call[c].pc # "start" => RouteRests(Served(c), db, call[c])
  BY <1>0, ServingFrom, RestsOf
<1>1. CASE call[c].pc = "start"
  <2> DEFINE check == Provided(RouteOf(db, i), Provided(DeploymentOf(db, i.project, i.deployment),
                        Require(db, \E n \in DOMAIN db.routes[routeKey(i)].targets : db.routes[routeKey(i)].targets[n].deployment = i.deployment, "validation")))
         rest == CanaryDecided(db, i, db.routes[routeKey(i)].targets)
  <2>1. Served(c) = Provided(check, rest)
    <3>1. Sync!analyzeRouteCanary(db, i) =
            Provided(RouteOf(db, i), Provided(DeploymentOf(db, i.project, i.deployment),
            Provided(Require(db, \E n \in DOMAIN db.routes[routeKey(i)].targets : db.routes[routeKey(i)].targets[n].deployment = i.deployment, "validation"),
                     CanaryDecided(db, i, db.routes[routeKey(i)].targets))))
      BY analyzeRouteCanaryServed, ServingFrom
    <3> QED
      BY <1>0, <1>1, <3>1, ServingFrom DEF Provided
  <2>2. IsResult(check) /\ check.db = db
    BY DEF Provided, Require, Ok, Fail, IsResult, RouteOf, DeploymentOf, Found
  <2>3. check = requireCandidate(i, i.deployment,
             \E n \in DOMAIN currentTargets(i) : currentTargets(i)[n].deployment = i.deployment)
    BY DEF Then, Provided, Require, Ok, Fail, RouteOf, DeploymentOf, Found, requireCandidate, requireRoute,
       requireProject, requireProjectDeployment, requireDeployment, currentTargets
  <2>4. check.out = "ok" => currentTargets(i) = db.routes[routeKey(i)].targets
    BY DEF Provided, Require, Ok, Fail, RouteOf, DeploymentOf, Found, currentTargets, Has
  <2>5. ASSUME NEW k, check.out = "ok", GoneOn(c, k, "decide", currentTargets(i)) PROVE Rests(rest, db, k)
    <3>1. RouteRests(rest, db, k)
      BY <1>0, <2>5, <2>4 DEF GoneOn, RouteRests, in
    <3> QED
      BY <1>0, <2>5, <3>1, RestsOf DEF GoneOn
  <2> HIDE DEF check, rest
  <2>6. Check(c, check, "decide", currentTargets(i))
    BY <1>0, <1>1, <2>3 DEF analyzeRouteCanary, At, in, loc
  <2> QED
    BY <2>1, <2>2, <2>5, <2>6, CheckTwins
<1>2. CASE call[c].pc = "decide"
  <2>1. CASE analyzeCanaryEvents(i.events, i.deployment, i.thresholds) = "rollback"
    <3> DEFINE w == Pg!createCanaryDecision(db, [project |-> i.project, host |-> i.host, stable |-> loc(c)[1].deployment,
                                       candidate |-> i.deployment, action |-> analyzeCanaryEvents(i.events, i.deployment, i.thresholds)])
           rest == RolledBack(w.db, i, loc(c)[1].deployment)
    <3>1. Served(c) = Provided(w, rest)
      BY <1>0, <1>2, <2>1, <1>R DEF RouteRests, CanaryDecided, loc
    <3>2. ASSUME NEW k, w.out = "ok", GoneOn(c, k, "write", loc(c)[1].deployment) PROVE Rests(rest, w.db, k)
      <4>1. RouteRests(rest, w.db, k)
        BY <1>0, <3>2 DEF GoneOn, RouteRests, in
      <4> QED
        BY <1>0, <3>2, <4>1, RestsOf DEF GoneOn
    <3> HIDE DEF w, rest
    <3>3. Write(c, w, "write", loc(c)[1].deployment)
      BY <1>0, <1>2, <2>1 DEF w, analyzeRouteCanary, At, in, loc
    <3> QED
      BY <3>1, <3>2, <3>3, WriteTwins
  <2>2. CASE analyzeCanaryEvents(i.events, i.deployment, i.thresholds) # "rollback"
    <3>1. Served(c) = Pg!createCanaryDecision(db, [project |-> i.project, host |-> i.host, stable |-> loc(c)[1].deployment,
                                       candidate |-> i.deployment, action |-> analyzeCanaryEvents(i.events, i.deployment, i.thresholds)])
      BY <1>0, <1>2, <2>2, <1>R DEF RouteRests, CanaryDecided, loc
    <3>2. Finish(c, Pg!createCanaryDecision(db, [project |-> i.project, host |-> i.host, stable |-> loc(c)[1].deployment,
                                       candidate |-> i.deployment, action |-> analyzeCanaryEvents(i.events, i.deployment, i.thresholds)]))
      BY <1>0, <1>2, <2>2 DEF analyzeRouteCanary, At, in, loc
    <3> QED
      BY <3>1, <3>2, FinishTwins
  <2> QED
    BY <2>1, <2>2
<1>3. CASE call[c].pc = "write"
  <2>1. Served(c) = RolledBack(db, i, loc(c))
    BY <1>0, <1>3, <1>R DEF RouteRests, loc
  <2>2. Finish(c, RolledBack(db, i, loc(c)))
    BY <1>0, <1>3 DEF analyzeRouteCanary, At, in, loc, RolledBack
  <2> QED
    BY <2>1, <2>2, FinishTwins
<1> QED
  BY <1>0, <1>1, <1>2, <1>3 DEF analyzeRouteCanary, At

\* createRouteSnapshot() stamps the routes it has read.
LEMMA createRouteSnapshotTwins == ASSUME NEW c, Serving(c), createRouteSnapshot(c) PROVE Twins(c)
<1> DEFINE i == in(c)
<1>0. /\ i = call[c].req /\ i.op = "createRouteSnapshot" /\ i.op \in RouteOps
      /\ Sync!Serve(db, i) = Sync!createRouteSnapshot(db, i)
  <2>1. i = call[c].req /\ i.op = "createRouteSnapshot"
    BY DEF in, createRouteSnapshot, At
  <2> QED
    BY <2>1, ServesMethods DEF RouteOps
<1>R. call[c].pc # "start" => RouteRests(Served(c), db, call[c])
  BY <1>0, ServingFrom, RestsOf
<1>1. CASE call[c].pc = "start"
  <2>1. Served(c) = Stamped(db, snapshotRoutes(db))
    <3>1. Sync!createRouteSnapshot(db, i) =
            Ok([db EXCEPT !.snapshots = Append(@, snapshotRoutes(db))])
      BY createRouteSnapshotServed, ServingFrom
    <3> QED
      BY <1>0, <1>1, <3>1, ServingFrom DEF Provided, Stamped
  <2>2. ASSUME NEW k, GoneOn(c, k, "stamp", snapshotRoutes(db)) PROVE Rests(Served(c), db, k)
    <3>1. RouteRests(Served(c), db, k)
      BY <1>0, <1>1, <2>1, <2>2 DEF GoneOn, RouteRests, in
    <3> QED
      BY <1>0, <2>2, <3>1, RestsOf DEF GoneOn
  <2>3. Await(c, "stamp", snapshotRoutes(db))
    BY <1>0, <1>1 DEF createRouteSnapshot, At, in, loc
  <2> QED
    BY <2>2, <2>3, AwaitTwins
<1>2. CASE call[c].pc = "stamp"
  <2>1. Served(c) = Stamped(db, loc(c))
    BY <1>0, <1>2, <1>R DEF RouteRests, loc
  <2>2. Finish(c, Stamped(db, loc(c)))
    BY <1>0, <1>2 DEF createRouteSnapshot, At, in, loc, Stamped
  <2> QED
    BY <2>1, <2>2, FinishTwins
<1> QED
  BY <1>0, <1>1, <1>2 DEF createRouteSnapshot, At

\* createDeployPreview() points the route and keeps the one it has read.
LEMMA createDeployPreviewTwins == ASSUME NEW c, Serving(c), createDeployPreview(c) PROVE Twins(c)
<1> DEFINE i == in(c)
<1>0. /\ i = call[c].req /\ i.op = "createDeployPreview" /\ i.op \in RouteOps
      /\ Sync!Serve(db, i) = Sync!createDeployPreview(db, i)
  <2>1. i = call[c].req /\ i.op = "createDeployPreview"
    BY DEF in, createDeployPreview, checkRoute, At
  <2> QED
    BY <2>1, ServesMethods DEF RouteOps
<1>R. call[c].pc # "start" => RouteRests(Served(c), db, call[c])
  BY <1>0, ServingFrom, RestsOf
<1>1. CASE call[c].pc = "start"
  <2> DEFINE check == DeploymentOf(db, i.project, i.deployment)
         rest == Provided(DomainAllows(db, i), Provided(RouteFree(db, i), PreviewPointed(db, i, TargetsOf(db, i))))
  <2>1. Served(c) = Provided(check, rest)
    <3>1. Sync!createDeployPreview(db, i) =
            Provided(DeploymentOf(db, i.project, i.deployment),
            Provided(DomainAllows(db, i), Provided(RouteFree(db, i), PreviewPointed(db, i, TargetsOf(db, i)))))
      BY createDeployPreviewServed, ServingFrom
    <3> QED
      BY <1>0, <1>1, <3>1, ServingFrom DEF Provided
  <2>2. IsResult(check) /\ check.db = db
    BY DEF Provided, Require, Ok, Fail, IsResult, DeploymentOf, Found
  <2>3. check = requireProjectDeployment(i.project, i.deployment)
    BY DEF Then, Provided, Require, Ok, Fail, DeploymentOf, Found, requireProject, requireDeployment,
       requireProjectDeployment
  <2>4. ASSUME NEW k, check.out = "ok", GoneOn(c, k, "domain", None) PROVE Rests(rest, db, k)
    <3>1. RouteRests(rest, db, k)
      BY <1>0, <2>4 DEF GoneOn, RouteRests, in
    <3> QED
      BY <1>0, <2>4, <3>1, RestsOf DEF GoneOn
  <2> HIDE DEF check, rest
  <2>5. Check(c, check, "domain", None)
    BY <1>0, <1>1, <2>3 DEF createDeployPreview, checkRoute, At, in, loc
  <2> QED
    BY <2>1, <2>2, <2>4, <2>5, CheckTwins
<1>2. CASE call[c].pc = "domain"
  <2> DEFINE check == DomainAllows(db, i)
         rest == Provided(RouteFree(db, i), PreviewPointed(db, i, TargetsOf(db, i)))
  <2>1. Served(c) = Provided(check, rest)
    BY <1>0, <1>2, <1>R DEF RouteRests
  <2>2. IsResult(check) /\ check.db = db
    BY DEF Provided, Require, Ok, Fail, IsResult, DomainAllows
  <2>3. ASSUME NEW k, check.out = "ok", GoneOn(c, k, "route", None) PROVE Rests(rest, db, k)
    <3>1. RouteRests(rest, db, k)
      BY <1>0, <2>3 DEF GoneOn, RouteRests, in
    <3> QED
      BY <1>0, <2>3, <3>1, RestsOf DEF GoneOn
  <2> HIDE DEF check, rest
  <2>4. Check(c, check, "route", None)
    BY <1>0, <1>2 DEF check, createDeployPreview, checkRoute, At, in, loc, enforceRouteCustomDomain, DomainAllows
  <2> QED
    BY <2>1, <2>2, <2>3, <2>4, CheckTwins
<1>3. CASE call[c].pc = "route"
  <2>0. TargetsOf(db, i) = currentTargets(i)
    BY DEF TargetsOf, currentTargets
  <2>1. CASE currentTargets(i) # None
    <3>1. Served(c) = PreviewPointed(db, i, currentTargets(i))
      BY <1>0, <1>3, <2>0, <2>1, <1>R DEF RouteRests, RouteFree, Provided, Ok
    <3>2. ASSUME NEW k, GoneOn(c, k, "point", currentTargets(i)) PROVE Rests(Served(c), db, k)
      <4>1. RouteRests(Served(c), db, k)
        BY <1>0, <1>3, <2>1, <3>1, <3>2 DEF GoneOn, RouteRests, in
      <4> QED
        BY <1>0, <3>2, <4>1, RestsOf DEF GoneOn
    <3>3. Await(c, "point", currentTargets(i))
      BY <1>0, <1>3, <2>1 DEF createDeployPreview, checkRoute, At, in, loc
    <3> QED
      BY <3>2, <3>3, AwaitTwins
  <2>2. CASE currentTargets(i) = None
    <3>1. Served(c) = Provided(enforceProjectQuota(db, i.project, "routes"), PreviewPointed(db, i, None))
      BY <1>0, <1>3, <2>0, <2>2, <1>R DEF RouteRests, RouteFree
    <3>2. ASSUME NEW k, GoneOn(c, k, "quota", currentTargets(i)) PROVE Rests(Served(c), db, k)
      <4>1. RouteRests(Served(c), db, k)
        BY <1>0, <1>3, <2>2, <3>1, <3>2 DEF GoneOn, RouteRests, in
      <4> QED
        BY <1>0, <3>2, <4>1, RestsOf DEF GoneOn
    <3>3. Await(c, "quota", currentTargets(i))
      BY <1>0, <1>3, <2>2 DEF createDeployPreview, checkRoute, At, in, loc
    <3> QED
      BY <3>2, <3>3, AwaitTwins
  <2> QED
    BY <2>1, <2>2
<1>4. CASE call[c].pc = "quota"
  <2> DEFINE check == enforceProjectQuota(db, i.project, "routes")
         rest == PreviewPointed(db, i, None)
  <2>1. Served(c) = Provided(check, rest)
    BY <1>0, <1>4, <1>R DEF RouteRests
  <2>2. IsResult(check) /\ check.db = db
    BY DEF Provided, Require, Ok, Fail, IsResult, enforceProjectQuota
  <2>3. ASSUME NEW k, check.out = "ok", GoneOn(c, k, "point", None) PROVE Rests(rest, db, k)
    <3>1. RouteRests(rest, db, k)
      BY <1>0, <2>3 DEF GoneOn, RouteRests, in
    <3> QED
      BY <1>0, <2>3, <3>1, RestsOf DEF GoneOn
  <2> HIDE DEF check, rest
  <2>4. Check(c, check, "point", None)
    BY <1>0, <1>4 DEF check, createDeployPreview, checkRoute, At, in, loc
  <2> QED
    BY <2>1, <2>2, <2>3, <2>4, CheckTwins
<1>5. CASE call[c].pc = "point"
  <2> DEFINE w == Pg!upsertRoute(db, i.project, i.host, WholeRoute(i.deployment))
         rest == PreviewInserted(w.db, i, loc(c))
  <2>1. Served(c) = Provided(w, rest)
    BY <1>0, <1>5, <1>R DEF RouteRests, PreviewPointed, loc
  <2>2. ASSUME NEW k, w.out = "ok", GoneOn(c, k, "insert", loc(c)) PROVE Rests(rest, w.db, k)
    <3>1. RouteRests(rest, w.db, k)
      BY <1>0, <2>2 DEF GoneOn, RouteRests, in
    <3> QED
      BY <1>0, <2>2, <3>1, RestsOf DEF GoneOn
  <2> HIDE DEF w, rest
  <2>3. Write(c, w, "insert", loc(c))
    BY <1>0, <1>5 DEF w, createDeployPreview, checkRoute, At, in, loc
  <2> QED
    BY <2>1, <2>2, <2>3, WriteTwins
<1>6. CASE call[c].pc = "insert"
  <2>1. Served(c) = PreviewInserted(db, i, loc(c))
    BY <1>0, <1>6, <1>R DEF RouteRests, loc
  <2>2. Finish(c, PreviewInserted(db, i, loc(c)))
    BY <1>0, <1>6 DEF createDeployPreview, checkRoute, At, in, loc, PreviewInserted
  <2> QED
    BY <2>1, <2>2, FinishTwins
<1> QED
  BY <1>0, <1>1, <1>2, <1>3, <1>4, <1>5, <1>6 DEF createDeployPreview, checkRoute, At

\* rollbackDeployPreview() restores the route of the preview it has read.
LEMMA rollbackDeployPreviewTwins == ASSUME NEW c, Serving(c), rollbackDeployPreview(c) PROVE Twins(c)
<1> DEFINE i == in(c)
<1>0. /\ i = call[c].req /\ i.op = "rollbackDeployPreview" /\ i.op \in RouteOps
      /\ Sync!Serve(db, i) = Sync!rollbackDeployPreview(db, i)
  <2>1. i = call[c].req /\ i.op = "rollbackDeployPreview"
    BY DEF in, rollbackDeployPreview, At
  <2> QED
    BY <2>1, ServesMethods DEF RouteOps
<1>R. call[c].pc # "start" => RouteRests(Served(c), db, call[c])
  BY <1>0, ServingFrom, RestsOf
<1>1. CASE call[c].pc = "start"
  <2>1. CASE Has(db.previews, i.id) /\ db.previews[i.id].status = "rolled_back"
    <3>1. Served(c) = Ok(db)
      <4>1. Sync!rollbackDeployPreview(db, i) =
              Provided(Found(db, "previews", i.id),
            IF db.previews[i.id].status = "rolled_back" THEN Ok(db) ELSE RouteRestored(db, i, db.previews[i.id]))
        BY rollbackDeployPreviewServed, ServingFrom
      <4> QED
        BY <1>0, <1>1, <2>1, <4>1, ServingFrom DEF Provided, Found, Require, Ok
    <3>2. Reply(c, "ok")
      BY <1>0, <1>1, <2>1 DEF rollbackDeployPreview, At, in, loc
    <3>3. Served(c).out = "ok" /\ Served(c).db = db
      BY <3>1 DEF Ok, Fail
    <3> QED
      BY <3>1, <3>2, <3>3, ReplyTwins
  <2>2. CASE ~(Has(db.previews, i.id) /\ db.previews[i.id].status = "rolled_back")
    <3> DEFINE check == Found(db, "previews", i.id)
           rest == RouteRestored(db, i, db.previews[i.id])
    <3>1. Served(c) = Provided(check, rest)
      <4>1. Sync!rollbackDeployPreview(db, i) =
              Provided(Found(db, "previews", i.id),
            IF db.previews[i.id].status = "rolled_back" THEN Ok(db) ELSE RouteRestored(db, i, db.previews[i.id]))
        BY rollbackDeployPreviewServed, ServingFrom
      <4> QED
        BY <1>0, <1>1, <2>2, <4>1, ServingFrom DEF Provided, Found, Require, Ok, Fail
    <3>2. IsResult(check) /\ check.db = db
      BY DEF Provided, Require, Ok, Fail, IsResult, Found
    <3>3. check.out = "ok" => Has(db.previews, i.id)
      BY DEF Found, Require, Fail
    <3>4. ASSUME NEW k, check.out = "ok", GoneOn(c, k, "route", IF Has(db.previews, i.id) THEN db.previews[i.id] ELSE None) PROVE Rests(rest, db, k)
      <4>1. RouteRests(rest, db, k)
        BY <1>0, <3>4, <3>3 DEF GoneOn, RouteRests, in
      <4> QED
        BY <1>0, <3>4, <4>1, RestsOf DEF GoneOn
    <3> HIDE DEF check, rest
    <3>5. Check(c, check, "route", IF Has(db.previews, i.id) THEN db.previews[i.id] ELSE None)
      BY <1>0, <1>1, <2>2 DEF check, rollbackDeployPreview, At, in, loc, Found
    <3> QED
      BY <3>1, <3>2, <3>4, <3>5, CheckTwins
  <2> QED
    BY <2>1, <2>2
<1>2. CASE call[c].pc = "route"
  <2> DEFINE w == restorePreviousRoute(loc(c))
         rest == PreviewUndone(w.db, i)
  <2>1. Served(c) = Provided(w, rest)
    BY <1>0, <1>2, <1>R DEF RouteRests, RouteRestored, restorePreviousRoute, loc
  <2>2. ASSUME NEW k, w.out = "ok", GoneOn(c, k, "update", None) PROVE Rests(rest, w.db, k)
    <3>1. RouteRests(rest, w.db, k)
      BY <1>0, <2>2 DEF GoneOn, RouteRests, in
    <3> QED
      BY <1>0, <2>2, <3>1, RestsOf DEF GoneOn
  <2> HIDE DEF w, rest
  <2>3. Write(c, w, "update", None)
    BY <1>0, <1>2 DEF w, rollbackDeployPreview, At, in, loc
  <2> QED
    BY <2>1, <2>2, <2>3, WriteTwins
<1>3. CASE call[c].pc = "update"
  <2>1. Served(c) = PreviewUndone(db, i)
    BY <1>0, <1>3, <1>R DEF RouteRests
  <2>2. Finish(c, PreviewUndone(db, i))
    BY <1>0, <1>3 DEF rollbackDeployPreview, At, in, loc, PreviewUndone
  <2> QED
    BY <2>1, <2>2, FinishTwins
<1> QED
  BY <1>0, <1>1, <1>2, <1>3 DEF rollbackDeployPreview, At

-----------------------------------------------------------------------------
(* Every step of an operation is a step of its twin: custom domains.       *)

\* createCustomDomain() inserts and records it.
LEMMA createCustomDomainTwins == ASSUME NEW c, Serving(c), createCustomDomain(c) PROVE Twins(c)
<1> DEFINE i == in(c)
<1>0. /\ i = call[c].req /\ i.op = "createCustomDomain" /\ i.op \in DomainOps
      /\ Sync!Serve(db, i) = Sync!createCustomDomain(db, i)
  <2>1. i = call[c].req /\ i.op = "createCustomDomain"
    BY DEF in, createCustomDomain, At
  <2> QED
    BY <2>1, ServesMethods DEF DomainOps
<1>R. call[c].pc # "start" => DomainRests(Served(c), db, call[c])
  BY <1>0, ServingFrom, RestsOf
<1>1. CASE call[c].pc = "start"
  <2> DEFINE check == Found(db, "projects", i.project)
         rest == DomainCreated(db, i)
  <2>1. Served(c) = Provided(check, rest)
    <3>1. Sync!createCustomDomain(db, i) =
            Provided(Found(db, "projects", i.project), DomainCreated(db, i))
      BY createCustomDomainServed, ServingFrom
    <3> QED
      BY <1>0, <1>1, <3>1, ServingFrom DEF Provided
  <2>2. IsResult(check) /\ check.db = db
    BY DEF Provided, Require, Ok, Fail, IsResult, Found
  <2>3. check = requireProject(i.project)
    BY DEF Then, Provided, Require, Ok, Fail, requireProject, Found
  <2>4. ASSUME NEW k, check.out = "ok", GoneOn(c, k, "write", None) PROVE Rests(rest, db, k)
    <3>1. DomainRests(rest, db, k)
      BY <1>0, <2>4 DEF GoneOn, DomainRests, in
    <3> QED
      BY <1>0, <2>4, <3>1, RestsOf DEF GoneOn
  <2> HIDE DEF check, rest
  <2>5. Check(c, check, "write", None)
    BY <1>0, <1>1, <2>3 DEF createCustomDomain, At, in, loc
  <2> QED
    BY <2>1, <2>2, <2>4, <2>5, CheckTwins
<1>2. CASE call[c].pc = "write"
  <2> DEFINE w == Pg!createCustomDomain(db, i)
         rest == DomainAudit(w.db, "custom_domain.created", i, i.project)
  <2>1. Served(c) = Provided(w, rest)
    BY <1>0, <1>2, <1>R DEF DomainRests, DomainCreated
  <2>2. ASSUME NEW k, w.out = "ok", GoneOn(c, k, "audit", None) PROVE Rests(rest, w.db, k)
    <3>1. DomainRests(rest, w.db, k)
      BY <1>0, <2>2 DEF GoneOn, DomainRests, in
    <3> QED
      BY <1>0, <2>2, <3>1, RestsOf DEF GoneOn
  <2> HIDE DEF w, rest
  <2>3. Write(c, w, "audit", None)
    BY <1>0, <1>2 DEF w, createCustomDomain, At, in, loc
  <2> QED
    BY <2>1, <2>2, <2>3, WriteTwins
<1>3. CASE call[c].pc = "audit"
  <2>1. Served(c) = DomainAudit(db, "custom_domain.created", i, i.project)
    BY <1>0, <1>3, <1>R DEF DomainRests
  <2>2. Finish(c, DomainAudit(db, "custom_domain.created", i, i.project))
    BY <1>0, <1>3 DEF createCustomDomain, At, in, loc, auditDomain, DomainAudit
  <2> QED
    BY <2>1, <2>2, FinishTwins
<1> QED
  BY <1>0, <1>1, <1>2, <1>3 DEF createCustomDomain, At

\* deleteCustomDomain() deletes the domain it has read.
LEMMA deleteCustomDomainTwins == ASSUME NEW c, Serving(c), deleteCustomDomain(c) PROVE Twins(c)
<1> DEFINE i == in(c)
<1>0. /\ i = call[c].req /\ i.op = "deleteCustomDomain" /\ i.op \in DomainOps
      /\ Sync!Serve(db, i) = Sync!deleteCustomDomain(db, i)
  <2>1. i = call[c].req /\ i.op = "deleteCustomDomain"
    BY DEF in, deleteCustomDomain, At
  <2> QED
    BY <2>1, ServesMethods DEF DomainOps
<1>R. call[c].pc # "start" => DomainRests(Served(c), db, call[c])
  BY <1>0, ServingFrom, RestsOf
<1>1. CASE call[c].pc = "start"
  <2> DEFINE check == Found(db, "domains", i.id)
         rest == Provided(HostFree(db, db.domains[i.id].host), DomainDeleted(db, i, db.domains[i.id].project))
  <2>1. Served(c) = Provided(check, rest)
    <3>1. Sync!deleteCustomDomain(db, i) =
            Provided(Found(db, "domains", i.id),
            Provided(Require(db, \A r \in DOMAIN db.routes : r[2] # db.domains[i.id].host, "validation"),
                     DomainDeleted(db, i, db.domains[i.id].project)))
      BY deleteCustomDomainServed, ServingFrom
    <3> QED
      BY <1>0, <1>1, <3>1, ServingFrom DEF Provided, HostFree
  <2>2. IsResult(check) /\ check.db = db
    BY DEF Provided, Require, Ok, Fail, IsResult, Found
  <2>3. check = requireCustomDomain(i.id)
    BY DEF Then, Provided, Require, Ok, Fail, requireCustomDomain, Found
  <2>4. check.out = "ok" => readDomain(i.id) = db.domains[i.id]
    BY DEF Provided, Found, Require, Fail, Ok, readDomain, Has
  <2>5. ASSUME NEW k, check.out = "ok", GoneOn(c, k, "routes", readDomain(i.id)) PROVE Rests(rest, db, k)
    <3>1. DomainRests(rest, db, k)
      BY <1>0, <2>5, <2>4 DEF GoneOn, DomainRests, in
    <3> QED
      BY <1>0, <2>5, <3>1, RestsOf DEF GoneOn
  <2> HIDE DEF check, rest
  <2>6. Check(c, check, "routes", readDomain(i.id))
    BY <1>0, <1>1, <2>3 DEF deleteCustomDomain, At, in, loc
  <2> QED
    BY <2>1, <2>2, <2>5, <2>6, CheckTwins
<1>2. CASE call[c].pc = "routes"
  <2> DEFINE check == HostFree(db, loc(c).host)
         rest == DomainDeleted(db, i, loc(c).project)
  <2>1. Served(c) = Provided(check, rest)
    BY <1>0, <1>2, <1>R DEF DomainRests, loc
  <2>2. IsResult(check) /\ check.db = db
    BY DEF Provided, Require, Ok, Fail, IsResult, HostFree
  <2>3. ASSUME NEW k, check.out = "ok", GoneOn(c, k, "delete", loc(c)) PROVE Rests(rest, db, k)
    <3>1. DomainRests(rest, db, k)
      BY <1>0, <2>3 DEF GoneOn, DomainRests, in
    <3> QED
      BY <1>0, <2>3, <3>1, RestsOf DEF GoneOn
  <2> HIDE DEF check, rest
  <2>4. Check(c, check, "delete", loc(c))
    BY <1>0, <1>2 DEF check, deleteCustomDomain, At, in, loc, HostFree
  <2> QED
    BY <2>1, <2>2, <2>3, <2>4, CheckTwins
<1>3. CASE call[c].pc = "delete"
  <2> DEFINE w == Pg!deleteCustomDomain(db, i.id)
         rest == DomainAudit(w.db, "custom_domain.deleted", i, loc(c).project)
  <2>1. Served(c) = Provided(w, rest)
    BY <1>0, <1>3, <1>R DEF DomainRests, DomainDeleted, loc
  <2>2. ASSUME NEW k, w.out = "ok", GoneOn(c, k, "audit", loc(c).project) PROVE Rests(rest, w.db, k)
    <3>1. DomainRests(rest, w.db, k)
      BY <1>0, <2>2 DEF GoneOn, DomainRests, in
    <3> QED
      BY <1>0, <2>2, <3>1, RestsOf DEF GoneOn
  <2> HIDE DEF w, rest
  <2>3. Write(c, w, "audit", loc(c).project)
    BY <1>0, <1>3 DEF w, deleteCustomDomain, At, in, loc
  <2> QED
    BY <2>1, <2>2, <2>3, WriteTwins
<1>4. CASE call[c].pc = "audit"
  <2>1. Served(c) = DomainAudit(db, "custom_domain.deleted", i, loc(c))
    BY <1>0, <1>4, <1>R DEF DomainRests, loc
  <2>2. Finish(c, DomainAudit(db, "custom_domain.deleted", i, loc(c)))
    BY <1>0, <1>4 DEF deleteCustomDomain, At, in, loc, auditDomain, DomainAudit
  <2> QED
    BY <2>1, <2>2, FinishTwins
<1> QED
  BY <1>0, <1>1, <1>2, <1>3, <1>4 DEF deleteCustomDomain, At

\* verifyCustomDomainOwnership() writes back the row it has read.
LEMMA verifyCustomDomainOwnershipTwins == ASSUME NEW c, Serving(c), verifyCustomDomainOwnership(c) PROVE Twins(c)
<1> DEFINE i == in(c)
<1>0. /\ i = call[c].req /\ i.op = "verifyCustomDomainOwnership" /\ i.op \in DomainOps
      /\ Sync!Serve(db, i) = Sync!verifyCustomDomainOwnership(db, i)
  <2>1. i = call[c].req /\ i.op = "verifyCustomDomainOwnership"
    BY DEF in, verifyCustomDomainOwnership, updateDomain, At
  <2> QED
    BY <2>1, ServesMethods DEF DomainOps
<1>R. call[c].pc # "start" => DomainRests(Served(c), db, call[c])
  BY <1>0, ServingFrom, RestsOf
<1>1. CASE call[c].pc = "start"
  <2> DEFINE check == Provided(Found(db, "domains", i.id), Require(db, i.txt, "validation"))
         rest == DomainSet(db, i, db.domains[i.id], "verified", db.domains[i.id].tls)
  <2>1. Served(c) = Provided(check, rest)
    <3>1. Sync!verifyCustomDomainOwnership(db, i) =
            Provided(Found(db, "domains", i.id),
            Provided(Require(db, i.txt, "validation"),
                     DomainSet(db, i, db.domains[i.id], "verified", db.domains[i.id].tls)))
      BY verifyCustomDomainOwnershipServed, ServingFrom
    <3> QED
      BY <1>0, <1>1, <3>1, ServingFrom DEF Provided
  <2>2. IsResult(check) /\ check.db = db
    BY DEF Provided, Require, Ok, Fail, IsResult, Found
  <2>3. check = Then(requireCustomDomain(i.id), LAMBDA e : Require(e, i.txt, "validation"))
    BY DEF Then, Provided, Require, Ok, Fail, requireCustomDomain, Found, readDomain
  <2>4. check.out = "ok" => readDomain(i.id) = db.domains[i.id]
    BY DEF Provided, Found, Require, Fail, Ok, readDomain, Has
  <2>5. ASSUME NEW k, check.out = "ok", GoneOn(c, k, "write", readDomain(i.id)) PROVE Rests(rest, db, k)
    <3>1. DomainRests(rest, db, k)
      BY <1>0, <2>5, <2>4 DEF GoneOn, DomainRests, in
    <3> QED
      BY <1>0, <2>5, <3>1, RestsOf DEF GoneOn
  <2> HIDE DEF check, rest
  <2>6. Check(c, check, "write", readDomain(i.id))
    BY <1>0, <1>1, <2>3 DEF verifyCustomDomainOwnership, updateDomain, At, in, loc
  <2> QED
    BY <2>1, <2>2, <2>5, <2>6, CheckTwins
<1>2. CASE call[c].pc = "write"
  <2>1. Served(c) = DomainSet(db, i, loc(c), "verified", loc(c).tls)
    BY <1>0, <1>2, <1>R DEF DomainRests, loc
  <2>2. Finish(c, DomainSet(db, i, loc(c), "verified", loc(c).tls))
    BY <1>0, <1>2 DEF verifyCustomDomainOwnership, updateDomain, At, in, loc, DomainSet
  <2> QED
    BY <2>1, <2>2, FinishTwins
<1> QED
  BY <1>0, <1>1, <1>2 DEF verifyCustomDomainOwnership, updateDomain, At

\* requestCustomDomainTlsProvisioning() writes back the row it has read.
LEMMA requestCustomDomainTlsProvisioningTwins == ASSUME NEW c, Serving(c), requestCustomDomainTlsProvisioning(c) PROVE Twins(c)
<1> DEFINE i == in(c)
<1>0. /\ i = call[c].req /\ i.op = "requestCustomDomainTlsProvisioning" /\ i.op \in DomainOps
      /\ Sync!Serve(db, i) = Sync!requestCustomDomainTlsProvisioning(db, i)
  <2>1. i = call[c].req /\ i.op = "requestCustomDomainTlsProvisioning"
    BY DEF in, requestCustomDomainTlsProvisioning, updateDomain, At
  <2> QED
    BY <2>1, ServesMethods DEF DomainOps
<1>R. call[c].pc # "start" => DomainRests(Served(c), db, call[c])
  BY <1>0, ServingFrom, RestsOf
<1>1. CASE call[c].pc = "start"
  <2> DEFINE check == Provided(Found(db, "domains", i.id), Require(db, db.domains[i.id].status \in {"verified", "tls_failed", "active"}, "validation"))
         rest == DomainSet(db, i, db.domains[i.id], "tls_pending", "pending")
  <2>1. Served(c) = Provided(check, rest)
    <3>1. Sync!requestCustomDomainTlsProvisioning(db, i) =
            Provided(Found(db, "domains", i.id),
            Provided(Require(db, db.domains[i.id].status \in {"verified", "tls_failed", "active"}, "validation"),
                     DomainSet(db, i, db.domains[i.id], "tls_pending", "pending")))
      BY requestCustomDomainTlsProvisioningServed, ServingFrom
    <3> QED
      BY <1>0, <1>1, <3>1, ServingFrom DEF Provided
  <2>2. IsResult(check) /\ check.db = db
    BY DEF Provided, Require, Ok, Fail, IsResult, Found
  <2>3. check = Then(requireCustomDomain(i.id), LAMBDA e : Require(e, readDomain(i.id).status \in {"verified", "tls_failed", "active"}, "validation"))
    BY DEF Then, Provided, Require, Ok, Fail, requireCustomDomain, Found, readDomain
  <2>4. check.out = "ok" => readDomain(i.id) = db.domains[i.id]
    BY DEF Provided, Found, Require, Fail, Ok, readDomain, Has
  <2>5. ASSUME NEW k, check.out = "ok", GoneOn(c, k, "write", readDomain(i.id)) PROVE Rests(rest, db, k)
    <3>1. DomainRests(rest, db, k)
      BY <1>0, <2>5, <2>4 DEF GoneOn, DomainRests, in
    <3> QED
      BY <1>0, <2>5, <3>1, RestsOf DEF GoneOn
  <2> HIDE DEF check, rest
  <2>6. Check(c, check, "write", readDomain(i.id))
    BY <1>0, <1>1, <2>3 DEF requestCustomDomainTlsProvisioning, updateDomain, At, in, loc
  <2> QED
    BY <2>1, <2>2, <2>5, <2>6, CheckTwins
<1>2. CASE call[c].pc = "write"
  <2>1. Served(c) = DomainSet(db, i, loc(c), "tls_pending", "pending")
    BY <1>0, <1>2, <1>R DEF DomainRests, loc
  <2>2. Finish(c, DomainSet(db, i, loc(c), "tls_pending", "pending"))
    BY <1>0, <1>2 DEF requestCustomDomainTlsProvisioning, updateDomain, At, in, loc, DomainSet
  <2> QED
    BY <2>1, <2>2, FinishTwins
<1> QED
  BY <1>0, <1>1, <1>2 DEF requestCustomDomainTlsProvisioning, updateDomain, At

\* completeCustomDomainTlsProvisioning() writes back the row it has read.
LEMMA completeCustomDomainTlsProvisioningTwins == ASSUME NEW c, Serving(c), completeCustomDomainTlsProvisioning(c) PROVE Twins(c)
<1> DEFINE i == in(c)
<1>0. /\ i = call[c].req /\ i.op = "completeCustomDomainTlsProvisioning" /\ i.op \in DomainOps
      /\ Sync!Serve(db, i) = Sync!completeCustomDomainTlsProvisioning(db, i)
  <2>1. i = call[c].req /\ i.op = "completeCustomDomainTlsProvisioning"
    BY DEF in, completeCustomDomainTlsProvisioning, updateDomain, At
  <2> QED
    BY <2>1, ServesMethods DEF DomainOps
<1>R. call[c].pc # "start" => DomainRests(Served(c), db, call[c])
  BY <1>0, ServingFrom, RestsOf
<1>1. CASE call[c].pc = "start"
  <2> DEFINE check == Found(db, "domains", i.id)
         rest == DomainSet(db, i, db.domains[i.id], IF i.ok THEN "active" ELSE "tls_failed", IF i.ok THEN "provisioned" ELSE "failed")
  <2>1. Served(c) = Provided(check, rest)
    <3>1. Sync!completeCustomDomainTlsProvisioning(db, i) =
            Provided(Found(db, "domains", i.id),
            DomainSet(db, i, db.domains[i.id], IF i.ok THEN "active" ELSE "tls_failed", IF i.ok THEN "provisioned" ELSE "failed"))
      BY completeCustomDomainTlsProvisioningServed, ServingFrom
    <3> QED
      BY <1>0, <1>1, <3>1, ServingFrom DEF Provided
  <2>2. IsResult(check) /\ check.db = db
    BY DEF Provided, Require, Ok, Fail, IsResult, Found
  <2>3. check = Then(requireCustomDomain(i.id), LAMBDA e : Require(e, TRUE, "validation"))
    BY DEF Then, Provided, Require, Ok, Fail, requireCustomDomain, Found, readDomain
  <2>4. check.out = "ok" => readDomain(i.id) = db.domains[i.id]
    BY DEF Provided, Found, Require, Fail, Ok, readDomain, Has
  <2>5. ASSUME NEW k, check.out = "ok", GoneOn(c, k, "write", readDomain(i.id)) PROVE Rests(rest, db, k)
    <3>1. DomainRests(rest, db, k)
      BY <1>0, <2>5, <2>4 DEF GoneOn, DomainRests, in
    <3> QED
      BY <1>0, <2>5, <3>1, RestsOf DEF GoneOn
  <2> HIDE DEF check, rest
  <2>6. Check(c, check, "write", readDomain(i.id))
    BY <1>0, <1>1, <2>3 DEF completeCustomDomainTlsProvisioning, updateDomain, At, in, loc
  <2> QED
    BY <2>1, <2>2, <2>5, <2>6, CheckTwins
<1>2. CASE call[c].pc = "write"
  <2>1. Served(c) = DomainSet(db, i, loc(c), IF i.ok THEN "active" ELSE "tls_failed", IF i.ok THEN "provisioned" ELSE "failed")
    BY <1>0, <1>2, <1>R DEF DomainRests, loc
  <2>2. Finish(c, DomainSet(db, i, loc(c), IF i.ok THEN "active" ELSE "tls_failed", IF i.ok THEN "provisioned" ELSE "failed"))
    BY <1>0, <1>2 DEF completeCustomDomainTlsProvisioning, updateDomain, At, in, loc, DomainSet
  <2> QED
    BY <2>1, <2>2, FinishTwins
<1> QED
  BY <1>0, <1>1, <1>2 DEF completeCustomDomainTlsProvisioning, updateDomain, At

-----------------------------------------------------------------------------
(* Every step of an operation is a step of its twin: the fleet.            *)

\* registerRuntimeNode() is one statement.
LEMMA registerRuntimeNodeTwins == ASSUME NEW c, Serving(c), registerRuntimeNode(c) PROVE Twins(c)
<1> DEFINE i == in(c)
<1>0. /\ i = call[c].req /\ i.op = "registerRuntimeNode"
      /\ Sync!Serve(db, i) = Sync!registerRuntimeNode(db, i)
  <2>1. i = call[c].req /\ i.op = "registerRuntimeNode"
    BY DEF in, registerRuntimeNode, At
  <2> QED
    BY <2>1, ServesMethods
<1>1. CASE call[c].pc = "start"
  <2>1. Sync!registerRuntimeNode(db, i) = Pg!createRuntimeNode(db, i.id,
              [url |-> i.url, status |-> normalizeRuntimeNodeStatus(i.status), registered |-> i.now,
               seen |-> None, capacity |-> None, load |-> None])
    BY registerRuntimeNodeServed, ServingFrom
  <2>2. Finish(c, Pg!createRuntimeNode(db, i.id,
              [url |-> i.url, status |-> normalizeRuntimeNodeStatus(i.status), registered |-> i.now,
               seen |-> None, capacity |-> None, load |-> None]))
    BY <1>0, <1>1 DEF registerRuntimeNode, At, in, loc
  <2> QED
    BY <1>0, <1>1, <2>1, <2>2, ServingFrom, FinishTwins
<1> QED
  BY <1>0, <1>1 DEF registerRuntimeNode, At

\* recordRuntimeNodeHeartbeat() writes the row it has read.
LEMMA recordRuntimeNodeHeartbeatTwins == ASSUME NEW c, Serving(c), recordRuntimeNodeHeartbeat(c) PROVE Twins(c)
<1> DEFINE i == in(c)
<1>0. /\ i = call[c].req /\ i.op = "recordRuntimeNodeHeartbeat" /\ i.op \in FleetOps
      /\ Sync!Serve(db, i) = Sync!recordRuntimeNodeHeartbeat(db, i)
  <2>1. i = call[c].req /\ i.op = "recordRuntimeNodeHeartbeat"
    BY DEF in, recordRuntimeNodeHeartbeat, At
  <2> QED
    BY <2>1, ServesMethods DEF FleetOps
<1>R. call[c].pc # "start" => FleetRests(Served(c), db, call[c])
  BY <1>0, ServingFrom, RestsOf
<1>1. CASE call[c].pc = "start"
  <2> DEFINE check == Found(db, "nodes", i.id)
         rest == Pg!updateRuntimeNodeHeartbeat(db, i.id, heartbeatNode(db.nodes[i.id], i))
  <2>1. Served(c) = Provided(check, rest)
    <3>1. Sync!recordRuntimeNodeHeartbeat(db, i) =
            Provided(Found(db, "nodes", i.id), Pg!updateRuntimeNodeHeartbeat(db, i.id, heartbeatNode(db.nodes[i.id], i)))
      BY recordRuntimeNodeHeartbeatServed, ServingFrom
    <3> QED
      BY <1>0, <1>1, <3>1, ServingFrom DEF Provided
  <2>2. IsResult(check) /\ check.db = db
    BY DEF Provided, Require, Ok, Fail, IsResult, Found
  <2>3. check = requireRuntimeNode(i.id)
    BY DEF Then, Provided, Require, Ok, Fail, requireRuntimeNode, Found
  <2>4. check.out = "ok" => Has(db.nodes, i.id)
    BY DEF Found, Require, Fail
  <2>5. ASSUME NEW k, check.out = "ok", GoneOn(c, k, "write", IF Has(db.nodes, i.id) THEN db.nodes[i.id] ELSE None) PROVE Rests(rest, db, k)
    <3>1. FleetRests(rest, db, k)
      BY <1>0, <2>5, <2>4 DEF GoneOn, FleetRests, in
    <3> QED
      BY <1>0, <2>5, <3>1, RestsOf DEF GoneOn
  <2> HIDE DEF check, rest
  <2>6. Check(c, check, "write", IF Has(db.nodes, i.id) THEN db.nodes[i.id] ELSE None)
    BY <1>0, <1>1, <2>3 DEF recordRuntimeNodeHeartbeat, At, in, loc
  <2> QED
    BY <2>1, <2>2, <2>5, <2>6, CheckTwins
<1>2. CASE call[c].pc = "write"
  <2>1. Served(c) = Pg!updateRuntimeNodeHeartbeat(db, i.id, heartbeatNode(loc(c), i))
    BY <1>0, <1>2, <1>R DEF FleetRests, loc
  <2>2. Finish(c, Pg!updateRuntimeNodeHeartbeat(db, i.id, heartbeatNode(loc(c), i)))
    BY <1>0, <1>2 DEF recordRuntimeNodeHeartbeat, At, in, loc
  <2> QED
    BY <2>1, <2>2, FinishTwins
<1> QED
  BY <1>0, <1>1, <1>2 DEF recordRuntimeNodeHeartbeat, At

\* updateRuntimeNodeStatus() is one statement.
LEMMA updateRuntimeNodeStatusTwins == ASSUME NEW c, Serving(c), updateRuntimeNodeStatus(c) PROVE Twins(c)
<1> DEFINE i == in(c)
<1>0. /\ i = call[c].req /\ i.op = "updateRuntimeNodeStatus"
      /\ Sync!Serve(db, i) = Sync!updateRuntimeNodeStatus(db, i)
  <2>1. i = call[c].req /\ i.op = "updateRuntimeNodeStatus"
    BY DEF in, updateRuntimeNodeStatus, At
  <2> QED
    BY <2>1, ServesMethods
<1>1. CASE call[c].pc = "start"
  <2>1. Sync!updateRuntimeNodeStatus(db, i) = Pg!updateRuntimeNodeStatus(db, i.id, normalizeRuntimeNodeStatus(i.status))
    BY updateRuntimeNodeStatusServed, ServingFrom
  <2>2. Finish(c, Pg!updateRuntimeNodeStatus(db, i.id, normalizeRuntimeNodeStatus(i.status)))
    BY <1>0, <1>1 DEF updateRuntimeNodeStatus, At, in, loc
  <2> QED
    BY <1>0, <1>1, <2>1, <2>2, ServingFrom, FinishTwins
<1> QED
  BY <1>0, <1>1 DEF updateRuntimeNodeStatus, At

\* listActiveRuntimeNodes() writes nothing.
LEMMA listActiveRuntimeNodesTwins == ASSUME NEW c, Serving(c), listActiveRuntimeNodes(c) PROVE Twins(c)
<1> DEFINE i == in(c)
<1>0. /\ i = call[c].req /\ i.op = "listActiveRuntimeNodes"
      /\ Sync!Serve(db, i) = Sync!listActiveRuntimeNodes(db, i)
  <2>1. i = call[c].req /\ i.op = "listActiveRuntimeNodes"
    BY DEF in, listActiveRuntimeNodes, At
  <2> QED
    BY <2>1, ServesMethods
<1>1. CASE call[c].pc = "start"
  <2>1. Served(c) = Fail(db, IF Has(db.nodes, i.id) /\ isActiveRuntimeNode(db.nodes[i.id], i.now, i.ttl) THEN "listed" ELSE "unlisted")
    <3>1. Sync!listActiveRuntimeNodes(db, i) =
            Fail(db, IF Has(db.nodes, i.id) /\ isActiveRuntimeNode(db.nodes[i.id], i.now, i.ttl) THEN "listed" ELSE "unlisted")
      BY listActiveRuntimeNodesServed, ServingFrom
    <3> QED
      BY <1>0, <1>1, <3>1, ServingFrom DEF Provided
  <2>2. Reply(c, (IF Has(db.nodes, i.id) /\ isActiveRuntimeNode(db.nodes[i.id], i.now, i.ttl) THEN "listed" ELSE "unlisted"))
    BY <1>0, <1>1 DEF listActiveRuntimeNodes, At, in, loc
  <2>3. Served(c).out = (IF Has(db.nodes, i.id) /\ isActiveRuntimeNode(db.nodes[i.id], i.now, i.ttl) THEN "listed" ELSE "unlisted") /\ Served(c).db = db
    BY <2>1 DEF Ok, Fail
  <2> QED
    BY <2>1, <2>2, <2>3, ReplyTwins
<1> QED
  BY <1>0, <1>1 DEF listActiveRuntimeNodes, At

\* recordRouteSnapshotPublication() is one statement.
LEMMA recordRouteSnapshotPublicationTwins == ASSUME NEW c, Serving(c), recordRouteSnapshotPublication(c) PROVE Twins(c)
<1> DEFINE i == in(c)
<1>0. /\ i = call[c].req /\ i.op = "recordRouteSnapshotPublication"
      /\ Sync!Serve(db, i) = Sync!recordRouteSnapshotPublication(db, i)
  <2>1. i = call[c].req /\ i.op = "recordRouteSnapshotPublication"
    BY DEF in, recordRouteSnapshotPublication, At
  <2> QED
    BY <2>1, ServesMethods
<1>1. CASE call[c].pc = "start"
  <2>1. Sync!recordRouteSnapshotPublication(db, i) = Pg!createRouteSnapshotPublication(db, [snapshot |-> i.snapshot, ok |-> i.ok])
    BY recordRouteSnapshotPublicationServed, ServingFrom
  <2>2. Finish(c, Pg!createRouteSnapshotPublication(db, [snapshot |-> i.snapshot, ok |-> i.ok]))
    BY <1>0, <1>1 DEF recordRouteSnapshotPublication, At, in, loc
  <2> QED
    BY <1>0, <1>1, <2>1, <2>2, ServingFrom, FinishTwins
<1> QED
  BY <1>0, <1>1 DEF recordRouteSnapshotPublication, At

\* cleanupRuntimeNodes() deletes the nodes it has listed, one by one.
LEMMA cleanupRuntimeNodesTwins == ASSUME NEW c, Serving(c), cleanupRuntimeNodes(c), IsFiniteSet(DOMAIN db.nodes) PROVE Twins(c)
<1> DEFINE i == in(c)
<1>0. /\ i = call[c].req /\ i.op = "cleanupRuntimeNodes" /\ i.op \in FleetOps
      /\ Sync!Serve(db, i) = Sync!cleanupRuntimeNodes(db, i)
  <2>1. i = call[c].req /\ i.op = "cleanupRuntimeNodes"
    BY DEF in, cleanupRuntimeNodes, At
  <2> QED
    BY <2>1, ServesMethods DEF FleetOps
<1>R. call[c].pc # "start" => FleetRests(Served(c), db, call[c])
  BY <1>0, ServingFrom, RestsOf
<1>1. CASE call[c].pc = "start"
  <2> DEFINE check == Require(db, i.olderThan > 0, "validation")
         rest == NodesGone(db, cleanedNodes(db, i))
  <2>1. Served(c) = Provided(check, rest)
    <3>1. Sync!cleanupRuntimeNodes(db, i) =
            Provided(Require(db, i.olderThan > 0, "validation"), NodesGone(db, cleanedNodes(db, i)))
      BY cleanupRuntimeNodesServed, ServingFrom
    <3> QED
      BY <1>0, <1>1, <3>1, ServingFrom DEF Provided
  <2>2. IsResult(check) /\ check.db = db
    BY DEF Provided, Require, Ok, Fail, IsResult
  <2>3. cleanedNodes(db, i) \subseteq DOMAIN db.nodes
    BY DEF cleanedNodes
  <2>4. ASSUME NEW k, check.out = "ok", GoneOn(c, k, "delete", cleanedNodes(db, i)) PROVE Rests(rest, db, k)
    <3>1. FleetRests(rest, db, k)
      BY <1>0, <2>4, <2>3 DEF GoneOn, FleetRests, in
    <3> QED
      BY <1>0, <2>4, <3>1, RestsOf DEF GoneOn
  <2> HIDE DEF check, rest
  <2>5. Check(c, check, "delete", cleanedNodes(db, i))
    BY <1>0, <1>1 DEF check, cleanupRuntimeNodes, At, in, loc
  <2> QED
    BY <2>1, <2>2, <2>4, <2>5, CheckTwins
<1>2. CASE call[c].pc = "delete"
  <2>1. loc(c) \subseteq DOMAIN db.nodes /\ Served(c) = NodesGone(db, loc(c))
    BY <1>0, <1>R, <1>2 DEF FleetRests, loc
  <2>2. CASE loc(c) = {}
    <3>1. Reply(c, "ok")
      BY <1>0, <1>2, <2>2 DEF cleanupRuntimeNodes, At
    <3>2. Served(c).out = "ok" /\ Served(c).db = db
      BY <2>1, <2>2 DEF NodesGone, Ok
    <3> QED
      BY <3>1, <3>2, ReplyTwins
  <2>3. CASE loc(c) # {}
    <3>1. PICK n \in loc(c) : Write(c, Pg!deleteRuntimeNode(db, n), "delete", loc(c) \ {n})
      BY <1>0, <1>2, <2>3 DEF cleanupRuntimeNodes, At
    <3> DEFINE w == Pg!deleteRuntimeNode(db, n)
               left == loc(c) \ {n}
               rest == NodesGone(w.db, left)
    <3>2. w.out = "ok" /\ rest = NodesGone(db, loc(c)) /\ left \subseteq DOMAIN w.db.nodes
      BY <2>1, OneNodeMore, ServingFrom
    <3>3. Served(c) = Provided(w, rest)
      BY <2>1, <3>2 DEF Provided
    <3> HIDE DEF w, left
    <3>4. ASSUME NEW k, w.out = "ok", GoneOn(c, k, "delete", left) PROVE Rests(rest, w.db, k)
      <4>1. FleetRests(rest, w.db, k)
        BY <1>0, <3>2, <3>4 DEF GoneOn, FleetRests, in
      <4> QED
        BY <1>0, <3>4, <4>1, RestsOf DEF GoneOn
    <3>5. Write(c, w, "delete", left)
      BY <3>1 DEF w, left
    <3> HIDE DEF rest
    <3> QED
      BY <3>3, <3>4, <3>5, WriteTwins
  <2> QED
    BY <2>2, <2>3
<1> QED
  BY <1>0, <1>1, <1>2 DEF cleanupRuntimeNodes, At

\* createEdgeWorkerRelease() deploys the script and inserts the release.
LEMMA createEdgeWorkerReleaseTwins == ASSUME NEW c, Serving(c), createEdgeWorkerRelease(c) PROVE Twins(c)
<1> DEFINE i == in(c)
<1>0. /\ i = call[c].req /\ i.op = "createEdgeWorkerRelease" /\ i.op \in FleetOps
      /\ Sync!Serve(db, i) = Sync!createEdgeWorkerRelease(db, i)
  <2>1. i = call[c].req /\ i.op = "createEdgeWorkerRelease"
    BY DEF in, createEdgeWorkerRelease, At
  <2> QED
    BY <2>1, ServesMethods DEF FleetOps
<1>R. call[c].pc # "start" => FleetRests(Served(c), db, call[c])
  BY <1>0, ServingFrom, RestsOf
<1>1. CASE call[c].pc = "start"
  <2> DEFINE check == DeploymentOf(db, i.project, i.deployment)
         rest == ScriptDeployed(db, i)
  <2>1. Served(c) = Provided(check, rest)
    <3>1. Sync!createEdgeWorkerRelease(db, i) =
            Provided(DeploymentOf(db, i.project, i.deployment), ScriptDeployed(db, i))
      BY createEdgeWorkerReleaseServed, ServingFrom
    <3> QED
      BY <1>0, <1>1, <3>1, ServingFrom DEF Provided
  <2>2. IsResult(check) /\ check.db = db
    BY DEF Provided, Require, Ok, Fail, IsResult, DeploymentOf, Found
  <2>3. check = requireReleaseDeployment(i)
    BY DEF Then, Provided, Require, Ok, Fail, requireReleaseDeployment, requireProject, DeploymentOf, Found
  <2>4. ASSUME NEW k, check.out = "ok", GoneOn(c, k, "deploy", None) PROVE Rests(rest, db, k)
    <3>1. FleetRests(rest, db, k)
      BY <1>0, <2>4 DEF GoneOn, FleetRests, in
    <3> QED
      BY <1>0, <2>4, <3>1, RestsOf DEF GoneOn
  <2> HIDE DEF check, rest
  <2>5. Check(c, check, "deploy", None)
    BY <1>0, <1>1, <2>3 DEF createEdgeWorkerRelease, At, in, loc
  <2> QED
    BY <2>1, <2>2, <2>4, <2>5, CheckTwins
<1>2. CASE call[c].pc = "deploy"
  <2> DEFINE w == Require(Deployed(db, i), i.reply = "done", "validation")
         rest == ReleaseInserted(w.db, i)
  <2>1. Served(c) = Provided(w, rest)
    BY <1>0, <1>2, <1>R DEF FleetRests, ScriptDeployed, Provided, Require, Ok, Fail
  <2>2. w = [out |-> IF i.reply = "done" THEN "ok" ELSE "validation",
                 db |-> IF i.reply = "error" THEN db ELSE [db EXCEPT !.scripts = @ \union {i.script}]]
    BY DEF Then, Provided, Require, Ok, Fail, Deployed
  <2>3. ASSUME NEW k, w.out = "ok", GoneOn(c, k, "insert", None) PROVE Rests(rest, w.db, k)
    <3>1. FleetRests(rest, w.db, k)
      BY <1>0, <2>3 DEF GoneOn, FleetRests, in
    <3> QED
      BY <1>0, <2>3, <3>1, RestsOf DEF GoneOn
  <2> HIDE DEF w, rest
  <2>4. Write(c, w, "insert", None)
    BY <1>0, <1>2, <2>2 DEF createEdgeWorkerRelease, At, in, loc
  <2> QED
    BY <2>1, <2>3, <2>4, WriteTwins
<1>3. CASE call[c].pc = "insert"
  <2>1. Served(c) = ReleaseInserted(db, i)
    BY <1>0, <1>3, <1>R DEF FleetRests
  <2>2. Finish(c, ReleaseInserted(db, i))
    BY <1>0, <1>3 DEF createEdgeWorkerRelease, At, in, loc, ReleaseInserted
  <2> QED
    BY <2>1, <2>2, FinishTwins
<1> QED
  BY <1>0, <1>1, <1>2, <1>3 DEF createEdgeWorkerRelease, At

\* deleteEdgeWorkerRelease() marks, asks the provider and takes its answer.
LEMMA deleteEdgeWorkerReleaseTwins == ASSUME NEW c, Serving(c), deleteEdgeWorkerRelease(c), EdgeInv PROVE Twins(c)
<1> DEFINE i == in(c)
<1>0. /\ i = call[c].req /\ i.op = "deleteEdgeWorkerRelease" /\ i.op \in FleetOps
      /\ Sync!Serve(db, i) = Sync!deleteEdgeWorkerRelease(db, i)
  <2>1. i = call[c].req /\ i.op = "deleteEdgeWorkerRelease"
    BY DEF in, deleteEdgeWorkerRelease, At
  <2> QED
    BY <2>1, ServesMethods DEF FleetOps
<1>R. call[c].pc # "start" => FleetRests(Served(c), db, call[c])
  BY <1>0, ServingFrom, RestsOf
<1>I. \A x \in DOMAIN db.releases : "status" \in DOMAIN db.releases[x]
  BY DEF EdgeInv, OperationsInOrder
<1>1. CASE call[c].pc = "start"
  <2>1. CASE Has(db.releases, i.id) /\ db.releases[i.id].status = "deleted"
    <3>1. Served(c) = Ok(db)
      <4>1. Sync!deleteEdgeWorkerRelease(db, i) =
              Provided(Found(db, "releases", i.id),
            IF db.releases[i.id].status = "deleted" THEN Ok(db)
            ELSE IF ~i.deleteProvider THEN ReleaseIs(db, i, "deleted") ELSE ReleaseDeleted(db, i))
        BY deleteEdgeWorkerReleaseServed, ServingFrom, <1>I
      <4> QED
        BY <1>0, <1>1, <2>1, <4>1, ServingFrom DEF Provided, Found, Require, Ok
    <3>2. Reply(c, "ok")
      BY <1>0, <1>1, <2>1 DEF deleteEdgeWorkerRelease, At, in, loc
    <3>3. Served(c).out = "ok" /\ Served(c).db = db
      BY <3>1 DEF Ok, Fail
    <3> QED
      BY <3>1, <3>2, <3>3, ReplyTwins
  <2>2. CASE ~(Has(db.releases, i.id) /\ db.releases[i.id].status = "deleted")
    <3> DEFINE check == Found(db, "releases", i.id)
           rest == IF ~i.deleteProvider THEN ReleaseIs(db, i, "deleted") ELSE ReleaseDeleted(db, i)
    <3>1. Served(c) = Provided(check, rest)
      <4>1. Sync!deleteEdgeWorkerRelease(db, i) =
              Provided(Found(db, "releases", i.id),
            IF db.releases[i.id].status = "deleted" THEN Ok(db)
            ELSE IF ~i.deleteProvider THEN ReleaseIs(db, i, "deleted") ELSE ReleaseDeleted(db, i))
        BY deleteEdgeWorkerReleaseServed, ServingFrom, <1>I
      <4> QED
        BY <1>0, <1>1, <2>2, <4>1, ServingFrom DEF Provided, Found, Require, Ok, Fail
    <3>2. IsResult(check) /\ check.db = db
      BY DEF Provided, Require, Ok, Fail, IsResult, Found
    <3>3. check = requireEdgeWorkerRelease(i.id)
      BY DEF Then, Provided, Require, Ok, Fail, requireEdgeWorkerRelease, Found
    <3>4. ASSUME NEW k, check.out = "ok", GoneOn(c, k, IF i.deleteProvider THEN "mark" ELSE "deleted", None) PROVE Rests(rest, db, k)
      <4>1. FleetRests(rest, db, k)
        BY <1>0, <3>4 DEF GoneOn, FleetRests, in
      <4> QED
        BY <1>0, <3>4, <4>1, RestsOf DEF GoneOn
    <3> HIDE DEF check, rest
    <3>5. Check(c, check, IF i.deleteProvider THEN "mark" ELSE "deleted", None)
      BY <1>0, <1>1, <2>2, <3>3 DEF deleteEdgeWorkerRelease, At, in, loc
    <3> QED
      BY <3>1, <3>2, <3>4, <3>5, CheckTwins
  <2> QED
    BY <2>1, <2>2
<1>2. CASE call[c].pc = "mark"
  <2> DEFINE w == ReleaseIs(db, i, "deleting")
         rest == ProviderAsked(w.db, i)
  <2>1. Served(c) = Provided(w, rest)
    BY <1>0, <1>2, <1>R DEF FleetRests, ReleaseDeleted
  <2>2. ASSUME NEW k, w.out = "ok", GoneOn(c, k, "provider", None) PROVE Rests(rest, w.db, k)
    <3>1. FleetRests(rest, w.db, k)
      BY <1>0, <2>2 DEF GoneOn, FleetRests, in
    <3> QED
      BY <1>0, <2>2, <3>1, RestsOf DEF GoneOn
  <2> HIDE DEF w, rest
  <2>3. Write(c, w, "provider", None)
    BY <1>0, <1>2 DEF w, deleteEdgeWorkerRelease, At, in, loc, ReleaseIs
  <2> QED
    BY <2>1, <2>2, <2>3, WriteTwins
<1>3. CASE call[c].pc = "provider"
  <2> DEFINE w == Ok(deleteProviderEdgeWorkerRelease(db, db.releases[i.id].script, i.reply))
         rest == AnswerTaken(w.db, i)
  <2>1. Served(c) = Provided(w, rest)
    BY <1>0, <1>3, <1>R DEF FleetRests, ProviderAsked, Provided, Ok
  <2>2. ASSUME NEW k, w.out = "ok", GoneOn(c, k, IF i.reply = "done" THEN "deleted" ELSE "failed", None) PROVE Rests(rest, w.db, k)
    <3>1. FleetRests(rest, w.db, k)
      BY <1>0, <2>2 DEF GoneOn, FleetRests, in, AnswerTaken
    <3> QED
      BY <1>0, <2>2, <3>1, RestsOf DEF GoneOn
  <2> HIDE DEF w, rest
  <2>3. Write(c, w, IF i.reply = "done" THEN "deleted" ELSE "failed", None)
    BY <1>0, <1>3 DEF w, deleteEdgeWorkerRelease, At, in, loc
  <2> QED
    BY <2>1, <2>2, <2>3, WriteTwins
<1>4. CASE call[c].pc = "failed"
  <2> DEFINE w == ReleaseIs(db, i, "failed")
         rest == RetryQueued(w.db, i)
  <2>1. Served(c) = Provided(w, rest)
    BY <1>0, <1>4, <1>R DEF FleetRests, ReleaseFailed
  <2>2. ASSUME NEW k, w.out = "ok", GoneOn(c, k, "enqueue", None) PROVE Rests(rest, w.db, k)
    <3>1. FleetRests(rest, w.db, k)
      BY <1>0, <2>2 DEF GoneOn, FleetRests, in
    <3> QED
      BY <1>0, <2>2, <3>1, RestsOf DEF GoneOn
  <2> HIDE DEF w, rest
  <2>3. Write(c, w, "enqueue", None)
    BY <1>0, <1>4 DEF w, deleteEdgeWorkerRelease, At, in, loc, ReleaseIs
  <2> QED
    BY <2>1, <2>2, <2>3, WriteTwins
<1>5. CASE call[c].pc = "enqueue"
  <2>1. Served(c) = RetryQueued(db, i)
    BY <1>0, <1>5, <1>R DEF FleetRests
  <2>2. Finish(c, RetryQueued(db, i))
    BY <1>0, <1>5 DEF deleteEdgeWorkerRelease, At, in, loc, RetryQueued
  <2> QED
    BY <2>1, <2>2, FinishTwins
<1>6. CASE call[c].pc = "deleted"
  <2>1. Served(c) = ReleaseIs(db, i, "deleted")
    BY <1>0, <1>6, <1>R DEF FleetRests
  <2>2. Finish(c, ReleaseIs(db, i, "deleted"))
    BY <1>0, <1>6 DEF deleteEdgeWorkerRelease, At, in, loc, ReleaseIs
  <2> QED
    BY <2>1, <2>2, FinishTwins
<1> QED
  BY <1>0, <1>1, <1>2, <1>3, <1>4, <1>5, <1>6 DEF deleteEdgeWorkerRelease, At

\* deliverPendingEdgeWorkerReleaseOperations() attempts what it has listed, one by one.
LEMMA deliverPendingEdgeWorkerReleaseOperationsTwins == ASSUME NEW c, Serving(c), deliverPendingEdgeWorkerReleaseOperations(c), EdgeInv PROVE Twins(c)
<1> DEFINE i == in(c)
<1>0. /\ i = call[c].req /\ i.op = "deliverPendingEdgeWorkerReleaseOperations" /\ i.op \in FleetOps
      /\ Sync!Serve(db, i) = Sync!deliverPendingEdgeWorkerReleaseOperations(db, i)
  <2>1. i = call[c].req /\ i.op = "deliverPendingEdgeWorkerReleaseOperations"
    BY DEF in, deliverPendingEdgeWorkerReleaseOperations, At
  <2> QED
    BY <2>1, ServesMethods DEF FleetOps
<1>R. call[c].pc # "start" => FleetRests(Served(c), db, call[c])
  BY <1>0, ServingFrom, RestsOf
<1>I. OperationsInOrder(db)
  BY DEF EdgeInv
<1>1. CASE call[c].pc = "start"
  <2>1. Served(c) = OperationsDone(db, RowsIn(db, Pg!listPendingEdgeWorkerReleaseOperations(db, i.now)), i)
    <3>1. Sync!deliverPendingEdgeWorkerReleaseOperations(db, i) =
            OperationsDone(db, RowsIn(db, Pg!listPendingEdgeWorkerReleaseOperations(db, i.now)), i)
      BY deliverPendingEdgeWorkerReleaseOperationsServed, ServingFrom, <1>I
    <3> QED
      BY <1>0, <1>1, <3>1, ServingFrom DEF Provided
  <2>2. ASSUME NEW k, GoneOn(c, k, "next", [o \in Pg!listPendingEdgeWorkerReleaseOperations(db, i.now) |-> db.operations[o]]) PROVE Rests(Served(c), db, k)
    <3>1. FleetRests(Served(c), db, k)
      BY <1>0, <1>1, <2>1, <2>2 DEF GoneOn, FleetRests, in, RowsIn
    <3> QED
      BY <1>0, <2>2, <3>1, RestsOf DEF GoneOn
  <2>3. Await(c, "next", [o \in Pg!listPendingEdgeWorkerReleaseOperations(db, i.now) |-> db.operations[o]])
    BY <1>0, <1>1 DEF deliverPendingEdgeWorkerReleaseOperations, At, in, loc
  <2> QED
    BY <2>2, <2>3, AwaitTwins
<1>2. CASE call[c].pc = "next"
  <2>1. Served(c) = OperationsDone(db, loc(c), i)
    BY <1>0, <1>R, <1>2 DEF FleetRests, loc
  <2>2. CASE loc(c) = NoRows
    <3>1. Reply(c, "ok")
      BY <1>0, <1>2, <2>2 DEF deliverPendingEdgeWorkerReleaseOperations, At
    <3>2. Served(c).out = "ok" /\ Served(c).db = db
      BY <2>1, <2>2 DEF OperationsDone, Ok
    <3> QED
      BY <3>1, <3>2, ReplyTwins
  <2>3. CASE loc(c) # NoRows
    <3> DEFINE rows == loc(c)
               held(o) == [id |-> o, row |-> loc(c)[o], left |-> Drop(loc(c), o)]
    <3>1. PICK o \in DOMAIN loc(c) : Check(c, requireEdgeWorkerRelease(loc(c)[o].release), "provider", held(o))
      BY <1>0, <1>2, <2>3 DEF deliverPendingEdgeWorkerReleaseOperations, At
    <3>2. RowsOfReleases(db, rows)
      <4>1. ListedAll(loc(c)) /\ OperationsInOrder(db)
        BY <1>0, <1>2 DEF EdgeInv, DelivererCall, InCall, RetryOp, loc, Serving
      <4> QED
        BY <4>1 DEF ListedAll, Listed, OperationsInOrder, RowsOfReleases, Has
    <3> DEFINE check == Ok(db)
               rest == AttemptThen(OperationTried(db, o, rows[o], i), Drop(rows, o), i)
    <3>3. check = requireEdgeWorkerRelease(loc(c)[o].release)
      BY <3>2 DEF requireEdgeWorkerRelease, Require, RowsOfReleases
    <3>4. IsResult(check) /\ check.db = db
      BY DEF IsResult, Ok
    <3>5. Served(c) = Provided(check, rest)
      <4>1. /\ OperationTried(db, o, rows[o], i).out = "ok"
            /\ OperationsDone(OperationTried(db, o, rows[o], i).db, Drop(rows, o), i) = OperationsDone(db, rows, i)
        BY <3>2, OneOperationMore, ServingFrom
      <4> QED
        BY <2>1, <4>1 DEF Provided, AttemptThen, Ok
    <3>6. held(o).id = o /\ held(o).row = rows[o] /\ held(o).left = Drop(rows, o)
      OBVIOUS
    <3> HIDE DEF held, check
    <3>7. ASSUME NEW k, check.out = "ok", GoneOn(c, k, "provider", held(o)) PROVE Rests(rest, db, k)
      <4>1. FleetRests(rest, db, k)
        BY <1>0, <3>6, <3>7 DEF GoneOn, FleetRests, in
      <4> QED
        BY <1>0, <3>7, <4>1, RestsOf DEF GoneOn
    <3>8. Check(c, check, "provider", held(o))
      BY <3>1, <3>3
    <3> HIDE DEF rest
    <3> QED
      BY <3>4, <3>5, <3>7, <3>8, CheckTwins
  <2> QED
    BY <2>2, <2>3
<1>3. CASE call[c].pc = "provider"
  <2> DEFINE w == Ok(deleteProviderEdgeWorkerRelease(db, db.releases[loc(c).row.release].script, i.reply))
         rest == AttemptThen(ReleaseMarked(w.db, loc(c).id, loc(c).row, i), loc(c).left, i)
  <2>1. Served(c) = Provided(w, rest)
    BY <1>0, <1>3, <1>R DEF FleetRests, OperationTried, Provided, Ok, loc
  <2>2. ASSUME NEW k, w.out = "ok", GoneOn(c, k, IF i.reply = "done" THEN "deleted" ELSE "failed", loc(c)) PROVE Rests(rest, w.db, k)
    <3>1. FleetRests(rest, w.db, k)
      BY <1>0, <2>2 DEF GoneOn, FleetRests, in
    <3> QED
      BY <1>0, <2>2, <3>1, RestsOf DEF GoneOn
  <2> HIDE DEF w, rest
  <2>3. Write(c, w, IF i.reply = "done" THEN "deleted" ELSE "failed", loc(c))
    BY <1>0, <1>3 DEF w, deliverPendingEdgeWorkerReleaseOperations, At, in, loc
  <2> QED
    BY <2>1, <2>2, <2>3, WriteTwins
<1>4. CASE call[c].pc = "deleted"
  <2>D. i.reply = "done"
    BY <1>0, <1>4, <1>R DEF FleetRests
  <2> DEFINE w == Pg!updateEdgeWorkerRelease(db, loc(c).row.release, Outcome(i))
         rest == AttemptThen(RowRecorded(w.db, loc(c).id, loc(c).row, i), loc(c).left, i)
  <2>1. Served(c) = Provided(w, rest)
    BY <1>0, <1>4, <2>D, <1>R DEF FleetRests, AttemptThen, ReleaseMarked, Provided, loc
  <2>2. ASSUME NEW k, w.out = "ok", GoneOn(c, k, "succeeded", loc(c)) PROVE Rests(rest, w.db, k)
    <3>1. FleetRests(rest, w.db, k)
      BY <1>0, <1>4, <2>D, <2>2 DEF GoneOn, FleetRests, in
    <3> QED
      BY <1>0, <2>2, <3>1, RestsOf DEF GoneOn
  <2> HIDE DEF w, rest
  <2>3. Write(c, w, "succeeded", loc(c))
    BY <1>0, <1>4, <2>D DEF w, deliverPendingEdgeWorkerReleaseOperations, At, in, loc, Outcome
  <2> QED
    BY <2>1, <2>2, <2>3, WriteTwins
<1>5. CASE call[c].pc = "failed"
  <2>D. i.reply # "done"
    BY <1>0, <1>5, <1>R DEF FleetRests
  <2> DEFINE w == Pg!updateEdgeWorkerRelease(db, loc(c).row.release, Outcome(i))
         rest == AttemptThen(RowRecorded(w.db, loc(c).id, loc(c).row, i), loc(c).left, i)
  <2>1. Served(c) = Provided(w, rest)
    BY <1>0, <1>5, <2>D, <1>R DEF FleetRests, AttemptThen, ReleaseMarked, Provided, loc
  <2>2. ASSUME NEW k, w.out = "ok", GoneOn(c, k, "retry", loc(c)) PROVE Rests(rest, w.db, k)
    <3>1. FleetRests(rest, w.db, k)
      BY <1>0, <1>5, <2>D, <2>2 DEF GoneOn, FleetRests, in
    <3> QED
      BY <1>0, <2>2, <3>1, RestsOf DEF GoneOn
  <2> HIDE DEF w, rest
  <2>3. Write(c, w, "retry", loc(c))
    BY <1>0, <1>5, <2>D DEF w, deliverPendingEdgeWorkerReleaseOperations, At, in, loc, Outcome
  <2> QED
    BY <2>1, <2>2, <2>3, WriteTwins
<1>6. CASE call[c].pc = "succeeded"
  <2>D. i.reply = "done"
    BY <1>0, <1>6, <1>R DEF FleetRests
  <2> DEFINE w == RowRecorded(db, loc(c).id, loc(c).row, i)
         rest == OperationsDone(w.db, loc(c).left, i)
  <2>1. Served(c) = Provided(w, rest)
    BY <1>0, <1>6, <2>D, <1>R DEF FleetRests, AttemptThen, loc
  <2>2. ASSUME NEW k, w.out = "ok", GoneOn(c, k, "next", loc(c).left) PROVE Rests(rest, w.db, k)
    <3>1. FleetRests(rest, w.db, k)
      BY <1>0, <1>6, <2>D, <2>2 DEF GoneOn, FleetRests, in
    <3> QED
      BY <1>0, <2>2, <3>1, RestsOf DEF GoneOn
  <2> HIDE DEF w, rest
  <2>3. Write(c, w, "next", loc(c).left)
    BY <1>0, <1>6, <2>D DEF w, deliverPendingEdgeWorkerReleaseOperations, At, in, loc, RowRecorded, AttemptMade
  <2> QED
    BY <2>1, <2>2, <2>3, WriteTwins
<1>7. CASE call[c].pc = "retry"
  <2>D. i.reply # "done"
    BY <1>0, <1>7, <1>R DEF FleetRests
  <2> DEFINE w == RowRecorded(db, loc(c).id, loc(c).row, i)
         rest == OperationsDone(w.db, loc(c).left, i)
  <2>1. Served(c) = Provided(w, rest)
    BY <1>0, <1>7, <2>D, <1>R DEF FleetRests, AttemptThen, loc
  <2>2. ASSUME NEW k, w.out = "ok", GoneOn(c, k, "next", loc(c).left) PROVE Rests(rest, w.db, k)
    <3>1. FleetRests(rest, w.db, k)
      BY <1>0, <1>7, <2>D, <2>2 DEF GoneOn, FleetRests, in
    <3> QED
      BY <1>0, <2>2, <3>1, RestsOf DEF GoneOn
  <2> HIDE DEF w, rest
  <2>3. Write(c, w, "next", loc(c).left)
    BY <1>0, <1>7, <2>D DEF w, deliverPendingEdgeWorkerReleaseOperations, At, in, loc, RowRecorded, AttemptMade
  <2> QED
    BY <2>1, <2>2, <2>3, WriteTwins
<1> QED
  BY <1>0, <1>1, <1>2, <1>3, <1>4, <1>5, <1>6, <1>7 DEF deliverPendingEdgeWorkerReleaseOperations, At

-----------------------------------------------------------------------------
(* Every step of an operation is a step of its twin: billing.              *)

\* The endpoint has taken the delivery x, or not.
Sent(d, i, x) == [d EXCEPT !.received = IF i.reply = "accepted" THEN @ \union {x} ELSE @]

\* A delivery that was sent is recorded, and the others are sent: all of them were sent.
LEMMA OneDeliveryMore ==
  ASSUME NEW d, DOMAIN d = DOMAIN EmptyDb, NEW i, NEW rows, rows # NoRows, DOMAIN rows \subseteq DOMAIN d.webhooks,
         NEW x \in DOMAIN rows
  PROVE  /\ DeliveryRecorded(Sent(d, i, x), i, rows, x) = DeliveriesMade(d, i, rows)
         /\ DOMAIN rows \subseteq DOMAIN Sent(d, i, x).webhooks
<1> DEFINE e == Sent(d, i, x)
           made(k) == attemptBillingWebhookDelivery(rows[k], i.reply, i.now)
           w == Pg!updateBillingWebhookDelivery(e, x, made(x))
           left == leftToSend(rows, x)
           f == DeliveriesMade(w.db, i, left).db
           g == DeliveriesMade(d, i, rows).db
<1>1. /\ e.webhooks = d.webhooks /\ e.received = IF i.reply = "accepted" THEN d.received \union {x} ELSE d.received
      /\ e = [t \in DOMAIN EmptyDb |-> e[t]]
      /\ \A t \in DOMAIN EmptyDb \ {"received"} : e[t] = d[t]
  BY DEF EmptyDb, Sent
<1> HIDE DEF e, made
<1>2. /\ w.out = "ok" /\ w.db = [t \in DOMAIN EmptyDb |-> w.db[t]]
      /\ w.db.webhooks = [k \in DOMAIN d.webhooks |-> IF k = x THEN made(x) ELSE d.webhooks[k]]
      /\ \A t \in DOMAIN EmptyDb \ {"webhooks"} : w.db[t] = e[t]
  BY <1>1 DEF Pg!updateBillingWebhookDelivery, Pg!Update, Pg!Has, Pg!Ok, EmptyDb
<1> HIDE DEF w
<1>3. /\ DOMAIN left = DOMAIN rows \ {x} /\ \A k \in DOMAIN left : left[k] = rows[k]
      /\ left = NoRows <=> DOMAIN rows = {x}
  BY DEF leftToSend, Drop, NoRows
<1> HIDE DEF left
<1>4. /\ DeliveriesMade(d, i, rows) = Ok(g)
      /\ g = [t \in DOMAIN EmptyDb |-> g[t]]
      /\ g.webhooks = [k \in DOMAIN d.webhooks |-> IF k \in DOMAIN rows THEN made(k) ELSE d.webhooks[k]]
      /\ g.received = IF i.reply = "accepted" THEN d.received \union DOMAIN rows ELSE d.received
      /\ \A t \in DOMAIN EmptyDb \ {"webhooks", "received"} : g[t] = d[t]
  BY DEF DeliveriesMade, Ok, EmptyDb, made
<1>5. /\ DeliveriesMade(w.db, i, left) = Ok(f)
      /\ f = [t \in DOMAIN EmptyDb |-> f[t]]
      /\ f.webhooks = [k \in DOMAIN w.db.webhooks |-> IF k \in DOMAIN left THEN made(k) ELSE w.db.webhooks[k]]
      /\ f.received = IF i.reply = "accepted" THEN w.db.received \union DOMAIN left ELSE w.db.received
      /\ \A t \in DOMAIN EmptyDb \ {"webhooks", "received"} : f[t] = w.db[t]
  <2>1. CASE left = NoRows
    <3>1. DOMAIN left = {} /\ DeliveriesMade(w.db, i, left) = Ok(w.db) /\ f = w.db
      BY <2>1 DEF DeliveriesMade, Ok, NoRows
    <3>2. w.db.webhooks = [k \in DOMAIN w.db.webhooks |-> w.db.webhooks[k]]
      BY <1>2
    <3> QED
      BY <1>2, <3>1, <3>2
  <2>2. CASE left # NoRows
    <3>1. \A k \in DOMAIN left : attemptBillingWebhookDelivery(left[k], i.reply, i.now) = made(k)
      BY <1>3 DEF made
    <3> DEFINE b == w.db
    <3>2. f = [b EXCEPT !.webhooks = [k \in DOMAIN @ |-> IF k \in DOMAIN left
                                        THEN attemptBillingWebhookDelivery(left[k], i.reply, i.now) ELSE @[k]],
                        !.received = IF i.reply = "accepted" THEN @ \union DOMAIN left ELSE @]
      BY <2>2 DEF DeliveriesMade, Ok
    <3>3. DeliveriesMade(w.db, i, left) = Ok(f)
      BY <2>2, <3>2 DEF DeliveriesMade
    <3>4. DOMAIN b = DOMAIN EmptyDb
      BY <1>2
    <3> HIDE DEF b
    <3>5. /\ f = [t \in DOMAIN EmptyDb |-> f[t]]
          /\ f.webhooks = [k \in DOMAIN b.webhooks |-> IF k \in DOMAIN left
                             THEN attemptBillingWebhookDelivery(left[k], i.reply, i.now) ELSE b.webhooks[k]]
          /\ f.received = IF i.reply = "accepted" THEN b.received \union DOMAIN left ELSE b.received
          /\ \A t \in DOMAIN EmptyDb \ {"webhooks", "received"} : f[t] = b[t]
      <4> HIDE DEF f
      <4> QED
        BY <3>2, <3>4 DEF EmptyDb
    <3> QED
      BY <3>1, <3>3, <3>5 DEF b
  <2> QED
    BY <2>1, <2>2
<1> HIDE DEF f, g
<1>6. f.webhooks = g.webhooks
  <2>1. DOMAIN w.db.webhooks = DOMAIN d.webhooks
    BY <1>2
  <2>2. DOMAIN f.webhooks = DOMAIN d.webhooks /\ DOMAIN g.webhooks = DOMAIN d.webhooks
    BY <1>4, <1>5, <2>1
  <2>3. ASSUME NEW k \in DOMAIN d.webhooks PROVE f.webhooks[k] = g.webhooks[k]
    <3>1. w.db.webhooks[k] = IF k = x THEN made(x) ELSE d.webhooks[k]
      BY <1>2
    <3>2. f.webhooks[k] = IF k \in DOMAIN left THEN made(k) ELSE w.db.webhooks[k]
      BY <1>5, <2>1
    <3>3. g.webhooks[k] = IF k \in DOMAIN rows THEN made(k) ELSE d.webhooks[k]
      BY <1>4
    <3> QED
      BY <1>3, <3>1, <3>2, <3>3
  <2>4. f.webhooks = [k \in DOMAIN d.webhooks |-> f.webhooks[k]] /\ g.webhooks = [k \in DOMAIN d.webhooks |-> g.webhooks[k]]
    BY <1>4, <1>5, <2>2, Zenon
  <2> QED
    BY <2>3, <2>4, Zenon
<1>7. f.received = g.received
  <2>1. w.db.received = e.received
    BY <1>2 DEF EmptyDb
  <2>2. {x} \union DOMAIN left = DOMAIN rows
    BY <1>3
  <2>3. (d.received \union {x}) \union DOMAIN left = d.received \union DOMAIN rows
    BY <2>2
  <2>4. CASE i.reply = "accepted"
    BY <1>1, <1>4, <1>5, <2>1, <2>3, <2>4
  <2>5. CASE i.reply # "accepted"
    BY <1>1, <1>4, <1>5, <2>1, <2>5
  <2> QED
    BY <2>4, <2>5
<1>8. \A t \in DOMAIN EmptyDb : f[t] = g[t]
  BY <1>1, <1>2, <1>4, <1>5, <1>6, <1>7
<1>9. f = g
  BY <1>4, <1>5, <1>8, Zenon
<1> QED
  BY <1>1, <1>2, <1>4, <1>5, <1>9 DEF DeliveryRecorded, Provided, e, made, w, left

\* An invoice that has expired goes first, and what its deletion leaves decides alike of the others.
LEMMA OneExpiredMore ==
  ASSUME NEW d, DOMAIN d = DOMAIN EmptyDb, NEW i, NEW s, s \subseteq DOMAIN d.invoices, NEW v \in s,
         decideBillingInvoiceRetention(d.policies, v, i.now) = "delete"
  PROVE  InvoicesGone(d, Expired(d, s, i.now)) = InvoicePruned(d, i, v, s \ {v})
<1> DEFINE E == Expired(d, s, i.now)
           w == Pg!deleteBillingInvoice(d, v)
<1>1. v \in E /\ E \subseteq DOMAIN d.invoices
  BY DEF Expired
<1>2. w.out = "ok" /\ InvoicesGone(w.db, E \ {v}) = InvoicesGone(d, E)
  BY <1>1, OneInvoiceMore
<1>3. w.db.policies = [x \in DOMAIN d.policies \ {v} |-> d.policies[x]]
  <2>1. LeavesInvoices(d, w.db, {v})
    BY OneInvoiceGone DEF Has
  <2> QED
    BY <2>1 DEF LeavesInvoices
<1>4. \A x \in s \ {v} : decideBillingInvoiceRetention(w.db.policies, x, i.now) = decideBillingInvoiceRetention(d.policies, x, i.now)
  BY <1>3 DEF decideBillingInvoiceRetention, Has
<1>5. Expired(w.db, s \ {v}, i.now) = E \ {v}
  BY <1>4 DEF Expired
<1> QED
  BY <1>2, <1>5 DEF InvoicePruned, Provided

\* recordUsageEvent() counts, and inserts an event that it has not found.
LEMMA recordUsageEventTwins == ASSUME NEW c, Serving(c), recordUsageEvent(c) PROVE Twins(c)
<1> DEFINE i == in(c)
<1>0. /\ i = call[c].req /\ i.op = "recordUsageEvent" /\ i.op \in BillingOps
      /\ Sync!Serve(db, i) = Sync!recordUsageEvent(db, i)
  <2>1. i = call[c].req /\ i.op = "recordUsageEvent"
    BY DEF in, recordUsageEvent, At
  <2> QED
    BY <2>1, ServesMethods DEF BillingOps
<1>R. call[c].pc # "start" => BillingRests(Served(c), db, call[c])
  BY <1>0, ServingFrom, RestsOf
<1>1. CASE call[c].pc = "start"
  <2>1. CASE Has(db.projects, i.project) /\ Has(db.usage, i.id)
    <3>1. Served(c) = [out |-> resolveUsageEventReplay(i, db.usage[i.id]), db |-> db]
      <4>1. Sync!recordUsageEvent(db, i) =
              Provided(Found(db, "projects", i.project),
            IF Has(db.usage, i.id) THEN [out |-> resolveUsageEventReplay(i, db.usage[i.id]), db |-> db] ELSE Provided(enforceProjectUsageQuota(db, i), UsageCounted(db, i)))
        BY recordUsageEventServed, ServingFrom
      <4> QED
        BY <1>0, <1>1, <2>1, <4>1, ServingFrom DEF Provided, Found, Require, Ok
    <3>2. Reply(c, resolveUsageEventReplay(i, db.usage[i.id]))
      BY <1>0, <1>1, <2>1 DEF recordUsageEvent, At, in, loc
    <3>3. Served(c).out = resolveUsageEventReplay(i, db.usage[i.id]) /\ Served(c).db = db
      BY <3>1 DEF Ok, Fail
    <3> QED
      BY <3>1, <3>2, <3>3, ReplyTwins
  <2>2. CASE ~(Has(db.projects, i.project) /\ Has(db.usage, i.id))
    <3> DEFINE check == Found(db, "projects", i.project)
           rest == Provided(enforceProjectUsageQuota(db, i), UsageCounted(db, i))
    <3>1. Served(c) = Provided(check, rest)
      <4>1. Sync!recordUsageEvent(db, i) =
              Provided(Found(db, "projects", i.project),
            IF Has(db.usage, i.id) THEN [out |-> resolveUsageEventReplay(i, db.usage[i.id]), db |-> db] ELSE Provided(enforceProjectUsageQuota(db, i), UsageCounted(db, i)))
        BY recordUsageEventServed, ServingFrom
      <4> QED
        BY <1>0, <1>1, <2>2, <4>1, ServingFrom DEF Provided, Found, Require, Ok, Fail
    <3>2. IsResult(check) /\ check.db = db
      BY DEF Provided, Require, Ok, Fail, IsResult, Found
    <3>3. check = requireProject(i.project)
      BY DEF Then, Provided, Require, Ok, Fail, requireProject, Found
    <3>4. check.out = "ok" => ~Has(db.usage, i.id)
      BY <2>2 DEF Found, Require, Fail
    <3>5. ASSUME NEW k, check.out = "ok", GoneOn(c, k, "quota", None) PROVE Rests(rest, db, k)
      <4>1. BillingRests(rest, db, k)
        BY <1>0, <3>5, <3>4 DEF GoneOn, BillingRests, in
      <4> QED
        BY <1>0, <3>5, <4>1, RestsOf DEF GoneOn
    <3> HIDE DEF check, rest
    <3>6. Check(c, check, "quota", None)
      BY <1>0, <1>1, <2>2, <3>3 DEF recordUsageEvent, At, in, loc
    <3> QED
      BY <3>1, <3>2, <3>5, <3>6, CheckTwins
  <2> QED
    BY <2>1, <2>2
<1>2. CASE call[c].pc = "quota"
  <2> DEFINE check == enforceProjectUsageQuota(db, i)
         rest == UsageCounted(db, i)
  <2>1. Served(c) = Provided(check, rest)
    BY <1>0, <1>2, <1>R DEF BillingRests
  <2>2. IsResult(check) /\ check.db = db
    BY DEF Provided, Require, Ok, Fail, IsResult, enforceProjectUsageQuota
  <2>3. ~Has(db.usage, i.id)
    BY <1>0, <1>R, <1>2 DEF BillingRests
  <2>4. ASSUME NEW k, check.out = "ok", GoneOn(c, k, "budget", None) PROVE Rests(rest, db, k)
    <3>1. BillingRests(rest, db, k)
      BY <1>0, <2>4, <2>3 DEF GoneOn, BillingRests, in
    <3> QED
      BY <1>0, <2>4, <3>1, RestsOf DEF GoneOn
  <2> HIDE DEF check, rest
  <2>5. Check(c, check, "budget", None)
    BY <1>0, <1>2 DEF check, recordUsageEvent, At, in, loc
  <2> QED
    BY <2>1, <2>2, <2>4, <2>5, CheckTwins
<1>3. CASE call[c].pc = "budget"
  <2> DEFINE check == enforceProjectBillingBudget(db, i)
         rest == Pg!createUsageEvent(db, i)
  <2>1. Served(c) = Provided(check, rest)
    BY <1>0, <1>3, <1>R DEF BillingRests, UsageCounted
  <2>2. IsResult(check) /\ check.db = db
    BY DEF Provided, Require, Ok, Fail, IsResult, enforceProjectBillingBudget
  <2>3. ~Has(db.usage, i.id)
    BY <1>0, <1>R, <1>3 DEF BillingRests
  <2>4. ASSUME NEW k, check.out = "ok", GoneOn(c, k, "insert", None) PROVE Rests(rest, db, k)
    <3>1. BillingRests(rest, db, k)
      BY <1>0, <2>4, <2>3 DEF GoneOn, BillingRests, in
    <3> QED
      BY <1>0, <2>4, <3>1, RestsOf DEF GoneOn
  <2> HIDE DEF check, rest
  <2>5. Check(c, check, "insert", None)
    BY <1>0, <1>3 DEF check, recordUsageEvent, At, in, loc
  <2> QED
    BY <2>1, <2>2, <2>4, <2>5, CheckTwins
<1>4. CASE call[c].pc = "insert"
  <2>1. Served(c) = Pg!createUsageEvent(db, i) /\ ~Has(db.usage, i.id)
    BY <1>0, <1>R, <1>4 DEF BillingRests
  <2>2. Pg!createUsageEvent(db, i).out # "conflict"
    BY <2>1, NoUniqueKey DEF Pg!createUsageEvent, Pg!Insert, Pg!Has, Has, Pg!Ok, Pg!Fail
  <2>3. Finish(c, Pg!createUsageEvent(db, i))
    BY <1>0, <1>4, <2>2 DEF recordUsageEvent, At, in
  <2> QED
    BY <2>1, <2>3, FinishTwins
<1>5. CASE call[c].pc = "raced"
  <2> QED
    BY <1>0, <1>R, <1>5 DEF BillingRests
<1> QED
  BY <1>0, <1>1, <1>2, <1>3, <1>4, <1>5 DEF recordUsageEvent, At

\* issueOrganizationBillingInvoice() makes the invoice of a period that has none.
LEMMA issueOrganizationBillingInvoiceTwins == ASSUME NEW c, Serving(c), issueOrganizationBillingInvoice(c), OneInvoicePerPeriod(db) PROVE Twins(c)
<1> DEFINE i == in(c)
<1>0. /\ i = call[c].req /\ i.op = "issueOrganizationBillingInvoice" /\ i.op \in BillingOps
      /\ Sync!Serve(db, i) = Sync!issueOrganizationBillingInvoice(db, i)
  <2>1. i = call[c].req /\ i.op = "issueOrganizationBillingInvoice"
    BY DEF in, issueOrganizationBillingInvoice, At
  <2> QED
    BY <2>1, ServesMethods DEF BillingOps
<1>R. call[c].pc # "start" => BillingRests(Served(c), db, call[c])
  BY <1>0, ServingFrom, RestsOf
<1>1. CASE call[c].pc = "start"
  <2>1. CASE Has(db.organizations, i.org) /\ InvoicesOf(db, i) # {}
    <3>1. PICK n \in InvoicesOf(db, i) : Await(c, "enqueue", heldInvoice(n, db.invoices[n], FALSE))
      BY <1>0, <1>1, <2>1
      DEF issueOrganizationBillingInvoice, At, in, getOrganizationBillingInvoiceByPeriod, InvoicesOf, issuedBefore
    <3> DEFINE held == heldInvoice(n, db.invoices[n], FALSE)
    <3>2. Served(c) = WebhookEnqueued(db, KeyOf(held))
      <4>1. Sync!issueOrganizationBillingInvoice(db, i) =
            Provided(Found(db, "organizations", i.org),
              IF InvoicesOf(db, i) # {}
              THEN LET v == CHOOSE v \in InvoicesOf(db, i) : TRUE IN
                     WebhookEnqueued(db, billingInvoiceIssuedIdempotencyKey(v, db.invoices[v]))
              ELSE InvoiceInserted(db, i, InvoiceMade(db, i)))
        BY issueOrganizationBillingInvoiceServed, ServingFrom
      <4>2. n = CHOOSE x \in InvoicesOf(db, i) : TRUE
        BY DEF OneInvoicePerPeriod, InvoicesOf
      <4>3. KeyOf(held) = billingInvoiceIssuedIdempotencyKey(n, db.invoices[n])
        BY DEF KeyOf, heldInvoice
      <4> QED
        BY <1>0, <1>1, <2>1, <4>1, <4>2, <4>3, ServingFrom DEF Provided, Found, Require, Ok
    <3> HIDE DEF held
    <3>3. ASSUME NEW k, GoneOn(c, k, "enqueue", held) PROVE Rests(Served(c), db, k)
      <4>1. BillingRests(Served(c), db, k)
        BY <1>0, <3>2, <3>3 DEF GoneOn, BillingRests, in
      <4> QED
        BY <1>0, <3>3, <4>1, RestsOf DEF GoneOn
    <3>4. Await(c, "enqueue", held)
      BY <3>1 DEF held
    <3> QED
      BY <3>3, <3>4, AwaitTwins
  <2>2. CASE ~(Has(db.organizations, i.org) /\ InvoicesOf(db, i) # {})
    <3> DEFINE check == Found(db, "organizations", i.org)
           rest == InvoiceInserted(db, i, InvoiceMade(db, i))
    <3>1. Served(c) = Provided(check, rest)
      <4>1. Sync!issueOrganizationBillingInvoice(db, i) =
              Provided(Found(db, "organizations", i.org),
            IF InvoicesOf(db, i) # {}
            THEN LET v == CHOOSE v \in InvoicesOf(db, i) : TRUE IN
                 WebhookEnqueued(db, billingInvoiceIssuedIdempotencyKey(v, db.invoices[v]))
            ELSE InvoiceInserted(db, i, InvoiceMade(db, i)))
        BY issueOrganizationBillingInvoiceServed, ServingFrom
      <4> QED
        BY <1>0, <1>1, <2>2, <4>1, ServingFrom DEF Provided, Found, Require, Ok, Fail
    <3>2. IsResult(check) /\ check.db = db
      BY DEF Provided, Require, Ok, Fail, IsResult, Found
    <3>3. check = requireOrganization(i.org)
      BY DEF Then, Provided, Require, Ok, Fail, requireOrganization, Found
    <3>4. check.out = "ok" => InvoicesOf(db, i) = {}
      BY <2>2 DEF Found, Require, Fail
    <3>5. ASSUME NEW k, check.out = "ok", GoneOn(c, k, "summaries", None) PROVE Rests(rest, db, k)
      <4>1. BillingRests(rest, db, k)
        BY <1>0, <3>5, <3>4 DEF GoneOn, BillingRests, in
      <4> QED
        BY <1>0, <3>5, <4>1, RestsOf DEF GoneOn
    <3> HIDE DEF check, rest
    <3>6. Check(c, check, "summaries", None)
      BY <1>0, <1>1, <2>2, <3>3 DEF issueOrganizationBillingInvoice, At, in, loc,
         getOrganizationBillingInvoiceByPeriod, InvoicesOf
    <3> QED
      BY <3>1, <3>2, <3>5, <3>6, CheckTwins
  <2> QED
    BY <2>1, <2>2
<1>2. CASE call[c].pc = "summaries"
  <2>1. Served(c) = InvoiceInserted(db, i, InvoiceMade(db, i))
    BY <1>0, <1>2, <1>R DEF BillingRests
  <2>2. ASSUME NEW k, GoneOn(c, k, "insert", createOrganizationBillingStatement(db, i.org, i.at)) PROVE Rests(Served(c), db, k)
    <3>1. BillingRests(Served(c), db, k)
      BY <1>0, <1>2, <2>1, <2>2, <1>R DEF GoneOn, BillingRests, in, InvoiceMade
    <3> QED
      BY <1>0, <2>2, <3>1, RestsOf DEF GoneOn
  <2>3. Await(c, "insert", createOrganizationBillingStatement(db, i.org, i.at))
    BY <1>0, <1>2 DEF issueOrganizationBillingInvoice, At, in, loc
  <2> QED
    BY <2>2, <2>3, AwaitTwins
<1>3. CASE call[c].pc = "insert"
  <2> DEFINE w == Pg!createBillingInvoice(db, i.id, createOrganizationBillingInvoice(i, loc(c)))
             held == heldInvoice(i.id, createOrganizationBillingInvoice(i, loc(c)), TRUE)
             rest == InvoiceAnnounced(w.db, i, KeyOf(held))
  <2>1. Served(c) = Provided(w, rest) /\ InvoicesOf(db, i) = {}
    BY <1>0, <1>R, <1>3 DEF BillingRests, InvoiceInserted, KeyOf, heldInvoice, loc
  <2>2. w.out = "conflict" => w = Fail(db, "conflict")
    BY DEF Pg!createBillingInvoice, Pg!Insert, Pg!Fail, Pg!Ok, Fail
  <2>3. IF w.out = "conflict" THEN Await(c, "raced", None) ELSE Write(c, w, "audit", held)
    BY <1>0, <1>3 DEF issueOrganizationBillingInvoice, At, in
  <2> HIDE DEF w, held
  <2>4. CASE w.out = "conflict"
    <3>1. Served(c) = Fail(db, "conflict")
      BY <2>1, <2>2, <2>4 DEF Provided
    <3>2. ASSUME NEW k, GoneOn(c, k, "raced", None) PROVE Rests(Served(c), db, k)
      <4>1. BillingRests(Served(c), db, k)
        BY <1>0, <2>1, <3>1, <3>2 DEF GoneOn, BillingRests, in
      <4> QED
        BY <1>0, <3>2, <4>1, RestsOf DEF GoneOn
    <3> QED
      BY <2>3, <2>4, <3>2, AwaitTwins
  <2>5. CASE w.out # "conflict"
    <3>1. ASSUME NEW k, w.out = "ok", GoneOn(c, k, "audit", held) PROVE Rests(rest, w.db, k)
      <4>1. BillingRests(rest, w.db, k)
        BY <1>0, <3>1 DEF GoneOn, BillingRests, in
      <4> QED
        BY <1>0, <3>1, <4>1, RestsOf DEF GoneOn
    <3> HIDE DEF rest
    <3> QED
      BY <2>1, <2>3, <2>5, <3>1, WriteTwins
  <2> QED
    BY <2>4, <2>5
<1>4. CASE call[c].pc = "audit"
  <2> DEFINE w == recordCustomerAuditEvent(db, "billing_invoice.issued", i.id, i.org, None)
         rest == WebhookEnqueued(w.db, KeyOf(loc(c)))
  <2>1. Served(c) = Provided(w, rest)
    BY <1>0, <1>4, <1>R DEF BillingRests, InvoiceAnnounced, loc
  <2>2. ASSUME NEW k, w.out = "ok", GoneOn(c, k, "enqueue", loc(c)) PROVE Rests(rest, w.db, k)
    <3>1. BillingRests(rest, w.db, k)
      BY <1>0, <2>2 DEF GoneOn, BillingRests, in
    <3> QED
      BY <1>0, <2>2, <3>1, RestsOf DEF GoneOn
  <2> HIDE DEF w, rest
  <2>3. Write(c, w, "enqueue", loc(c))
    BY <1>0, <1>4 DEF w, issueOrganizationBillingInvoice, At, in, loc
  <2> QED
    BY <2>1, <2>2, <2>3, WriteTwins
<1>5. CASE call[c].pc = "raced"
  <2>1. Served(c) = Fail(db, "conflict") /\ InvoicesOf(db, i) = {}
    BY <1>0, <1>R, <1>5 DEF BillingRests
  <2>2. Reply(c, "conflict")
    BY <1>0, <1>5, <2>1 DEF issueOrganizationBillingInvoice, At, in, getOrganizationBillingInvoiceByPeriod, InvoicesOf
  <2> QED
    BY <2>1, <2>2, ReplyTwins DEF Fail
<1> QED
  BY <1>0, <1>1, <1>2, <1>3, <1>4, <1>5 DEF issueOrganizationBillingInvoice, At

\* enqueueBillingInvoiceWebhook() inserts a delivery that it has not found.
LEMMA enqueueBillingInvoiceWebhookTwins == ASSUME NEW c, Serving(c), enqueueBillingInvoiceWebhook(c) PROVE Twins(c)
<1> DEFINE i == in(c)
<1>0. /\ i = call[c].req /\ i.op = "issueOrganizationBillingInvoice" /\ i.op \in BillingOps
      /\ Sync!Serve(db, i) = Sync!issueOrganizationBillingInvoice(db, i)
  <2>1. i = call[c].req /\ i.op = "issueOrganizationBillingInvoice"
    BY DEF in, enqueueBillingInvoiceWebhook, At
  <2> QED
    BY <2>1, ServesMethods DEF BillingOps
<1>R. call[c].pc # "start" => BillingRests(Served(c), db, call[c])
  BY <1>0, ServingFrom, RestsOf
<1>1. CASE call[c].pc = "enqueue"
  <2>1. CASE Has(db.webhooks, KeyOf(loc(c)))
    <3>1. Served(c) = Ok(db)
      BY <1>0, <1>1, <2>1, <1>R DEF BillingRests, WebhookEnqueued, loc
    <3>2. Reply(c, "ok")
      BY <1>0, <1>1, <2>1 DEF enqueueBillingInvoiceWebhook, At, in, loc, KeyOf
    <3>3. Served(c).out = "ok" /\ Served(c).db = db
      BY <3>1 DEF Ok, Fail
    <3> QED
      BY <3>1, <3>2, <3>3, ReplyTwins
  <2>2. CASE ~Has(db.webhooks, KeyOf(loc(c)))
    <3>1. Served(c) = Pg!createBillingWebhookDelivery(db, KeyOf(loc(c)))
      BY <1>0, <1>1, <2>2, <1>R DEF BillingRests, WebhookEnqueued, loc
    <3>2. ASSUME NEW k, GoneOn(c, k, "enqueueInsert", loc(c)) PROVE Rests(Served(c), db, k)
      <4>1. BillingRests(Served(c), db, k)
        BY <1>0, <1>1, <2>2, <3>1, <3>2 DEF GoneOn, BillingRests, in
      <4> QED
        BY <1>0, <3>2, <4>1, RestsOf DEF GoneOn
    <3>3. Await(c, "enqueueInsert", loc(c))
      BY <1>0, <1>1, <2>2 DEF enqueueBillingInvoiceWebhook, At, in, loc, KeyOf
    <3> QED
      BY <3>2, <3>3, AwaitTwins
  <2> QED
    BY <2>1, <2>2
<1>2. CASE call[c].pc = "enqueueInsert"
  <2> DEFINE r == Pg!createBillingWebhookDelivery(db, KeyOf(loc(c)))
  <2>1. Served(c) = r /\ ~Has(db.webhooks, KeyOf(loc(c)))
    BY <1>0, <1>R, <1>2 DEF BillingRests, loc
  <2>2. r.out # "conflict"
    BY <2>1, NoUniqueKey DEF Pg!createBillingWebhookDelivery, Pg!Insert, Pg!Has, Has, Pg!Ok, Pg!Fail
  <2>3. IF r.out = "conflict" THEN Await(c, "enqueueRaced", loc(c)) ELSE Finish(c, r)
    BY <1>0, <1>2 DEF enqueueBillingInvoiceWebhook, At, KeyOf
  <2> HIDE DEF r
  <2> QED
    BY <2>1, <2>2, <2>3, FinishTwins
<1>3. CASE call[c].pc = "enqueueRaced"
  <2> QED
    BY <1>0, <1>R, <1>3 DEF BillingRests
<1> QED
  BY <1>0, <1>1, <1>2, <1>3 DEF enqueueBillingInvoiceWebhook, At

\* deliverPendingBillingWebhooks() sends what it has listed, one by one.
LEMMA deliverPendingBillingWebhooksTwins == ASSUME NEW c, Serving(c), deliverPendingBillingWebhooks(c) PROVE Twins(c)
<1> DEFINE i == in(c)
<1>0. /\ i = call[c].req /\ i.op = "deliverPendingBillingWebhooks" /\ i.op \in BillingOps
      /\ Sync!Serve(db, i) = Sync!deliverPendingBillingWebhooks(db, i)
  <2>1. i = call[c].req /\ i.op = "deliverPendingBillingWebhooks"
    BY DEF in, deliverPendingBillingWebhooks, At
  <2> QED
    BY <2>1, ServesMethods DEF BillingOps
<1>R. call[c].pc # "start" => BillingRests(Served(c), db, call[c])
  BY <1>0, ServingFrom, RestsOf
<1>1. CASE call[c].pc = "start"
  <2>1. Served(c) = DeliveriesMade(db, i, DueRows(db, i))
    <3>1. Sync!deliverPendingBillingWebhooks(db, i) =
            DeliveriesMade(db, i, DueRows(db, i))
      BY deliverPendingBillingWebhooksServed, ServingFrom
    <3> QED
      BY <1>0, <1>1, <3>1, ServingFrom DEF Provided
  <2>2. ASSUME NEW k, GoneOn(c, k, "send", [x \in dueDeliveries(db, i.now) |-> db.webhooks[x]]) PROVE Rests(Served(c), db, k)
    <3>1. BillingRests(Served(c), db, k)
      BY <1>0, <1>1, <2>1, <2>2 DEF GoneOn, BillingRests, in, DueRows, dueDeliveries
    <3> QED
      BY <1>0, <2>2, <3>1, RestsOf DEF GoneOn
  <2>3. Await(c, "send", [x \in dueDeliveries(db, i.now) |-> db.webhooks[x]])
    BY <1>0, <1>1 DEF deliverPendingBillingWebhooks, At, in, loc
  <2> QED
    BY <2>2, <2>3, AwaitTwins
<1>2. CASE call[c].pc = "send"
  <2>1. Served(c) = DeliveriesMade(db, i, loc(c)) /\ DOMAIN loc(c) \subseteq DOMAIN db.webhooks
    BY <1>0, <1>R, <1>2 DEF BillingRests, loc
  <2>2. CASE loc(c) = NoRows
    <3>1. Reply(c, "ok")
      BY <1>0, <1>2, <2>2 DEF deliverPendingBillingWebhooks, At
    <3>2. Served(c).out = "ok" /\ Served(c).db = db
      BY <2>1, <2>2 DEF DeliveriesMade, Ok
    <3> QED
      BY <3>1, <3>2, ReplyTwins
  <2>3. CASE loc(c) # NoRows
    <3> DEFINE rows == loc(c)
               held(x) == [sent |-> x, rows |-> loc(c)]
    <3>1. PICK x \in DOMAIN loc(c) : db' = Sent(db, i, x) /\ Goto(c, "record", held(x))
      BY <1>0, <1>2, <2>3 DEF deliverPendingBillingWebhooks, At, in, Sent
    <3> DEFINE w == Ok(Sent(db, i, x))
               rest == DeliveryRecorded(w.db, i, rows, x)
    <3>2. w.out = "ok" /\ w.db = Sent(db, i, x)
      BY DEF Ok
    <3>3. rest = DeliveriesMade(db, i, rows) /\ DOMAIN rows \subseteq DOMAIN w.db.webhooks
      BY <2>1, <2>3, <3>2, OneDeliveryMore, ServingFrom
    <3>4. Served(c) = Provided(w, rest)
      BY <2>1, <3>3, <3>2 DEF Provided
    <3>5. held(x).sent = x /\ held(x).rows = rows
      OBVIOUS
    <3>6. Write(c, w, "record", held(x))
      BY <3>1, <3>2 DEF Write
    <3> HIDE DEF w, held
    <3>7. ASSUME NEW k, w.out = "ok", GoneOn(c, k, "record", held(x)) PROVE Rests(rest, w.db, k)
      <4>1. BillingRests(rest, w.db, k)
        BY <1>0, <3>1, <3>3, <3>5, <3>7 DEF GoneOn, BillingRests, in
      <4> QED
        BY <1>0, <3>7, <4>1, RestsOf DEF GoneOn
    <3> HIDE DEF rest
    <3> QED
      BY <3>4, <3>6, <3>7, WriteTwins
  <2> QED
    BY <2>2, <2>3
<1>3. CASE call[c].pc = "record"
  <2> DEFINE w == Pg!updateBillingWebhookDelivery(db, loc(c).sent,
                 attemptBillingWebhookDelivery(loc(c).rows[loc(c).sent], i.reply, i.now))
         rest == DeliveriesMade(w.db, i, leftToSend(loc(c).rows, loc(c).sent))
  <2>1. Served(c) = Provided(w, rest)
    BY <1>0, <1>3, <1>R DEF BillingRests, DeliveryRecorded, loc
  <2>2. DOMAIN leftToSend(loc(c).rows, loc(c).sent) \subseteq DOMAIN w.db.webhooks
    <3>1. DOMAIN loc(c).rows \subseteq DOMAIN db.webhooks
    BY <1>0, <1>R, <1>3 DEF BillingRests, loc
    <3>2. DOMAIN w.db.webhooks = DOMAIN db.webhooks
      BY DEF Pg!updateBillingWebhookDelivery, Pg!Update, Pg!Ok, Pg!Fail
    <3> QED
      BY <3>1, <3>2 DEF leftToSend, Drop
  <2>3. ASSUME NEW k, w.out = "ok", GoneOn(c, k, "send", leftToSend(loc(c).rows, loc(c).sent)) PROVE Rests(rest, w.db, k)
    <3>1. BillingRests(rest, w.db, k)
      BY <1>0, <2>3, <2>2 DEF GoneOn, BillingRests, in
    <3> QED
      BY <1>0, <2>3, <3>1, RestsOf DEF GoneOn
  <2> HIDE DEF w, rest
  <2>4. Write(c, w, "send", leftToSend(loc(c).rows, loc(c).sent))
    BY <1>0, <1>3 DEF w, deliverPendingBillingWebhooks, At, in, loc
  <2> QED
    BY <2>1, <2>3, <2>4, WriteTwins
<1> QED
  BY <1>0, <1>1, <1>2, <1>3 DEF deliverPendingBillingWebhooks, At

\* createBillingInvoiceAdjustment() checks the invoice and writes.
LEMMA createBillingInvoiceAdjustmentTwins == ASSUME NEW c, Serving(c), createBillingInvoiceAdjustment(c) PROVE Twins(c)
<1> DEFINE i == in(c)
<1>0. /\ i = call[c].req /\ i.op = "createBillingInvoiceAdjustment" /\ i.op \in BillingOps
      /\ Sync!Serve(db, i) = Sync!createBillingInvoiceAdjustment(db, i)
  <2>1. i = call[c].req /\ i.op = "createBillingInvoiceAdjustment"
    BY DEF in, createBillingInvoiceAdjustment, At
  <2> QED
    BY <2>1, ServesMethods DEF BillingOps
<1>R. call[c].pc # "start" => BillingRests(Served(c), db, call[c])
  BY <1>0, ServingFrom, RestsOf
<1>1. CASE call[c].pc = "start"
  <2> DEFINE check == Provided(Found(db, "invoices", i.invoice), normalizeBillingInvoiceAdjustmentInput(db, i))
         rest == Pg!createBillingInvoiceAdjustment(db, i.id, i.invoice)
  <2>1. Served(c) = Provided(check, rest)
    <3>1. Sync!createBillingInvoiceAdjustment(db, i) =
            Provided(Found(db, "invoices", i.invoice), Provided(normalizeBillingInvoiceAdjustmentInput(db, i), Pg!createBillingInvoiceAdjustment(db, i.id, i.invoice)))
      BY createBillingInvoiceAdjustmentServed, ServingFrom
    <3> QED
      BY <1>0, <1>1, <3>1, ServingFrom DEF Provided
  <2>2. IsResult(check) /\ check.db = db
    BY DEF Provided, Require, Ok, Fail, IsResult, Found, normalizeBillingInvoiceAdjustmentInput
  <2>3. check = Then(getBillingInvoice(i.invoice), LAMBDA e : normalizeBillingInvoiceAdjustmentInput(e, i))
    BY DEF Then, Provided, Require, Ok, Fail, getBillingInvoice, Found, normalizeBillingInvoiceAdjustmentInput
  <2>4. ASSUME NEW k, check.out = "ok", GoneOn(c, k, "write", None) PROVE Rests(rest, db, k)
    <3>1. BillingRests(rest, db, k)
      BY <1>0, <2>4 DEF GoneOn, BillingRests, in
    <3> QED
      BY <1>0, <2>4, <3>1, RestsOf DEF GoneOn
  <2> HIDE DEF check, rest
  <2>5. Check(c, check, "write", None)
    BY <1>0, <1>1, <2>3 DEF createBillingInvoiceAdjustment, At, in, loc
  <2> QED
    BY <2>1, <2>2, <2>4, <2>5, CheckTwins
<1>2. CASE call[c].pc = "write"
  <2>1. Served(c) = Pg!createBillingInvoiceAdjustment(db, i.id, i.invoice)
    BY <1>0, <1>2, <1>R DEF BillingRests
  <2>2. Finish(c, Pg!createBillingInvoiceAdjustment(db, i.id, i.invoice))
    BY <1>0, <1>2 DEF createBillingInvoiceAdjustment, At, in, loc
  <2> QED
    BY <2>1, <2>2, FinishTwins
<1> QED
  BY <1>0, <1>1, <1>2 DEF createBillingInvoiceAdjustment, At

\* setBillingInvoiceRetentionPolicy() checks the invoice and writes.
LEMMA setBillingInvoiceRetentionPolicyTwins == ASSUME NEW c, Serving(c), setBillingInvoiceRetentionPolicy(c) PROVE Twins(c)
<1> DEFINE i == in(c)
<1>0. /\ i = call[c].req /\ i.op = "setBillingInvoiceRetentionPolicy" /\ i.op \in BillingOps
      /\ Sync!Serve(db, i) = Sync!setBillingInvoiceRetentionPolicy(db, i)
  <2>1. i = call[c].req /\ i.op = "setBillingInvoiceRetentionPolicy"
    BY DEF in, setBillingInvoiceRetentionPolicy, At
  <2> QED
    BY <2>1, ServesMethods DEF BillingOps
<1>R. call[c].pc # "start" => BillingRests(Served(c), db, call[c])
  BY <1>0, ServingFrom, RestsOf
<1>1. CASE call[c].pc = "start"
  <2> DEFINE check == Provided(Found(db, "invoices", i.invoice), normalizeBillingInvoiceRetentionPolicyInput(db, i))
         rest == Pg!upsertBillingInvoiceRetentionPolicy(db, i)
  <2>1. Served(c) = Provided(check, rest)
    <3>1. Sync!setBillingInvoiceRetentionPolicy(db, i) =
            Provided(Found(db, "invoices", i.invoice), Provided(normalizeBillingInvoiceRetentionPolicyInput(db, i), Pg!upsertBillingInvoiceRetentionPolicy(db, i)))
      BY setBillingInvoiceRetentionPolicyServed, ServingFrom
    <3> QED
      BY <1>0, <1>1, <3>1, ServingFrom DEF Provided
  <2>2. IsResult(check) /\ check.db = db
    BY DEF Provided, Require, Ok, Fail, IsResult, Found, normalizeBillingInvoiceRetentionPolicyInput
  <2>3. check = Then(getBillingInvoice(i.invoice), LAMBDA e : normalizeBillingInvoiceRetentionPolicyInput(e, i))
    BY DEF Then, Provided, Require, Ok, Fail, getBillingInvoice, Found,
       normalizeBillingInvoiceRetentionPolicyInput
  <2>4. ASSUME NEW k, check.out = "ok", GoneOn(c, k, "write", None) PROVE Rests(rest, db, k)
    <3>1. BillingRests(rest, db, k)
      BY <1>0, <2>4 DEF GoneOn, BillingRests, in
    <3> QED
      BY <1>0, <2>4, <3>1, RestsOf DEF GoneOn
  <2> HIDE DEF check, rest
  <2>5. Check(c, check, "write", None)
    BY <1>0, <1>1, <2>3 DEF setBillingInvoiceRetentionPolicy, At, in, loc
  <2> QED
    BY <2>1, <2>2, <2>4, <2>5, CheckTwins
<1>2. CASE call[c].pc = "write"
  <2>1. Served(c) = Pg!upsertBillingInvoiceRetentionPolicy(db, i)
    BY <1>0, <1>2, <1>R DEF BillingRests
  <2>2. Finish(c, Pg!upsertBillingInvoiceRetentionPolicy(db, i))
    BY <1>0, <1>2 DEF setBillingInvoiceRetentionPolicy, At, in, loc
  <2> QED
    BY <2>1, <2>2, FinishTwins
<1> QED
  BY <1>0, <1>1, <1>2 DEF setBillingInvoiceRetentionPolicy, At

\* pruneBillingInvoices() deletes what has expired of what it has listed.
LEMMA pruneBillingInvoicesTwins == ASSUME NEW c, Serving(c), pruneBillingInvoices(c), IsFiniteSet(DOMAIN db.invoices) PROVE Twins(c)
<1> DEFINE i == in(c)
<1>0. /\ i = call[c].req /\ i.op = "pruneBillingInvoices" /\ i.op \in BillingOps
      /\ Sync!Serve(db, i) = Sync!pruneBillingInvoices(db, i)
  <2>1. i = call[c].req /\ i.op = "pruneBillingInvoices"
    BY DEF in, pruneBillingInvoices, At
  <2> QED
    BY <2>1, ServesMethods DEF BillingOps
<1>R. call[c].pc # "start" => BillingRests(Served(c), db, call[c])
  BY <1>0, ServingFrom, RestsOf
<1>1. CASE call[c].pc = "start"
  <2> DEFINE check == Found(db, "organizations", i.org)
         rest == InvoicesGone(db, Expired(db, {v \in DOMAIN db.invoices : db.invoices[v].org = i.org}, i.now))
  <2>1. Served(c) = Provided(check, rest)
    <3>1. Sync!pruneBillingInvoices(db, i) =
            Provided(Found(db, "organizations", i.org), InvoicesGone(db, Expired(db, {v \in DOMAIN db.invoices : db.invoices[v].org = i.org}, i.now)))
      BY pruneBillingInvoicesServed, ServingFrom
    <3> QED
      BY <1>0, <1>1, <3>1, ServingFrom DEF Provided
  <2>2. IsResult(check) /\ check.db = db
    BY DEF Provided, Require, Ok, Fail, IsResult, Found
  <2>3. check = requireOrganization(i.org)
    BY DEF Then, Provided, Require, Ok, Fail, requireOrganization, Found
  <2>4. ASSUME NEW k, check.out = "ok", GoneOn(c, k, "policy", {v \in DOMAIN db.invoices : db.invoices[v].org = i.org}) PROVE Rests(rest, db, k)
    <3>1. BillingRests(rest, db, k)
      BY <1>0, <2>4 DEF GoneOn, BillingRests, in
    <3> QED
      BY <1>0, <2>4, <3>1, RestsOf DEF GoneOn
  <2> HIDE DEF check, rest
  <2>5. Check(c, check, "policy", {v \in DOMAIN db.invoices : db.invoices[v].org = i.org})
    BY <1>0, <1>1, <2>3 DEF pruneBillingInvoices, At, in, loc
  <2> QED
    BY <2>1, <2>2, <2>4, <2>5, CheckTwins
<1>2. CASE call[c].pc = "policy"
  <2>1. Served(c) = InvoicesGone(db, Expired(db, loc(c), i.now)) /\ loc(c) \subseteq DOMAIN db.invoices
    BY <1>0, <1>R, <1>2 DEF BillingRests, loc
  <2>2. CASE loc(c) = {}
    <3>1. Reply(c, "ok")
      BY <1>0, <1>2, <2>2 DEF pruneBillingInvoices, At
    <3>2. Served(c).out = "ok" /\ Served(c).db = db
      BY <2>1, <2>2 DEF InvoicesGone, Expired, Ok
    <3> QED
      BY <3>1, <3>2, ReplyTwins
  <2>3. CASE loc(c) # {}
    <3> DEFINE left(x) == loc(c) \ {x}
               held(x) == [expired |-> x, left |-> left(x)]
    <3>1. PICK v \in loc(c) : IF decideBillingInvoiceRetention(db.policies, v, i.now) = "retain"
                              THEN Await(c, "policy", left(v)) ELSE Await(c, "delete", held(v))
      BY <1>0, <1>2, <2>3 DEF pruneBillingInvoices, At, in
    <3>2. CASE decideBillingInvoiceRetention(db.policies, v, i.now) = "retain"
      <4>1. Expired(db, loc(c), i.now) = Expired(db, left(v), i.now) /\ left(v) \subseteq DOMAIN db.invoices
        BY <2>1, <3>2 DEF Expired
      <4>2. Await(c, "policy", left(v))
        BY <3>1, <3>2
      <4>3. ASSUME NEW k, GoneOn(c, k, "policy", left(v)) PROVE Rests(Served(c), db, k)
        <5> HIDE DEF left
        <5>1. BillingRests(Served(c), db, k)
          BY <1>0, <2>1, <4>1, <4>3 DEF GoneOn, BillingRests, in
        <5> QED
          BY <1>0, <4>3, <5>1, RestsOf DEF GoneOn
      <4> QED
        BY <4>2, <4>3, AwaitTwins
    <3>3. CASE decideBillingInvoiceRetention(db.policies, v, i.now) # "retain"
      <4>1. Served(c) = InvoicePruned(db, i, v, left(v))
        <5>1. decideBillingInvoiceRetention(db.policies, v, i.now) = "delete"
          BY <3>3 DEF decideBillingInvoiceRetention
        <5> QED
          BY <2>1, <5>1, OneExpiredMore, ServingFrom
      <4>2. Await(c, "delete", held(v))
        BY <3>1, <3>3
      <4>3. held(v).expired = v /\ held(v).left = left(v) /\ v \notin left(v) /\ {v} \union left(v) \subseteq DOMAIN db.invoices
        BY <2>1
      <4>4. ASSUME NEW k, GoneOn(c, k, "delete", held(v)) PROVE Rests(Served(c), db, k)
        <5> HIDE DEF left, held
        <5>1. BillingRests(Served(c), db, k)
          BY <1>0, <4>1, <4>3, <4>4 DEF GoneOn, BillingRests, in
        <5> QED
          BY <1>0, <4>4, <5>1, RestsOf DEF GoneOn
      <4> QED
        BY <4>2, <4>4, AwaitTwins
    <3> QED
      BY <3>2, <3>3
  <2> QED
    BY <2>2, <2>3
<1>3. CASE call[c].pc = "delete"
  <2> DEFINE w == Pg!deleteBillingInvoice(db, loc(c).expired)
         rest == InvoicesGone(w.db, Expired(w.db, loc(c).left, i.now))
  <2>1. Served(c) = Provided(w, rest)
    BY <1>0, <1>3, <1>R DEF BillingRests, InvoicePruned, loc
  <2>2. loc(c).left \subseteq DOMAIN w.db.invoices
    <3>1. Has(db.invoices, loc(c).expired) /\ loc(c).left \subseteq DOMAIN db.invoices \ {loc(c).expired}
    BY <1>0, <1>R, <1>3 DEF BillingRests, loc, Has
    <3>2. LeavesInvoices(db, w.db, {loc(c).expired})
      BY <3>1, OneInvoiceGone, ServingFrom
    <3> QED
      BY <3>1, <3>2 DEF LeavesInvoices
  <2>3. ASSUME NEW k, w.out = "ok", GoneOn(c, k, "policy", loc(c).left) PROVE Rests(rest, w.db, k)
    <3>1. BillingRests(rest, w.db, k)
      BY <1>0, <2>3, <2>2 DEF GoneOn, BillingRests, in
    <3> QED
      BY <1>0, <2>3, <3>1, RestsOf DEF GoneOn
  <2> HIDE DEF w, rest
  <2>4. Write(c, w, "policy", loc(c).left)
    BY <1>0, <1>3 DEF w, pruneBillingInvoices, At, in, loc
  <2> QED
    BY <2>1, <2>3, <2>4, WriteTwins
<1> QED
  BY <1>0, <1>1, <1>2, <1>3 DEF pruneBillingInvoices, At

-----------------------------------------------------------------------------
(* The two control planes.                                                 *)

\* Every operation of the asynchronous control plane takes the steps of its twin.
LEMMA StepTwins ==
  ASSUME NEW c, Serving(c), EdgeInv, OneInvoicePerPeriod(db), IsFiniteSet(DOMAIN db.invoices), IsFiniteSet(DOMAIN db.nodes),
         Step(c)
  PROVE  Twins(c)
<1>1. CASE TenancyNext(c)
  <2>1. createBetaOnboarding(c) => in(c).project # None
    BY WorkloadsAssumption DEF Serving, CallsInv, createBetaOnboarding, At, in
  <2> QED
    BY <1>1, <2>1, createOrganizationTwins, createUserTwins, updateOrganizationBillingTwins, verifyUserEmailTwins,
       createProjectTwins, addProjectMembershipTwins, updateProjectMembershipRoleTwins, removeProjectMembershipTwins,
       acceptProjectMembershipInviteTwins, requestProductionQuotaIncreaseTwins, createApiKeyTwins, revokeApiKeyTwins,
       rotateApiKeyTwins, authenticateApiTokenTwins, createBetaOnboardingTwins
    DEF TenancyNext
<1>2. CASE BillingNext(c)
  BY <1>2, recordUsageEventTwins, issueOrganizationBillingInvoiceTwins, enqueueBillingInvoiceWebhookTwins,
     deliverPendingBillingWebhooksTwins, createBillingInvoiceAdjustmentTwins, setBillingInvoiceRetentionPolicyTwins,
     pruneBillingInvoicesTwins
  DEF BillingNext
<1>3. CASE RoutingNext(c)
  BY <1>3, createArtifactTwins, createSecretTwins, updateSecretValueTwins, deleteSecretTwins, createKvNamespaceTwins,
     deleteKvNamespaceTwins, createDurableObjectNamespaceTwins, deleteDurableObjectNamespaceTwins, createDeploymentTwins,
     pointRouteTwins, startRouteCanaryTwins, rollbackRouteTwins, analyzeRouteCanaryTwins, createRouteSnapshotTwins,
     createDeployPreviewTwins, rollbackDeployPreviewTwins, createCustomDomainTwins, deleteCustomDomainTwins,
     verifyCustomDomainOwnershipTwins, requestCustomDomainTlsProvisioningTwins, completeCustomDomainTlsProvisioningTwins
  DEF RoutingNext
<1>4. CASE FleetNext(c)
  BY <1>4, registerRuntimeNodeTwins, recordRuntimeNodeHeartbeatTwins, updateRuntimeNodeStatusTwins,
     cleanupRuntimeNodesTwins,
     listActiveRuntimeNodesTwins, recordRouteSnapshotPublicationTwins, createEdgeWorkerReleaseTwins,
     deleteEdgeWorkerReleaseTwins, deliverPendingEdgeWorkerReleaseOperationsTwins
  DEF FleetNext
<1> QED
  BY <1>1, <1>2, <1>3, <1>4 DEF Step

\* One invoice more, or fewer, and still one for a period: the unique key of PostgreSQL.
LEMMA InvoicesStayUnique ==
  ASSUME CallsInv, NEW c \in Callers, Step(c), OneInvoicePerPeriod(db), IsFiniteSet(DOMAIN db.invoices)
  PROVE  OneInvoicePerPeriod(db') /\ IsFiniteSet(DOMAIN db'.invoices)
<1>0. WritersOnly(c) /\ DOMAIN db = DOMAIN EmptyDb
  BY Writers DEF CallsInv
<1>1. CASE db'.invoices = db.invoices
  BY <1>1 DEF OneInvoicePerPeriod
<1>2. CASE issueOrganizationBillingInvoice(c) /\ db'.invoices # db.invoices
  <2>1. \A v : issuedBefore(c, v) => db' = db
    BY AwaitStep DEF issuedBefore
  <2>2. At(c, IssueOp, "insert")
    <3>1. CASE At(c, IssueOp, "audit")
      BY <1>0, <1>2, <3>1, WriteStep, AuditWrites
      DEF issueOrganizationBillingInvoice, IssueOp, At, Writes, Touches, EmptyDb
    <3>2. CASE ~At(c, IssueOp, "audit") /\ ~At(c, IssueOp, "insert")
      BY <1>2, <2>1, <3>2, CheckStep, RequireResult, AwaitStep, ReplyStep
      DEF issueOrganizationBillingInvoice, IssueOp, requireOrganization
    <3> QED
      BY <3>1, <3>2
  <2>3. PICK v, row : db' = Pg!createBillingInvoice(db, v, row).db
    BY <1>2, <2>2, WriteStep, AwaitStep DEF issueOrganizationBillingInvoice, IssueOp, At, heldInvoice
  <2>4. /\ Pg!SatisfiesUnique(db, "invoices", row) /\ v \notin DOMAIN db.invoices
        /\ db'.invoices = [x \in DOMAIN db.invoices \union {v} |-> IF x = v THEN row ELSE db.invoices[x]]
    BY <1>0, <1>2, <2>3 DEF Pg!createBillingInvoice, Pg!Insert, Pg!Ok, Pg!Fail, Pg!Put, Pg!Has, EmptyDb
  <2>5. \A x \in DOMAIN db.invoices : db.invoices[x].org # row.org \/ db.invoices[x].period # row.period
    <3>1. <<"invoices", {"org", "period"}>> \in Pg!UniqueKeys
      BY DEF Pg!UniqueKeys, Pg!Schemas, Pg!BillingSchema
    <3> QED
      BY <2>4, <3>1 DEF Pg!SatisfiesUnique
  <2>6. IsFiniteSet(DOMAIN db'.invoices)
    BY <2>4, FS_AddElement
  <2>7. OneInvoicePerPeriod(db')
    BY <2>4, <2>5 DEF OneInvoicePerPeriod
  <2> QED
    BY <2>6, <2>7
<1>3. CASE pruneBillingInvoices(c) /\ db'.invoices # db.invoices
  <2>1. At(c, "pruneBillingInvoices", "delete")
    <3>1. CASE At(c, "pruneBillingInvoices", "start")
      BY <1>3, <3>1, CheckStep, RequireResult DEF pruneBillingInvoices, requireOrganization, At
    <3>2. CASE At(c, "pruneBillingInvoices", "policy")
      BY <1>3, <3>2, AwaitStep, ReplyStep DEF pruneBillingInvoices, At
    <3> QED
      BY <1>3, <3>1, <3>2 DEF pruneBillingInvoices
  <2>2. PICK v : Write(c, Pg!deleteBillingInvoice(db, v), "policy", loc(c).left)
    BY <1>3, <2>1 DEF pruneBillingInvoices, At
  <2>3. db' = Pg!deleteBillingInvoice(db, v).db
    BY <2>2, WriteStep
  <2>4. DOMAIN db'.invoices \subseteq DOMAIN db.invoices /\ \A x \in DOMAIN db'.invoices : db'.invoices[x] = db.invoices[x]
    BY <1>0, <1>3, <2>3 DEF Pg!deleteBillingInvoice, Pg!Ok, Pg!Fail, EmptyDb
  <2>5. IsFiniteSet(DOMAIN db'.invoices)
    BY <2>4, FS_Subset
  <2> QED
    BY <2>4, <2>5 DEF OneInvoicePerPeriod
<1>4. db'.invoices # db.invoices => issueOrganizationBillingInvoice(c) \/ pruneBillingInvoices(c)
  <2>1. enqueueBillingInvoiceWebhook(c) => db'.invoices = db.invoices
    BY <1>0, BillingEffects DEF Effect, Touches, EmptyDb
  <2> QED
    BY <1>0, <2>1, StepsOfOps DEF WritersOnly
<1> QED
  BY <1>1, <1>2, <1>3, <1>4

\* Who writes no row of the nodes leaves them as they are.
LEMMA EffectSpares ==
  ASSUME NEW c, NEW op, NEW T, DOMAIN db = DOMAIN EmptyDb, Effect(c, op, T), "nodes" \notin T PROVE db'.nodes = db.nodes
BY DEF Effect, Touches, EmptyDb

\* A step adds one node at most.
LEMMA NodesStayFinite ==
  ASSUME CallsInv, NEW c \in Callers, Step(c), IsFiniteSet(DOMAIN db.nodes) PROVE IsFiniteSet(DOMAIN db'.nodes)
<1>0. DOMAIN db = DOMAIN EmptyDb
  BY DEF CallsInv
<1>1. CASE db'.nodes = db.nodes
  BY <1>1
<1>2. CASE \E k : DOMAIN db'.nodes \subseteq DOMAIN db.nodes \union {k}
  <2>1. PICK k : DOMAIN db'.nodes \subseteq DOMAIN db.nodes \union {k}
    BY <1>2
  <2>2. IsFiniteSet(DOMAIN db.nodes \union {k})
    BY FS_AddElement
  <2> QED
    BY <2>1, <2>2, FS_Subset
<1>3. TenancyNext(c) => db'.nodes = db.nodes
  BY <1>0, TenancyEffects, EffectSpares DEF TenancyNext
<1>4. BillingNext(c) => db'.nodes = db.nodes
  BY <1>0, BillingEffects, EffectSpares DEF BillingNext
<1>5. RoutingNext(c) => db'.nodes = db.nodes
  BY <1>0, RoutingEffects, RouteEffects, EffectSpares DEF RoutingNext
<1>6. FleetNext(c) => db'.nodes = db.nodes \/ \E k : DOMAIN db'.nodes \subseteq DOMAIN db.nodes \union {k}
  <2>1. registerRuntimeNode(c) => \E k : DOMAIN db'.nodes \subseteq DOMAIN db.nodes \union {k}
    BY <1>0, FinishStep DEF registerRuntimeNode, Pg!createRuntimeNode, Pg!Insert, Pg!Ok, Pg!Fail, Pg!Put, EmptyDb
  <2>2. recordRuntimeNodeHeartbeat(c) => DOMAIN db'.nodes = DOMAIN db.nodes
    BY <1>0, FinishStep, CheckStep, RequireResult
    DEF recordRuntimeNodeHeartbeat, requireRuntimeNode, Pg!updateRuntimeNodeHeartbeat, Pg!Ok, Pg!Fail, EmptyDb
  <2>3. updateRuntimeNodeStatus(c) => DOMAIN db'.nodes = DOMAIN db.nodes
    BY <1>0, FinishStep DEF updateRuntimeNodeStatus, Pg!updateRuntimeNodeStatus, Pg!SetColumn, Pg!Ok, Pg!Fail, EmptyDb
  <2>4. cleanupRuntimeNodes(c) => DOMAIN db'.nodes \subseteq DOMAIN db.nodes
    <3> SUFFICES ASSUME cleanupRuntimeNodes(c) PROVE DOMAIN db'.nodes \subseteq DOMAIN db.nodes
      OBVIOUS
    <3>1. db' = db \/ \E n : db' = Pg!deleteRuntimeNode(db, n).db
      <4>1. CASE At(c, "cleanupRuntimeNodes", "start")
        BY <4>1, CheckStep, RequireResult DEF cleanupRuntimeNodes, At
      <4>2. CASE At(c, "cleanupRuntimeNodes", "delete") /\ loc(c) = {}
        BY <4>2, ReplyStep DEF cleanupRuntimeNodes, At
      <4>3. CASE At(c, "cleanupRuntimeNodes", "delete") /\ loc(c) # {}
        <5>1. PICK n : Write(c, Pg!deleteRuntimeNode(db, n), "delete", loc(c) \ {n})
          BY <4>3 DEF cleanupRuntimeNodes, At
        <5> QED
          BY <5>1, WriteStep
      <4> QED
        BY <4>1, <4>2, <4>3 DEF cleanupRuntimeNodes
    <3>2. ASSUME NEW n PROVE DOMAIN Pg!deleteRuntimeNode(db, n).db.nodes \subseteq DOMAIN db.nodes
      BY <1>0 DEF Pg!deleteRuntimeNode, Pg!Delete, Pg!Drop, Pg!Ok, Pg!Fail, EmptyDb
    <3> QED
      BY <3>1, <3>2
  <2> QED
    BY <1>0, <2>1, <2>2, <2>3, <2>4, FleetEffects, EffectSpares DEF FleetNext
<1> QED
  BY <1>1, <1>2, <1>3, <1>4, <1>5, <1>6 DEF Step

\* In a serial workload the rest of the call in flight is, on the database as it is, what the
\* synchronous control plane does of the whole request on the database of the last answer.
TwinInv ==
  /\ OneCaller
  /\ OneInvoicePerPeriod(db) /\ IsFiniteSet(DOMAIN db.invoices) /\ IsFiniteSet(DOMAIN db.nodes)
  /\ serial => \A c \in Callers : call[c].pc # "idle" => TwinCall(base, db, call[c])

\* A workload starts with every call at its start.
LEMMA TwinStarts == ASSUME Init PROVE TwinInv
<1>1. PICK w \in Workloads : CallsInit(w.db, w.calls)
  BY DEF Init
<1>2. SoundDb(w.db) /\ w.calls \in [Callers -> Seq(Requests)]
  BY WorkloadsAssumption
<1>3. \A c \in Callers : call[c].pc \in {"idle", "start"}
  BY <1>1, <1>2, FirstCallStarts DEF CallsInit
<1>4. db = w.db /\ base = w.db
  BY <1>1 DEF CallsInit
<1>5. OneCaller
  BY RowsStart DEF RowsInv
<1>6. OneInvoicePerPeriod(db) /\ IsFiniteSet(DOMAIN db.invoices) /\ IsFiniteSet(DOMAIN db.nodes)
  BY <1>2, <1>4 DEF SoundDb
<1>7. \A c \in Callers : call[c].pc # "idle" => TwinCall(base, db, call[c])
  BY <1>3, <1>4 DEF TwinCall
<1> QED
  BY <1>5, <1>6, <1>7 DEF TwinInv

\* A call of a serial workload is served from where TwinInv has it.
LEMMA StepServes ==
  ASSUME CallsInv, EdgeInv, TwinInv, NEW c \in Callers, Step(c), serial
  PROVE  call[c].pc # "idle" /\ Twins(c)
<1>1. call[c].pc # "idle"
  BY Writers DEF WritersOnly, CallsInv
<1>2. Serving(c)
  BY <1>1 DEF Serving, TwinInv
<1> QED
  BY <1>1, <1>2, StepTwins DEF TwinInv

\* Every step keeps TwinInv.
LEMMA StepTwinInv == ASSUME CallsInv, EdgeInv, TwinInv, NEW c \in Callers, Step(c) PROVE TwinInv'
<1>0. Moved(c) /\ Moves(c) /\ call[c].pc # "idle"
  BY StepCalls, Writers DEF WritersOnly, CallsInv
<1>1. serial' = serial /\ OneCaller'
  BY <1>0, CallersApart, OneCallerStays DEF TwinInv
<1>2. OneInvoicePerPeriod(db') /\ IsFiniteSet(DOMAIN db'.invoices) /\ IsFiniteSet(DOMAIN db'.nodes)
  BY InvoicesStayUnique, NodesStayFinite DEF TwinInv
<1>3. serial => \A x \in Callers : call'[x].pc # "idle" => TwinCall(base', db', call'[x])
  <2> SUFFICES ASSUME serial PROVE \A x \in Callers : call'[x].pc # "idle" => TwinCall(base', db', call'[x])
    OBVIOUS
  <2>1. Twins(c)
    BY StepServes
  <2>2. \A x \in Callers \ {c} : call'[x].pc = "idle"
    <3>1. PICK c0 \in Callers : \A x \in Callers \ {c0} : call[x].pc = "idle"
      BY DEF TwinInv, OneCaller
    <3>2. c0 = c
      BY <1>0, <3>1
    <3> QED
      BY <1>0, <3>1, <3>2 DEF Moved
  <2>3. CASE Done(c)
    <3>1. call'[c].pc \in {"idle", "start"} /\ base' = db'
      BY <2>3 DEF Done, Home, Answers
    <3> QED
      BY <2>2, <3>1 DEF TwinCall
  <2>4. CASE ~Done(c)
    <3>1. /\ base' = base /\ call'[c].req = call[c].req /\ call'[c].pc \notin {"idle", "start"}
          /\ Rests(Served(c), db', call'[c])
      BY <2>1, <2>4 DEF Twins
    <3> QED
      BY <2>2, <3>1 DEF TwinCall, Served, in
  <2> QED
    BY <2>3, <2>4
<1> QED
  BY <1>1, <1>2, <1>3 DEF TwinInv, OneInvoicePerPeriod

\* The invariant of the twins holds of every execution.
LEMMA TwinInvariant == Spec => []TwinInv
<1>1. Init => TwinInv
  BY TwinStarts
<1>2. CallsInv /\ EdgeInv /\ TwinInv /\ [Next]_vars => TwinInv'
  <2> SUFFICES ASSUME CallsInv, EdgeInv, TwinInv, [Next]_vars PROVE TwinInv'
    OBVIOUS
  <2>1. ASSUME NEW c \in Callers, Step(c) PROVE TwinInv'
    BY <2>1, StepTwinInv
  <2>2. ASSUME NEW c \in Callers, Retry(c) PROVE TwinInv'
    BY <2>2 DEF Retry, TwinInv, OneCaller, OneInvoicePerPeriod
  <2>3. CASE UNCHANGED vars
    <3>1. db' = db /\ call' = call /\ todo' = todo /\ base' = base /\ serial' = serial
      BY <2>3 DEF vars, callVars
    <3> QED
      BY <3>1 DEF TwinInv, OneCaller, OneInvoicePerPeriod
  <2> QED
    BY <2>1, <2>2, <2>3 DEF Next
<1>3. IInv => CallsInv /\ EdgeInv
  BY DEF IInv
<1> QED
  BY <1>1, <1>2, <1>3, ControlPlaneInvariant, PTL DEF Spec

\* Used by one caller at a time, async-service.ts over PostgreSQL is service.ts over SQLite: whatever
\* the requests and however many awaits each takes, every answer and the database it leaves are those
\* of the synchronous method on the database that the answer before it left.
THEOREM AsyncIsSync == Spec => Twin
<1>1. Init => Sync!Init
  BY DEF Init, CallsInit, Sync!Init
<1>2. CallsInv /\ EdgeInv /\ TwinInv /\ [Next]_vars => [Sync!Next]_<<base, IF serial THEN answered ELSE {}>>
  <2> SUFFICES ASSUME CallsInv, EdgeInv, TwinInv, [Next]_vars
               PROVE  \/ Sync!Next
                      \/ base' = base /\ (IF serial' THEN answered' ELSE {}) = (IF serial THEN answered ELSE {})
    OBVIOUS
  <2>1. ASSUME NEW c \in Callers, Step(c), serial
        PROVE  Sync!Next \/ (base' = base /\ answered' = answered /\ serial' = serial)
    <3>1. serial' = serial
      BY <2>1, Writers, CallersApart DEF WritersOnly, CallsInv
    <3>2. call[c].pc # "idle" /\ Twins(c)
      BY <2>1, StepServes
    <3>3. CASE Done(c)
      <4>1. answered' = answered \union {[req |-> in(c), out |-> Served(c).out]} /\ base' = Served(c).db
        BY <3>3 DEF Done, Home, Answers
      <4>2. in(c) \in Requests
        BY <3>2 DEF CallsInv, in
      <4>3. Sync!Answer(in(c))
        <5> DEFINE a == [req |-> in(c), out |-> Served(c).out]
        <5>1. a.req = in(c) /\ a \in answered'
          BY <4>1
        <5>2. (IF serial' THEN answered' ELSE {}) = answered' /\ (IF serial THEN answered ELSE {}) = answered
          BY <2>1, <3>1
        <5>3. Served(c) = Sync!Serve(base, in(c))
          BY DEF Served
        <5> HIDE DEF a
        <5>4. \E x \in answered' : x.req = in(c)
          BY <5>1
        <5>5. base' = Sync!Serve(base, in(c)).db
              /\ answered' = answered \union {[req |-> in(c), out |-> Sync!Serve(base, in(c)).out]}
          BY <4>1, <5>3
        <5> QED
          BY <5>2, <5>4, <5>5 DEF Sync!Answer
      <4> QED
        BY <4>2, <4>3 DEF Sync!Next
    <3> QED
      BY <3>1, <3>2, <3>3 DEF Twins
  <2>2. ASSUME NEW c \in Callers, Step(c), ~serial PROVE base' = base /\ ~serial'
    BY <2>2, Writers DEF WritersOnly, CallsInv, Moves, Goto, Return
  <2>3. ASSUME NEW c \in Callers, Retry(c) PROVE base' = base /\ ~serial /\ ~serial'
    BY <2>3 DEF Retry
  <2>4. CASE UNCHANGED vars
    BY <2>4 DEF vars, callVars
  <2> QED
    BY <2>1, <2>2, <2>3, <2>4 DEF Next
<1>3. IInv => CallsInv /\ EdgeInv
  BY DEF IInv
<1> QED
  BY <1>1, <1>2, <1>3, TwinInvariant, ControlPlaneInvariant, PTL DEF Spec, Twin, Sync!Spec
================================================================================
