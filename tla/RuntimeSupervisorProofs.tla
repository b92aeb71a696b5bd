----------------------- MODULE RuntimeSupervisorProofs -----------------------
(***************************************************************************)
(* Theorems about RuntimeSupervisor for every set of deployments,          *)
(* snapshots, requests and updates, every limit and every warm-up          *)
(* concurrency; and about ArtifactCache, the files that its preparations   *)
(* read and make, for every set of settings, loads and collections.        *)
(***************************************************************************)
EXTENDS RuntimeSupervisor, ArtifactCache, FiniteFacts

-----------------------------------------------------------------------------
(* The order of last use, evictUntil() and the packing limits.             *)

\* The entries of T carry numbers that UsedBefore can compare.
Stamped(P, T) == \A x \in T : P[x].job \in Int /\ P[x].lastUsed \in Int

\* How many of T are evicted before x.
Earlier(P, T, x) == {y \in T : UsedBefore(P, y, x)}
Rank(P, T, x) == Cardinality(Earlier(P, T, x))

\* A rank is a natural number, at most the number of entries ranked.
LEMMA RankType ==
  ASSUME NEW P, NEW T, IsFiniteSet(T), NEW x
  PROVE  /\ Rank(P, T, x) \in Nat
         /\ Cardinality(T) \in Nat
         /\ Rank(P, T, x) <= Cardinality(T)
<1>1. Earlier(P, T, x) \in SUBSET T
  BY DEF Earlier
<1>2. IsFiniteSet(Earlier(P, T, x)) /\ Cardinality(Earlier(P, T, x)) <= Cardinality(T)
  BY <1>1, FS_Subset
<1>3. Cardinality(Earlier(P, T, x)) \in Nat /\ Cardinality(T) \in Nat
  BY <1>2, FS_CardinalityType
<1> QED
  BY <1>2, <1>3 DEF Rank

\* evictUntil() ranks an entry below every one used after it.
LEMMA RankMonotone ==
  ASSUME NEW P, NEW T, IsFiniteSet(T), Stamped(P, T),
         NEW x \in T, NEW y \in T, UsedBefore(P, y, x)
  PROVE  Rank(P, T, y) < Rank(P, T, x)
<1>1. Earlier(P, T, y) \in SUBSET Earlier(P, T, x)
  BY DEF Earlier, Stamped, UsedBefore
<1>2. y \in Earlier(P, T, x) /\ y \notin Earlier(P, T, y)
  BY DEF Earlier, Stamped, UsedBefore
<1>3. Earlier(P, T, x) \in SUBSET T
  BY DEF Earlier
<1>4. IsFiniteSet(Earlier(P, T, x))
  BY <1>3, FS_Subset
<1>5. /\ Cardinality(Earlier(P, T, y)) <= Cardinality(Earlier(P, T, x))
      /\ Cardinality(Earlier(P, T, y)) # Cardinality(Earlier(P, T, x))
  BY <1>1, <1>2, <1>4, FS_Subset
<1> QED
  BY <1>5, RankType DEF Rank

\* At least k entries, or all of them, rank below k: the order has no ties, as
\* two deployments never share a job.
LEMMA EnoughBelow ==
  ASSUME NEW P, NEW T, IsFiniteSet(T), Stamped(P, T), NEW k \in Nat
  PROVE  LET E == {x \in T : Rank(P, T, x) < k}
         IN  E = T \/ Cardinality(E) >= k
<1> DEFINE E == {x \in T : Rank(P, T, x) < k}
           Ranks == {Rank(P, T, x) : x \in T \ E}
<1> SUFFICES ASSUME E # T PROVE Cardinality(E) >= k
  OBVIOUS
<1>1. PICK x \in T \ E : \A y \in T \ E : Rank(P, T, x) <= Rank(P, T, y)
  <2>1. Ranks \subseteq Nat /\ Ranks # {}
    BY RankType
  <2> HIDE DEF Ranks
  <2>2. PICK m \in Ranks : \A n \in Ranks : m <= n
    BY <2>1, LeastNat
  <2> QED
    BY <2>2 DEF Ranks
<1>2. Earlier(P, T, x) \in SUBSET E
  BY <1>1, RankMonotone, RankType DEF Earlier
<1>3. E \in SUBSET T
  OBVIOUS
<1>4. IsFiniteSet(E) /\ Cardinality(E) \in Nat
  BY <1>3, FS_Subset, FS_CardinalityType
<1>5. Rank(P, T, x) <= Cardinality(E)
  BY <1>2, <1>4, FS_Subset DEF Rank
<1>6. k <= Rank(P, T, x)
  BY <1>1, RankType
<1> QED
  BY <1>4, <1>5, <1>6, RankType

\* The larger of one and a limit.
LEMMA MaxOne == ASSUME NEW n \in Nat PROVE Max({1, n}) = IF n >= 1 THEN n ELSE 1
<1>1. \A m \in {1, n} : (\A y \in {1, n} : m >= y) => m = IF n >= 1 THEN n ELSE 1
  OBVIOUS
<1>2. \E m \in {1, n} : \A y \in {1, n} : m >= y
  OBVIOUS
<1> QED
  BY <1>1, <1>2 DEF Max

\* A part of a set that is within a limit is within it.
LEMMA WithinSubset ==
  ASSUME NEW S, IsFiniteSet(S), NEW T \in SUBSET S, NEW max \in Nat \cup {NoLimit}, Within(S, max)
  PROVE  Within(T, max)
<1>1. Cardinality(T) <= Cardinality(S) /\ IsFiniteSet(T)
  BY FS_Subset
<1>2. Cardinality(T) \in Nat /\ Cardinality(S) \in Nat
  BY <1>1, FS_CardinalityType
<1>3. max \in Nat => Max({1, max}) \in Nat
  BY MaxOne
<1> QED
  BY <1>1, <1>2, <1>3 DEF Within, NoLimit

\* What evictUntil() leaves of a set is within its limit, whichever entry it
\* must not evict.
LEMMA EvictUntilWithin ==
  ASSUME NEW P, NEW S, IsFiniteSet(S), NEW max \in Nat \cup {NoLimit}, NEW d, Stamped(P, S \ {d})
  PROVE  Within(S \ EvictUntil(P, S, max, d), max)
<1> SUFFICES ASSUME max # NoLimit
             PROVE  Cardinality(S \ EvictUntil(P, S, max, d)) <= Max({1, max})
  BY DEF Within
<1> DEFINE T == S \ {d}
           k == Cardinality(S) - max
           E == EvictUntil(P, S, max, d)
<1>1. max \in Nat
  BY DEF NoLimit
<1>2. E = {x \in T : Rank(P, T, x) < k}
  BY DEF EvictUntil, Rank, Earlier
<1>3. IsFiniteSet(T) /\ Cardinality(T) = IF d \in S THEN Cardinality(S) - 1 ELSE Cardinality(S)
  BY FS_RemoveElement
<1>4. Cardinality(S) \in Nat /\ Cardinality(T) \in Nat
  BY <1>3, FS_CardinalityType
<1>5. E \in SUBSET S
  BY <1>2
<1>6. /\ IsFiniteSet(E) /\ Cardinality(E) \in Nat
      /\ Cardinality(S \ E) = Cardinality(S) - Cardinality(E)
  <2> HIDE DEF E
  <2>1. S \cap E = E
    BY <1>5
  <2>2. Cardinality(S \ E) = Cardinality(S) - Cardinality(S \cap E)
    BY FS_Difference
  <2>3. IsFiniteSet(E)
    BY <1>5, FS_Subset
  <2> QED
    BY <2>1, <2>2, <2>3, FS_CardinalityType
<1>9. Stamped(P, T)
  OBVIOUS
<1>7. CASE k <= 0
  BY <1>1, <1>4, <1>6, <1>7, MaxOne
<1>8. CASE k > 0
  <2>1. k \in Nat
    BY <1>1, <1>4, <1>8
  <2>2. E = T \/ Cardinality(E) >= k
    <3> HIDE DEF T, k, E
    <3> QED
      BY <2>1, <1>2, <1>3, <1>9, EnoughBelow
  <2> QED
    BY <2>2, <1>1, <1>3, <1>4, <1>6, MaxOne
<1> QED
  BY <1>1, <1>4, <1>7, <1>8

-----------------------------------------------------------------------------
(* prepareDeployment().                                                    *)

Job == [deployment : Deployments, status : {"running", "ok", "failed"}]

\* The entries P are of their own deployments' jobs in J, none of them failed.
EntriesOK(P, J) ==
  /\ DOMAIN P \subseteq Deployments /\ IsFiniteSet(DOMAIN P)
  /\ \A x \in DOMAIN P : /\ P[x].job \in DOMAIN J
                         /\ J[P[x].job].deployment = x
                         /\ J[P[x].job].status # "failed"
                         /\ P[x].lastUsed \in 0..now

\* WarmWithinLimits of a cache P.
Limits(P) ==
  /\ Within(DOMAIN P, MaxWarm)
  /\ \A d \in DOMAIN P : Within({x \in DOMAIN P : Project[x] = Project[d]}, MaxWarmPerProject)

CacheOK(D) ==
  /\ D.jobs \in Seq(Job)
  /\ EntriesOK(D.prepared, D.jobs)
  /\ Limits(D.prepared)
  /\ D.got \subseteq DOMAIN D.jobs

\* The jobs J are still there, as they were, in K.
Extends(J, K) == \A j \in DOMAIN J : j \in DOMAIN K /\ K[j] = J[j]

\* Dropping entries keeps a cache within its limits.
LEMMA LimitsKept ==
  ASSUME NEW P, IsFiniteSet(DOMAIN P), Limits(P), NEW Q, DOMAIN Q \subseteq DOMAIN P
  PROVE  Limits(Q)
<1>1. MaxWarm \in Nat \cup {NoLimit} /\ MaxWarmPerProject \in Nat \cup {NoLimit}
  BY SupervisorAssumption
<1>2. Within(DOMAIN Q, MaxWarm)
  BY <1>1, WithinSubset DEF Limits
<1>3. ASSUME NEW d \in DOMAIN Q
      PROVE  Within({x \in DOMAIN Q : Project[x] = Project[d]}, MaxWarmPerProject)
  <2> DEFINE S == {x \in DOMAIN P : Project[x] = Project[d]}
             T == {x \in DOMAIN Q : Project[x] = Project[d]}
  <2>1. Within(S, MaxWarmPerProject)
    BY DEF Limits
  <2>2. S \in SUBSET DOMAIN P /\ T \in SUBSET S
    OBVIOUS
  <2>3. IsFiniteSet(S)
    BY <2>2, FS_Subset
  <2> HIDE DEF S, T
  <2>4. Within(T, MaxWarmPerProject)
    BY <1>1, <2>1, <2>2, <2>3, WithinSubset
  <2> QED
    BY <2>4 DEF T
<1> QED
  BY <1>2, <1>3 DEF Limits

\* enforcePackingPolicy() brings a cache that was within its limits before d was
\* added back within them.
LEMMA PackWithinLimits ==
  ASSUME NEW P, IsFiniteSet(DOMAIN P), Limits(P),
         NEW Q, NEW d, DOMAIN Q = DOMAIN P \cup {d}, Stamped(Q, DOMAIN Q)
  PROVE  /\ Limits(Pack(Q, d))
         /\ DOMAIN Pack(Q, d) \subseteq DOMAIN Q
         /\ \A x \in DOMAIN Pack(Q, d) : Pack(Q, d)[x] = Q[x]
<1> DEFINE ofProject == {x \in DOMAIN Q : Project[x] = Project[d]}
           first == EvictUntil(Q, ofProject, MaxWarmPerProject, d)
           left == DOMAIN Q \ first
           second == EvictUntil(Q, left, MaxWarm, d)
           R == Pack(Q, d)
<1>1. DOMAIN R = left \ second /\ \A x \in DOMAIN R : R[x] = Q[x]
  BY DEF Pack, Keep
<1>2. MaxWarm \in Nat \cup {NoLimit} /\ MaxWarmPerProject \in Nat \cup {NoLimit}
  BY SupervisorAssumption
<1>3. /\ ofProject \in SUBSET DOMAIN Q /\ left \in SUBSET DOMAIN Q
      /\ Stamped(Q, ofProject \ {d}) /\ Stamped(Q, left \ {d})
  BY DEF Stamped
<1>4. IsFiniteSet(DOMAIN Q)
  BY FS_AddElement
<1>5. IsFiniteSet(ofProject) /\ IsFiniteSet(left)
  BY <1>3, <1>4, FS_Subset
<1> HIDE DEF R
<1>6. Within(DOMAIN R, MaxWarm)
  <2> HIDE DEF left
  <2> QED
    BY <1>1, <1>2, <1>3, <1>5, EvictUntilWithin
<1>7. ASSUME NEW y \in DOMAIN R
      PROVE  Within({x \in DOMAIN R : Project[x] = Project[y]}, MaxWarmPerProject)
  <2> DEFINE T == {x \in DOMAIN R : Project[x] = Project[y]}
  <2>1. CASE Project[y] = Project[d]
    <3> DEFINE S == ofProject \ first
    <3>1. T \in SUBSET S /\ S \in SUBSET ofProject
      BY <1>1, <2>1
    <3>2. Within(S, MaxWarmPerProject)
      <4> HIDE DEF ofProject
      <4> QED
        BY <1>2, <1>3, <1>5, EvictUntilWithin
    <3>3. IsFiniteSet(S)
      BY <3>1, <1>5, FS_Subset
    <3> HIDE DEF S, T
    <3>4. Within(T, MaxWarmPerProject)
      BY <1>2, <3>1, <3>2, <3>3, WithinSubset
    <3> QED
      BY <3>4 DEF T
  <2>2. CASE Project[y] # Project[d]
    <3> DEFINE S == {x \in DOMAIN P : Project[x] = Project[y]}
    <3>1. T \in SUBSET S /\ S \in SUBSET DOMAIN P /\ y \in DOMAIN P
      BY <1>1, <2>2
    <3>2. Within(S, MaxWarmPerProject)
      BY <3>1 DEF Limits
    <3>3. IsFiniteSet(S)
      BY <3>1, FS_Subset
    <3> HIDE DEF S, T
    <3>4. Within(T, MaxWarmPerProject)
      BY <1>2, <3>1, <3>2, <3>3, WithinSubset
    <3> QED
      BY <3>4 DEF T
  <2> QED
    BY <2>1, <2>2
<1>8. Limits(R)
  BY <1>6, <1>7 DEF Limits
<1> QED
  BY <1>1, <1>8 DEF R

\* prepareDeployment() keeps a sound cache sound: it adds at most the deployment
\* asked for, forgets no compilation, and returns the promise of one of that
\* deployment.
LEMMA PrepareKeepsCache ==
  ASSUME now \in Nat, NEW D, CacheOK(D), NEW d \in Deployments
  PROVE  /\ CacheOK(Prepare(D, d))
         /\ Extends(D.jobs, Prepare(D, d).jobs)
         /\ DOMAIN Prepare(D, d).prepared \subseteq DOMAIN D.prepared \cup {d}
         /\ \E j \in DOMAIN Prepare(D, d).jobs :
              /\ Prepare(D, d).got = D.got \cup {j}
              /\ Prepare(D, d).jobs[j].deployment = d
<1> DEFINE P == WithoutIdle(D.prepared)
           known == Cached(P, d) # {}
           job == IF known THEN Max(Cached(P, d)) ELSE Len(D.jobs) + 1
           Q == [x \in DOMAIN P \cup {d} |-> IF x = d THEN [job |-> job, lastUsed |-> now] ELSE P[x]]
           E == Prepare(D, d)
<1>1. /\ E.prepared = IF known THEN Q ELSE Pack(Q, d)
      /\ E.jobs = IF known THEN D.jobs ELSE Append(D.jobs, [deployment |-> d, status |-> "running"])
      /\ E.got = D.got \cup {job}
  BY DEF Prepare
<1>2. /\ DOMAIN P \subseteq DOMAIN D.prepared
      /\ \A x \in DOMAIN P : P[x] = D.prepared[x]
  BY DEF WithoutIdle, Keep
<1>3. EntriesOK(P, D.jobs) /\ Limits(P)
  <2>1. IsFiniteSet(DOMAIN P)
    BY <1>2, FS_Subset DEF CacheOK, EntriesOK
  <2>2. Limits(P)
    BY <1>2, LimitsKept DEF CacheOK, EntriesOK
  <2> QED
    BY <1>2, <2>1, <2>2 DEF CacheOK, EntriesOK
<1>4. D.jobs \in Seq(Job) /\ DOMAIN D.jobs = 1..Len(D.jobs) /\ Len(D.jobs) \in Nat
  BY DEF CacheOK
<1>5. known <=> d \in DOMAIN P
  BY DEF Cached
<1> HIDE DEF P, E
<1>6. CASE known
  <2>1. Cached(P, d) = {P[d].job} /\ P[d].job \in Nat
    BY <1>3, <1>4, <1>5, <1>6 DEF Cached, EntriesOK
  <2>2. job = P[d].job
    BY <1>6, <2>1 DEF Max
  <2>3. job \in DOMAIN D.jobs /\ D.jobs[job].deployment = d /\ D.jobs[job].status # "failed"
    BY <1>3, <1>5, <1>6, <2>2 DEF EntriesOK
  <2> HIDE DEF job
  <2>4. DOMAIN Q = DOMAIN P /\ \A x \in DOMAIN Q : Q[x] = IF x = d THEN [job |-> job, lastUsed |-> now] ELSE P[x]
    BY <1>5, <1>6
  <2>5. E.prepared = Q /\ E.jobs = D.jobs
    BY <1>1, <1>6
  <2> HIDE DEF Q, known
  <2>6. EntriesOK(Q, D.jobs)
    BY <1>3, <2>3, <2>4 DEF EntriesOK
  <2>7. Limits(Q)
    BY <1>3, <2>4, LimitsKept DEF EntriesOK
  <2>8. CacheOK(E)
    BY <1>1, <1>4, <2>3, <2>5, <2>6, <2>7 DEF CacheOK
  <2> QED
    BY <1>1, <1>2, <2>3, <2>4, <2>5, <2>8 DEF Extends, E
<1>7. CASE ~known
  <2> DEFINE J == Append(D.jobs, [deployment |-> d, status |-> "running"])
  <2>1. job = Len(D.jobs) + 1 /\ d \notin DOMAIN P
    BY <1>5, <1>7
  <2>2. E.prepared = Pack(Q, d) /\ E.jobs = J
    BY <1>1, <1>7
  <2> HIDE DEF job, known
  <2>3. DOMAIN Q = DOMAIN P \cup {d} /\ \A x \in DOMAIN Q : Q[x] = IF x = d THEN [job |-> job, lastUsed |-> now] ELSE P[x]
    OBVIOUS
  <2> HIDE DEF Q
  <2>4. /\ J \in Seq(Job) /\ DOMAIN J = 1..(Len(D.jobs) + 1)
        /\ J[Len(D.jobs) + 1] = [deployment |-> d, status |-> "running"]
        /\ \A j \in 1..Len(D.jobs) : J[j] = D.jobs[j]
    <3>1. [deployment |-> d, status |-> "running"] \in Job
      BY DEF Job
    <3> QED
      BY <1>4, <3>1
  <2> HIDE DEF J
  <2>5. IsFiniteSet(DOMAIN Q)
    BY <1>3, <2>3, FS_AddElement DEF EntriesOK
  <2>6. EntriesOK(Q, J)
    BY <1>3, <1>4, <2>1, <2>3, <2>4, <2>5 DEF EntriesOK
  <2>7. Stamped(Q, DOMAIN Q)
    BY <2>4, <2>6 DEF Stamped, EntriesOK
  <2>8. /\ Limits(Pack(Q, d))
        /\ DOMAIN Pack(Q, d) \subseteq DOMAIN Q
        /\ \A x \in DOMAIN Pack(Q, d) : Pack(Q, d)[x] = Q[x]
    BY <1>3, <2>3, <2>7, PackWithinLimits DEF EntriesOK
  <2>9. EntriesOK(Pack(Q, d), J)
    <3>1. IsFiniteSet(DOMAIN Pack(Q, d))
      BY <2>5, <2>8, FS_Subset
    <3> QED
      BY <2>6, <2>8, <3>1 DEF EntriesOK
  <2>10. job \in DOMAIN J /\ J[job].deployment = d
    BY <1>4, <2>1, <2>4
  <2>11. D.got \subseteq DOMAIN J
    BY <1>4, <2>4 DEF CacheOK
  <2>12. CacheOK(E)
    BY <1>1, <2>2, <2>4, <2>8, <2>9, <2>10, <2>11 DEF CacheOK
  <2>13. Extends(D.jobs, J)
    BY <1>4, <2>4 DEF Extends
  <2> QED
    BY <1>1, <1>2, <2>2, <2>3, <2>8, <2>10, <2>12, <2>13 DEF E
<1> QED
  BY <1>6, <1>7

-----------------------------------------------------------------------------
(* The start of a warm-up.                                                 *)

\* A set that contains zero and every successor of its elements contains the
\* natural numbers.
LEMMA NatInductive ==
  ASSUME NEW S, 0 \in S, \A n \in Nat : n \in S => n + 1 \in S
  PROVE  Nat \subseteq S
<1>1. SUFFICES ASSUME Nat \ S # {} PROVE FALSE
  OBVIOUS
<1>2. PICK m \in Nat \ S : \A n \in Nat \ S : m <= n
  BY <1>1, LeastNat
<1>3. m # 0 /\ m - 1 \in Nat /\ m - 1 \notin Nat \ S
  BY <1>2
<1>4. m - 1 + 1 \in S
  BY <1>3
<1> QED
  BY <1>2, <1>4

\* f follows b workers that start on the deployments of s one after the other.
Follows(f, C, s, b) == f = [n \in 0..b |-> IF n = 0 THEN C ELSE Prepare(f[n - 1], s[n])]

\* The recursion by which Started follows the workers is a function.
LEMMA AfterExists ==
  ASSUME NEW C, NEW s, NEW b \in Nat
  PROVE  \E f : Follows(f, C, s, b)
<1> DEFINE Def(f, m) == f = [n \in 0..m |-> IF n = 0 THEN C ELSE Prepare(f[n - 1], s[n])]
           S == {m \in Nat : \E f : Def(f, m)}
<1>1. 0 \in S
  <2> DEFINE g == [n \in 0..0 |-> C]
  <2>1. Def(g, 0)
    OBVIOUS
  <2> QED
    BY <2>1
<1>2. ASSUME NEW m \in Nat, m \in S PROVE m + 1 \in S
  <2>1. PICK f : Def(f, m)
    BY <1>2
  <2> DEFINE g == [n \in 0..(m + 1) |-> IF n <= m THEN f[n] ELSE Prepare(f[m], s[m + 1])]
  <2>2. \A n \in 0..m : g[n] = f[n]
    OBVIOUS
  <2>3. \A n \in 0..m : f[n] = IF n = 0 THEN C ELSE Prepare(f[n - 1], s[n])
    BY <2>1
  <2>4. ASSUME NEW n \in 0..(m + 1)
        PROVE  g[n] = IF n = 0 THEN C ELSE Prepare(g[n - 1], s[n])
    <3>1. CASE n = 0
      BY <2>2, <2>3, <3>1
    <3>2. CASE n \in 1..m
      <4>1. n - 1 \in 0..m /\ n \in 0..m
        BY <3>2
      <4>2. g[n] = f[n] /\ g[n - 1] = f[n - 1]
        BY <2>2, <4>1
      <4> QED
        BY <2>3, <3>2, <4>1, <4>2
    <3>3. CASE n = m + 1
      <4>1. g[n] = Prepare(f[m], s[n]) /\ n - 1 = m /\ g[m] = f[m] /\ n # 0
        BY <3>3
      <4> QED
        BY <4>1
    <3> QED
      BY <3>1, <3>2, <3>3
  <2>5. Def(g, m + 1)
    <3> DEFINE h == [n \in 0..(m + 1) |-> IF n = 0 THEN C ELSE Prepare(g[n - 1], s[n])]
    <3>1. \A n \in 0..(m + 1) : g[n] = h[n]
      BY <2>4
    <3>2. g = h
      BY <3>1
    <3> QED
      BY <3>2
  <2> HIDE DEF g, Def
  <2> QED
    BY <2>5
<1> HIDE DEF S
<1>3. b \in S
  BY <1>1, <1>2, NatInductive
<1> QED
  BY <1>3 DEF S, Follows

\* mapBounded() starts at most one worker per deployment.
LEMMA BatchType ==
  ASSUME NEW s \in Seq(Deployments)
  PROVE  Batch(s) \in 0..Len(s)
<1>1. Len(s) \in Nat /\ WarmupConcurrency \in Nat
  BY SupervisorAssumption
<1>2. \A m \in {Len(s), WarmupConcurrency} : (\A y \in {Len(s), WarmupConcurrency} : m <= y) => m \in 0..Len(s)
  BY <1>1
<1>3. \E m \in {Len(s), WarmupConcurrency} : \A y \in {Len(s), WarmupConcurrency} : m <= y
  BY <1>1
<1> QED
  BY <1>2, <1>3 DEF Batch, Min

\* The start of a warm-up leaves a sound cache of deployments of the snapshot
\* only, and a worker on each of the first deployments.
LEMMA StartedKeepsCache ==
  ASSUME now \in Nat, CacheOK(CacheWith(prepared)), NEW s \in Seq(Deployments)
  PROVE  /\ CacheOK(Started(s))
         /\ Extends(jobs, Started(s).jobs)
         /\ DOMAIN Started(s).prepared \subseteq ToSet(s)
         /\ \A i \in 1..Batch(s) : \E j \in Started(s).got : Started(s).jobs[j].deployment = s[i]
<1> DEFINE C == CacheWith(Retained(s))
           f == CHOOSE g : g = [n \in 0..Batch(s) |-> IF n = 0 THEN C ELSE Prepare(g[n - 1], s[n])]
           Good(D, n) == /\ CacheOK(D)
                         /\ Extends(jobs, D.jobs)
                         /\ DOMAIN D.prepared \subseteq ToSet(s)
                         /\ \A i \in 1..n : \E j \in D.got : D.jobs[j].deployment = s[i]
<1>1. Batch(s) \in Nat /\ Batch(s) <= Len(s) /\ DOMAIN s = 1..Len(s) /\ Len(s) \in Nat
  BY BatchType
<1>2. Started(s) = f[Batch(s)]
  BY DEF Started
<1>3. f = [n \in 0..Batch(s) |-> IF n = 0 THEN C ELSE Prepare(f[n - 1], s[n])]
  <2>1. f = CHOOSE g : Follows(g, C, s, Batch(s))
    BY DEF Follows
  <2> HIDE DEF f, C
  <2>2. \E g : Follows(g, C, s, Batch(s))
    BY <1>1, AfterExists
  <2>3. Follows(f, C, s, Batch(s))
    BY <2>1, <2>2
  <2> QED
    BY <2>3 DEF Follows
<1>4. Good(C, 0)
  <2>1. C.prepared = Retained(s) /\ C.jobs = jobs /\ C.got = {}
    BY DEF CacheWith
  <2>2. /\ jobs \in Seq(Job) /\ EntriesOK(prepared, jobs) /\ Limits(prepared)
    BY DEF CacheOK, CacheWith
  <2>3. /\ DOMAIN Retained(s) \subseteq DOMAIN prepared /\ DOMAIN Retained(s) \subseteq ToSet(s)
        /\ \A x \in DOMAIN Retained(s) : Retained(s)[x] = prepared[x]
    BY DEF Retained, Keep
  <2>4. IsFiniteSet(DOMAIN Retained(s))
    BY <2>2, <2>3, FS_Subset DEF EntriesOK
  <2>5. EntriesOK(Retained(s), jobs)
    BY <2>2, <2>3, <2>4 DEF EntriesOK
  <2>6. Limits(Retained(s))
    BY <2>2, <2>3, LimitsKept DEF EntriesOK
  <2> HIDE DEF C
  <2> QED
    BY <2>1, <2>2, <2>3, <2>5, <2>6 DEF CacheOK, Extends
<1>5. \A n \in 0..Batch(s) : f[n] = IF n = 0 THEN C ELSE Prepare(f[n - 1], s[n])
  <2> HIDE DEF f, C
  <2> QED
    BY <1>3
<1> HIDE DEF f, C
<1>6. ASSUME NEW n \in Nat, n + 1 <= Batch(s), Good(f[n], n) PROVE Good(f[n + 1], n + 1)
  <2> DEFINE D == f[n]
             E == f[n + 1]
             d == s[n + 1]
  <2>1. E = Prepare(D, d)
    BY <1>1, <1>5, <1>6
  <2>2. n + 1 \in DOMAIN s
    BY <1>1, <1>6
  <2>3. d \in Deployments /\ d \in ToSet(s)
    BY <2>2 DEF ToSet
  <2> HIDE DEF D, E, d
  <2>4. /\ CacheOK(D) /\ Extends(jobs, D.jobs) /\ DOMAIN D.prepared \subseteq ToSet(s)
        /\ \A i \in 1..n : \E j \in D.got : D.jobs[j].deployment = s[i]
    BY <1>6 DEF D
  <2>5. /\ CacheOK(E)
        /\ Extends(D.jobs, E.jobs)
        /\ DOMAIN E.prepared \subseteq DOMAIN D.prepared \cup {d}
        /\ \E j \in DOMAIN E.jobs : E.got = D.got \cup {j} /\ E.jobs[j].deployment = d
    <3>1. now \in Nat /\ CacheOK(D) /\ d \in Deployments
      BY <2>3, <2>4
    <3>2. /\ CacheOK(Prepare(D, d))
          /\ Extends(D.jobs, Prepare(D, d).jobs)
          /\ DOMAIN Prepare(D, d).prepared \subseteq DOMAIN D.prepared \cup {d}
          /\ \E j \in DOMAIN Prepare(D, d).jobs :
               /\ Prepare(D, d).got = D.got \cup {j}
               /\ Prepare(D, d).jobs[j].deployment = d
      BY ONLY <3>1, PrepareKeepsCache
    <3> QED
      BY ONLY <2>1, <3>2
  <2>6. PICK j \in DOMAIN E.jobs : E.got = D.got \cup {j} /\ E.jobs[j].deployment = d
    BY <2>5
  <2>7. Extends(jobs, E.jobs)
    BY <2>4, <2>5 DEF Extends
  <2>8. ASSUME NEW i \in 1..(n + 1) PROVE \E k \in E.got : E.jobs[k].deployment = s[i]
    <3>1. CASE i = n + 1
      BY <2>6, <3>1 DEF d
    <3>2. CASE i \in 1..n
      <4>1. PICK k \in D.got : D.jobs[k].deployment = s[i]
        BY <2>4, <3>2
      <4>2. k \in DOMAIN D.jobs /\ k \in E.got
        BY <2>4, <2>6, <4>1 DEF CacheOK
      <4>3. E.jobs[k] = D.jobs[k]
        BY <2>5, <4>2 DEF Extends
      <4> QED
        BY <4>1, <4>2, <4>3
    <3> QED
      BY <3>1, <3>2
  <2>9. Good(E, n + 1)
    BY <2>3, <2>4, <2>5, <2>7, <2>8
  <2> QED
    BY <2>9 DEF E
<1> DEFINE S == {n \in Nat : n <= Batch(s) => Good(f[n], n)}
<1>7. Good(f[0], 0)
  BY <1>1, <1>4, <1>5
<1> HIDE DEF Good
<1>8. 0 \in S
  BY <1>7
<1>9. \A n \in Nat : n \in S => n + 1 \in S
  BY <1>1, <1>6
<1>10. Good(f[Batch(s)], Batch(s))
  <2> HIDE DEF S
  <2>1. Batch(s) \in S
    BY <1>1, <1>8, <1>9, NatInductive
  <2> QED
    BY <1>1, <2>1 DEF S
<1> QED
  BY <1>2, <1>10 DEF Good

-----------------------------------------------------------------------------
(* The inductive invariant.                                                *)

Pcs == {"idle", "warming", "acked", "failed"}

\* The shape of the state, and its job numbers are of jobs that exist.
ShapeInv ==
  /\ table \subseteq Deployments
  /\ now \in Nat
  /\ leaky \in BOOLEAN
  /\ request \in [Requests -> [pc : {"idle", "waiting", "served", "error"},
                               job : {NoJob} \cup DOMAIN jobs]]
  /\ update \in [Updates -> [pc : Pcs, snapshot : Seq(Deployments), todo : Seq(Deployments),
                             workers : SUBSET DOMAIN jobs]]

\* The cache is sound: entries are of their own deployments' jobs, none of them
\* failed, within the limits.
CacheInv == CacheOK(CacheWith(prepared))

\* Without a leaky warm-up, the cache holds and the workers prepare only what
\* the installed table routes to.
RoutedInv ==
  /\ \A u \in Updates : update[u].pc = "idle" => update[u].workers = {}
  /\ ~leaky => /\ DOMAIN prepared \subseteq table
               /\ \A u \in Updates : update[u].workers # {} => ToSet(update[u].todo) \subseteq table

Finished(d) == \E j \in DOMAIN jobs : jobs[j].deployment = d /\ jobs[j].status = "ok"

Underway(u, d) ==
  \/ d \in ToSet(update[u].todo)
  \/ \E j \in update[u].workers : jobs[j].deployment = d

\* Whatever an unfailed update names has been compiled, waits for a worker, or
\* is with one; when it is acknowledged, it has been compiled.
AckInv ==
  \A u \in Updates : \A d \in ToSet(update[u].snapshot) :
    \/ update[u].pc \in {"idle", "failed"}
    \/ Finished(d)
    \/ update[u].pc = "warming" /\ Underway(u, d)

IInv == ShapeInv /\ CacheInv /\ RoutedInv /\ AckInv

\* What CacheInv says of the state.
LEMMA CacheInvState ==
  CacheInv <=> jobs \in Seq(Job) /\ EntriesOK(prepared, jobs) /\ Limits(prepared)
BY DEF CacheInv, CacheOK, CacheWith

\* The next-state relation by its actions.
LEMMA NextCases ==
  ASSUME [Next]_vars
  PROVE  \/ \E j \in DOMAIN jobs : Compiled(j) \/ Fail(j)
         \/ \E r \in Requests : \/ \E d \in Deployments : PrepareRoute(r, d)
                                \/ NotFound(r)
                                \/ Settle(r)
         \/ \E u \in Updates : \/ \E s \in Snapshots : Load(u, s)
                               \/ \E j \in update[u].workers :
                                    WorkerTakes(u, j) \/ WorkerEnds(u, j) \/ WorkerFails(u, j)
         \/ Tick
         \/ UNCHANGED vars
BY DEF Next, Compile, Worker, Quiet

\* The compilations that a step of prepareDeployment() starts from the cache.
LEMMA PrepareStep ==
  ASSUME ShapeInv, CacheInv, NEW d \in Deployments, NEW D, D = Prepare(CacheWith(prepared), d)
  PROVE  /\ CacheOK(D)
         /\ Extends(jobs, D.jobs)
         /\ DOMAIN D.prepared \subseteq DOMAIN prepared \cup {d}
         /\ \E j \in DOMAIN D.jobs : D.got = {j} /\ D.jobs[j].deployment = d
<1>1. /\ CacheWith(prepared).jobs = jobs
      /\ CacheWith(prepared).prepared = prepared
      /\ CacheWith(prepared).got = {}
  BY DEF CacheWith
<1>2. now \in Nat /\ CacheOK(CacheWith(prepared))
  BY DEF ShapeInv, CacheInv
<1> QED
  BY <1>1, <1>2, PrepareKeepsCache

\* A compilation that settles changes its own status and nothing else.
LEMMA JobSettles ==
  ASSUME NEW J \in Seq(Job), NEW j \in DOMAIN J, NEW x \in {"ok", "failed"}
  PROVE  LET K == [J EXCEPT ![j].status = x]
         IN  /\ K \in Seq(Job)
             /\ DOMAIN K = DOMAIN J
             /\ \A i \in DOMAIN J :
                  K[i] = IF i = j THEN [deployment |-> J[j].deployment, status |-> x] ELSE J[i]
<1> DEFINE K == [J EXCEPT ![j].status = x]
           new == [deployment |-> J[j].deployment, status |-> x]
<1>1. DOMAIN J = 1..Len(J) /\ Len(J) \in Nat /\ J[j] \in Job
  OBVIOUS
<1>2. [J[j] EXCEPT !.status = x] = new /\ new \in Job
  BY <1>1 DEF Job
<1>3. K = [J EXCEPT ![j] = new]
  BY <1>2
<1> QED
  BY <1>1, <1>2, <1>3

\* No step forgets a compilation, and one that succeeded stays so.
LEMMA JobsGrow ==
  ASSUME IInv, [Next]_vars
  PROVE  \A j \in DOMAIN jobs :
           /\ j \in DOMAIN jobs'
           /\ jobs'[j].deployment = jobs[j].deployment
           /\ jobs[j].status = "ok" => jobs'[j].status = "ok"
<1>1. jobs \in Seq(Job)
  BY CacheInvState DEF IInv
<1>2. ASSUME NEW j \in DOMAIN jobs, Compiled(j) \/ Fail(j)
      PROVE  \A i \in DOMAIN jobs :
               /\ i \in DOMAIN jobs'
               /\ jobs'[i].deployment = jobs[i].deployment
               /\ jobs[i].status = "ok" => jobs'[i].status = "ok"
  <2>1. PICK x \in {"ok", "failed"} : jobs' = [jobs EXCEPT ![j].status = x] /\ jobs[j].status = "running"
    BY <1>2 DEF Compiled, Fail
  <2> QED
    BY <1>1, <2>1, JobSettles
<1>3. ASSUME NEW r \in Requests, NEW d \in Deployments, PrepareRoute(r, d)
      PROVE  Extends(jobs, jobs')
  BY <1>3, PrepareStep DEF PrepareRoute, IInv
<1>4. ASSUME NEW u \in Updates, NEW s \in Snapshots, Load(u, s)
      PROVE  Extends(jobs, jobs')
  <2>1. s \in Seq(Deployments)
    BY SupervisorAssumption
  <2>2. jobs' = Started(s).jobs
    BY <1>4 DEF Load
  <2> QED
    BY <2>1, <2>2, StartedKeepsCache DEF IInv, ShapeInv, CacheInv
<1>5. ASSUME NEW u \in Updates, NEW j \in update[u].workers, WorkerTakes(u, j)
      PROVE  Extends(jobs, jobs')
  <2>1. update[u].todo \in Seq(Deployments) /\ update[u].todo # <<>>
    BY <1>5 DEF WorkerTakes, IInv, ShapeInv
  <2>2. Head(update[u].todo) \in Deployments
    BY <2>1
  <2> QED
    BY <1>5, <2>2, PrepareStep DEF WorkerTakes, IInv
<1>6. CASE UNCHANGED jobs
  BY <1>6
<1>7. CASE Extends(jobs, jobs')
  BY <1>7 DEF Extends
<1> QED
  BY <1>2, <1>3, <1>4, <1>5, <1>6, <1>7, NextCases
     DEF NotFound, Settle, WorkerEnds, WorkerFails, Tick, vars

\* An update's row.
Rows(J) == [pc : Pcs, snapshot : Seq(Deployments), todo : Seq(Deployments), workers : SUBSET DOMAIN J]

\* A worker's step as one change of its update's row.
LEMMA WorkerRow ==
  ASSUME ShapeInv, NEW u \in Updates, NEW j \in update[u].workers
  PROVE  /\ WorkerTakes(u, j) =>
              update' = [update EXCEPT ![u] =
                [pc |-> update[u].pc, snapshot |-> update[u].snapshot, todo |-> Tail(update[u].todo),
                 workers |-> (update[u].workers \ {j}) \cup Prepare(CacheWith(prepared), Head(update[u].todo)).got]]
         /\ WorkerEnds(u, j) =>
              update' = [update EXCEPT ![u] =
                [pc |-> IF update[u].pc = "warming" /\ update[u].workers = {j} THEN "acked" ELSE update[u].pc,
                 snapshot |-> update[u].snapshot, todo |-> update[u].todo, workers |-> update[u].workers \ {j}]]
         /\ WorkerFails(u, j) =>
              update' = [update EXCEPT ![u] =
                [pc |-> "failed", snapshot |-> update[u].snapshot, todo |-> update[u].todo,
                 workers |-> update[u].workers \ {j}]]
<1>1. update \in [Updates -> Rows(jobs)]
  BY DEF ShapeInv, Rows
<1> DEFINE tail == Tail(update[u].todo)
           taken == (update[u].workers \ {j}) \cup Prepare(CacheWith(prepared), Head(update[u].todo)).got
           left == update[u].workers \ {j}
           Row(pc, todo, W) == [pc |-> pc, snapshot |-> update[u].snapshot, todo |-> todo, workers |-> W]
           Only(row) == [update EXCEPT ![u] = row]
<1> HIDE DEF tail, taken, left
<1>2. update[u] = Row(update[u].pc, update[u].todo, update[u].workers)
  BY <1>1 DEF Rows
<1>3. ASSUME NEW row, NEW row2 PROVE [Only(row) EXCEPT ![u] = row2] = Only(row2)
  BY <1>1
<1>4. ASSUME update' = [update EXCEPT ![u].todo = tail, ![u].workers = taken]
      PROVE  update' = Only(Row(update[u].pc, tail, taken))
  <2>1. [update[u] EXCEPT !.todo = tail] = Row(update[u].pc, tail, update[u].workers)
    BY <1>2
  <2>2. [Row(update[u].pc, tail, update[u].workers) EXCEPT !.workers = taken] = Row(update[u].pc, tail, taken)
    OBVIOUS
  <2> DEFINE V == Only(Row(update[u].pc, tail, update[u].workers))
  <2>3. V[u] = Row(update[u].pc, tail, update[u].workers)
    BY <1>1
  <2>4. update' = [V EXCEPT ![u] = Row(update[u].pc, tail, taken)]
    BY <1>4, <2>1, <2>2, <2>3
  <2> QED
    BY <1>3, <2>4
<1>5. ASSUME NEW pc, update' = [update EXCEPT ![u].workers = left, ![u].pc = pc]
      PROVE  update' = Only(Row(pc, update[u].todo, left))
  <2>1. [update[u] EXCEPT !.workers = left] = Row(update[u].pc, update[u].todo, left)
    BY <1>2
  <2>2. [Row(update[u].pc, update[u].todo, left) EXCEPT !.pc = pc] = Row(pc, update[u].todo, left)
    OBVIOUS
  <2> DEFINE V == Only(Row(update[u].pc, update[u].todo, left))
  <2>3. V[u] = Row(update[u].pc, update[u].todo, left)
    BY <1>1
  <2>4. update' = [V EXCEPT ![u] = Row(pc, update[u].todo, left)]
    BY <1>5, <2>1, <2>2, <2>3
  <2> QED
    BY <1>3, <2>4
<1>6. WorkerTakes(u, j) => update' = [update EXCEPT ![u].todo = tail, ![u].workers = taken]
  BY DEF WorkerTakes, tail, taken
<1>7. WorkerEnds(u, j) \/ WorkerFails(u, j) =>
        update' = [update EXCEPT ![u].workers = left,
                                 ![u].pc = IF WorkerFails(u, j) THEN "failed"
                                           ELSE IF update[u].pc = "warming" /\ update[u].workers = {j} THEN "acked"
                                           ELSE update[u].pc]
  BY DEF WorkerEnds, WorkerFails, left
<1>8. WorkerEnds(u, j) => ~WorkerFails(u, j)
  BY DEF WorkerEnds, WorkerFails
<1> QED
  BY <1>4, <1>5, <1>6, <1>7, <1>8 DEF tail, taken, left

\* Every step keeps the shape of the state.
LEMMA NextShapeInv == ASSUME IInv, [Next]_vars PROVE ShapeInv'
<1>0. DOMAIN jobs \subseteq DOMAIN jobs'
  BY JobsGrow
<1> USE <1>0 DEF ShapeInv, IInv
<1>1. ASSUME NEW j \in DOMAIN jobs, Compiled(j) \/ Fail(j) PROVE ShapeInv'
  BY <1>1 DEF Compiled, Fail
<1>2. ASSUME NEW r \in Requests, NEW d \in Deployments, PrepareRoute(r, d) PROVE ShapeInv'
  <2> DEFINE D == Prepare(CacheWith(prepared), d)
  <2>1. PICK j \in D.got : request' = [request EXCEPT ![r] = [pc |-> "waiting", job |-> j]]
    BY <1>2 DEF PrepareRoute
  <2>2. j \in DOMAIN jobs'
    <3>1. CacheOK(D) /\ jobs' = D.jobs
      BY <1>2, PrepareStep DEF PrepareRoute
    <3> QED
      BY <3>1 DEF CacheOK
  <2>3. request' \in [Requests -> [pc : {"idle", "waiting", "served", "error"}, job : {NoJob} \cup DOMAIN jobs']]
    <3>1. request \in [Requests -> [pc : {"idle", "waiting", "served", "error"}, job : {NoJob} \cup DOMAIN jobs']]
      BY ONLY <1>0, request \in [Requests -> [pc : {"idle", "waiting", "served", "error"}, job : {NoJob} \cup DOMAIN jobs]]
    <3>2. [pc |-> "waiting", job |-> j] \in [pc : {"idle", "waiting", "served", "error"}, job : {NoJob} \cup DOMAIN jobs']
      BY ONLY <2>2
    <3> QED
      BY ONLY <2>1, <3>1, <3>2
  <2>4. UNCHANGED <<table, update, now, leaky>>
    BY <1>2 DEF PrepareRoute
  <2>5. update' \in [Updates -> [pc : Pcs, snapshot : Seq(Deployments), todo : Seq(Deployments),
                                  workers : SUBSET DOMAIN jobs']]
    BY <2>4
  <2>6. table' \subseteq Deployments /\ now' \in Nat /\ leaky' \in BOOLEAN
    BY <2>4
  <2> QED
    BY ONLY <2>3, <2>5, <2>6 DEF ShapeInv
<1>3. ASSUME NEW r \in Requests, NotFound(r) \/ Settle(r) PROVE ShapeInv'
  <2>1. UNCHANGED <<table, jobs, update, now, leaky>>
    BY <1>3 DEF NotFound, Settle
  <2>2. PICK pc \in {"served", "error"} : request' = [request EXCEPT ![r].pc = pc]
    BY <1>3 DEF NotFound, Settle
  <2>3. request' \in [Requests -> [pc : {"idle", "waiting", "served", "error"}, job : {NoJob} \cup DOMAIN jobs]]
    BY <2>2
  <2> QED
    BY ONLY <2>1, <2>3, ShapeInv DEF ShapeInv
<1>4. ASSUME NEW u \in Updates, NEW s \in Snapshots, Load(u, s) PROVE ShapeInv'
  <2>1. s \in Seq(Deployments) /\ Batch(s) \in 0..Len(s)
    BY SupervisorAssumption, BatchType
  <2>2. /\ SubSeq(s, Batch(s) + 1, Len(s)) \in Seq(Deployments)
        /\ ToSet(s) \subseteq Deployments
    BY <2>1 DEF ToSet
  <2>3. CacheOK(Started(s)) /\ jobs' = Started(s).jobs
    BY <1>4, <2>1, StartedKeepsCache DEF Load, CacheInv
  <2>4. Started(s).got \subseteq DOMAIN jobs'
    BY <2>3 DEF CacheOK
  <2>5. update' = [update EXCEPT ![u] =
              [pc |-> IF s = <<>> THEN "acked" ELSE "warming", snapshot |-> s,
               todo |-> SubSeq(s, Batch(s) + 1, Len(s)), workers |-> Started(s).got]]
    BY <1>4 DEF Load
  <2>6. /\ update' \in [Updates -> [pc : Pcs, snapshot : Seq(Deployments), todo : Seq(Deployments),
                                    workers : SUBSET DOMAIN jobs']]
    BY <2>1, <2>2, <2>4, <2>5 DEF Pcs
  <2> QED
    BY <1>4, <2>2, <2>6 DEF Load
<1>5. ASSUME NEW u \in Updates, NEW j \in update[u].workers, WorkerTakes(u, j) PROVE ShapeInv'
  <2> DEFINE D == Prepare(CacheWith(prepared), Head(update[u].todo))
  <2>1. /\ update[u].todo \in Seq(Deployments) /\ update[u].todo # <<>>
        /\ Head(update[u].todo) \in Deployments /\ Tail(update[u].todo) \in Seq(Deployments)
    BY <1>5 DEF WorkerTakes
  <2>2. CacheOK(D) /\ jobs' = D.jobs
    BY <1>5, <2>1, PrepareStep DEF WorkerTakes
  <2>3. D.got \subseteq DOMAIN jobs'
    BY <2>2 DEF CacheOK
  <2>4. update' = [update EXCEPT ![u] =
              [pc |-> update[u].pc, snapshot |-> update[u].snapshot, todo |-> Tail(update[u].todo),
               workers |-> (update[u].workers \ {j}) \cup D.got]]
    BY <1>5, WorkerRow
  <2> HIDE DEF D
  <2>5. update' \in [Updates -> [pc : Pcs, snapshot : Seq(Deployments), todo : Seq(Deployments),
                                 workers : SUBSET DOMAIN jobs']]
    BY <2>1, <2>3, <2>4
  <2> QED
    BY <1>5, <2>5 DEF WorkerTakes
<1>6. ASSUME NEW u \in Updates, NEW j \in update[u].workers, WorkerEnds(u, j) \/ WorkerFails(u, j) PROVE ShapeInv'
  <2>1. PICK pc \in Pcs : update' = [update EXCEPT ![u] =
              [pc |-> pc, snapshot |-> update[u].snapshot, todo |-> update[u].todo,
               workers |-> update[u].workers \ {j}]]
    <3>1. update[u].pc \in Pcs /\ "acked" \in Pcs /\ "failed" \in Pcs
      BY <1>6 DEF Pcs
    <3> DEFINE rest == update[u].workers \ {j}
               Ended(pc) == update' = [update EXCEPT ![u] =
                 [pc |-> pc, snapshot |-> update[u].snapshot, todo |-> update[u].todo, workers |-> rest]]
    <3>2. \/ Ended(IF update[u].pc = "warming" /\ update[u].workers = {j} THEN "acked" ELSE update[u].pc)
          \/ Ended("failed")
      BY <1>6, WorkerRow
    <3> HIDE DEF Ended
    <3>3. \E pc \in Pcs : Ended(pc)
      BY <3>1, <3>2
    <3> QED
      BY <3>3 DEF Ended
  <2>2. UNCHANGED <<table, prepared, jobs, request, now>> /\ leaky' \in BOOLEAN
    BY <1>6 DEF WorkerEnds, WorkerFails
  <2>3. update' \in [Updates -> [pc : Pcs, snapshot : Seq(Deployments), todo : Seq(Deployments),
                                 workers : SUBSET DOMAIN jobs]]
    BY <2>1
  <2> QED
    BY ONLY <2>2, <2>3, ShapeInv DEF ShapeInv
<1>7. CASE Tick
  BY <1>7 DEF Tick
<1>8. CASE UNCHANGED vars
  BY <1>8 DEF vars
<1> QED
  BY <1>1, <1>2, <1>3, <1>4, <1>5, <1>6, <1>7, <1>8, NextCases

\* Every step keeps the cache sound.
LEMMA NextCacheInv == ASSUME IInv, [Next]_vars PROVE CacheInv'
<1>0. jobs \in Seq(Job) /\ EntriesOK(prepared, jobs) /\ Limits(prepared) /\ now \in Nat
  BY CacheInvState DEF IInv, ShapeInv
<1>a. SUFFICES jobs' \in Seq(Job) /\ EntriesOK(prepared, jobs)' /\ Limits(prepared')
  BY DEF CacheInv, CacheOK, CacheWith, Limits
<1>b. ASSUME NEW D, CacheOK(D), prepared' = D.prepared, jobs' = D.jobs, now' = now
      PROVE  jobs' \in Seq(Job) /\ EntriesOK(prepared, jobs)' /\ Limits(prepared')
  BY <1>b DEF CacheOK, EntriesOK
<1>1. ASSUME NEW j \in DOMAIN jobs, Compiled(j)
      PROVE  jobs' \in Seq(Job) /\ EntriesOK(prepared, jobs)' /\ Limits(prepared')
  <2>1. jobs' = [jobs EXCEPT ![j].status = "ok"] /\ prepared' = prepared /\ now' = now
    BY <1>1 DEF Compiled
  <2>2. /\ jobs' \in Seq(Job) /\ DOMAIN jobs' = DOMAIN jobs
        /\ \A i \in DOMAIN jobs :
             jobs'[i] = IF i = j THEN [deployment |-> jobs[j].deployment, status |-> "ok"] ELSE jobs[i]
    BY <1>0, <2>1, JobSettles
  <2> QED
    BY <1>0, <2>1, <2>2 DEF EntriesOK
<1>2. ASSUME NEW j \in DOMAIN jobs, Fail(j)
      PROVE  jobs' \in Seq(Job) /\ EntriesOK(prepared, jobs)' /\ Limits(prepared')
  <2>1. jobs' = [jobs EXCEPT ![j].status = "failed"] /\ now' = now
    BY <1>2 DEF Fail
  <2>2. /\ jobs' \in Seq(Job) /\ DOMAIN jobs' = DOMAIN jobs
        /\ \A i \in DOMAIN jobs :
             jobs'[i] = IF i = j THEN [deployment |-> jobs[j].deployment, status |-> "failed"] ELSE jobs[i]
    BY <1>0, <2>1, JobSettles
  <2>3. /\ DOMAIN prepared' \subseteq DOMAIN prepared
        /\ jobs[j].deployment \notin DOMAIN prepared'
        /\ \A x \in DOMAIN prepared' : prepared'[x] = prepared[x]
    BY <1>2 DEF Fail, Keep
  <2>4. IsFiniteSet(DOMAIN prepared') /\ Limits(prepared')
    BY <1>0, <2>3, FS_Subset, LimitsKept DEF EntriesOK
  <2> QED
    BY <1>0, <2>1, <2>2, <2>3, <2>4 DEF EntriesOK
<1>3. ASSUME NEW r \in Requests, NEW d \in Deployments, PrepareRoute(r, d)
      PROVE  jobs' \in Seq(Job) /\ EntriesOK(prepared, jobs)' /\ Limits(prepared')
  BY <1>b, <1>3, PrepareStep DEF PrepareRoute, IInv
<1>4. ASSUME NEW u \in Updates, NEW s \in Snapshots, Load(u, s)
      PROVE  jobs' \in Seq(Job) /\ EntriesOK(prepared, jobs)' /\ Limits(prepared')
  <2>1. CacheOK(Started(s))
    BY SupervisorAssumption, StartedKeepsCache DEF IInv, ShapeInv, CacheInv
  <2> QED
    BY <1>b, <1>4, <2>1 DEF Load
<1>5. ASSUME NEW u \in Updates, NEW j \in update[u].workers, WorkerTakes(u, j)
      PROVE  jobs' \in Seq(Job) /\ EntriesOK(prepared, jobs)' /\ Limits(prepared')
  <2>1. Head(update[u].todo) \in Deployments
    BY <1>5 DEF WorkerTakes, IInv, ShapeInv
  <2> QED
    BY <1>b, <1>5, <2>1, PrepareStep DEF WorkerTakes, IInv
<1>6. CASE Tick
  BY <1>0, <1>6 DEF Tick, EntriesOK
<1>7. CASE UNCHANGED <<prepared, jobs, now>>
  BY <1>0, <1>7 DEF EntriesOK
<1> QED
  BY <1>1, <1>2, <1>3, <1>4, <1>5, <1>6, <1>7, NextCases
     DEF NotFound, Settle, WorkerEnds, WorkerFails, vars

\* The elements of a sequence are its head and those of its tail.
LEMMA HeadAndTail ==
  ASSUME NEW s \in Seq(Deployments), s # <<>>
  PROVE  /\ Head(s) \in Deployments /\ Tail(s) \in Seq(Deployments)
         /\ ToSet(s) = {Head(s)} \cup ToSet(Tail(s))
<1>1. /\ Len(s) \in Nat \ {0} /\ DOMAIN s = 1..Len(s) /\ Head(s) = s[1]
      /\ Tail(s) \in Seq(Deployments) /\ DOMAIN Tail(s) = 1..(Len(s) - 1)
      /\ \A i \in 1..(Len(s) - 1) : Tail(s)[i] = s[i + 1]
  OBVIOUS
<1>2. ASSUME NEW i \in 1..Len(s) PROVE s[i] \in {Head(s)} \cup ToSet(Tail(s))
  <2>1. CASE i = 1
    BY <1>1, <2>1
  <2>2. CASE i # 1
    <3>1. i - 1 \in 1..(Len(s) - 1) /\ s[i] = Tail(s)[i - 1]
      BY <1>1, <2>2
    <3> QED
      BY <1>1, <3>1 DEF ToSet
  <2> QED
    BY <2>1, <2>2
<1>3. ASSUME NEW i \in 1..(Len(s) - 1) PROVE Tail(s)[i] \in ToSet(s)
  BY <1>1 DEF ToSet
<1> QED
  BY <1>1, <1>2, <1>3 DEF ToSet

\* Every step keeps the cache and the workers within the installed table, unless
\* a warm-up is leaky.
LEMMA NextRoutedInv == ASSUME IInv, [Next]_vars PROVE RoutedInv'
<1> USE DEF IInv, RoutedInv
<1>0. update \in [Updates -> Rows(jobs)] /\ jobs \in Seq(Job) /\ now \in Nat
  BY CacheInvState DEF ShapeInv, Rows
<1>1. ASSUME NEW j \in DOMAIN jobs, Compiled(j) \/ Fail(j) PROVE RoutedInv'
  BY <1>1 DEF Compiled, Fail, Keep
<1>2. ASSUME NEW r \in Requests, NEW d \in Deployments, PrepareRoute(r, d) PROVE RoutedInv'
  <2>1. DOMAIN prepared' \subseteq DOMAIN prepared \cup {d}
    BY <1>2, PrepareStep DEF PrepareRoute
  <2> QED
    BY <1>2, <2>1 DEF PrepareRoute
<1>3. ASSUME NEW r \in Requests, NotFound(r) \/ Settle(r) PROVE RoutedInv'
  BY <1>3 DEF NotFound, Settle
<1>4. ASSUME NEW u \in Updates, NEW s \in Snapshots, Load(u, s) PROVE RoutedInv'
  <2>1. s \in Seq(Deployments) /\ Batch(s) \in 0..Len(s)
    BY SupervisorAssumption, BatchType
  <2>2. DOMAIN prepared' \subseteq ToSet(s)
    BY <1>4, <2>1, StartedKeepsCache DEF Load, ShapeInv, CacheInv
  <2> DEFINE rest == SubSeq(s, Batch(s) + 1, Len(s))
  <2>3. ToSet(rest) \subseteq ToSet(s)
    BY <2>1 DEF ToSet
  <2>4. update' = [update EXCEPT ![u] =
              [pc |-> IF s = <<>> THEN "acked" ELSE "warming", snapshot |-> s,
               todo |-> rest, workers |-> Started(s).got]]
    BY <1>4 DEF Load
  <2>5. /\ \A v \in Updates \ {u} : update'[v] = update[v]
        /\ update'[u].todo = rest /\ update'[u].pc # "idle"
    BY <1>0, <2>4
  <2>6. table' = ToSet(s) /\ (~leaky' => \A v \in Updates : update[v].workers = {})
    BY <1>4 DEF Load
  <2> HIDE DEF rest
  <2> QED
    BY <2>2, <2>3, <2>5, <2>6
<1>5. ASSUME NEW u \in Updates, NEW j \in update[u].workers, WorkerTakes(u, j) PROVE RoutedInv'
  <2>1. /\ update[u].todo \in Seq(Deployments) /\ update[u].todo # <<>>
        /\ Head(update[u].todo) \in Deployments /\ Tail(update[u].todo) \in Seq(Deployments)
        /\ Head(update[u].todo) \in ToSet(update[u].todo)
        /\ ToSet(Tail(update[u].todo)) \subseteq ToSet(update[u].todo)
    BY <1>0, <1>5, HeadAndTail DEF WorkerTakes, Rows
  <2>2. DOMAIN prepared' \subseteq DOMAIN prepared \cup {Head(update[u].todo)}
    BY <1>5, <2>1, PrepareStep DEF WorkerTakes
  <2>3. /\ \A v \in Updates \ {u} : update'[v] = update[v]
        /\ update'[u].todo = Tail(update[u].todo) /\ update'[u].pc = update[u].pc
    <3>1. update' = [update EXCEPT ![u] =
                [pc |-> update[u].pc, snapshot |-> update[u].snapshot, todo |-> Tail(update[u].todo),
                 workers |-> (update[u].workers \ {j}) \cup Prepare(CacheWith(prepared), Head(update[u].todo)).got]]
      BY <1>5, WorkerRow
    <3> QED
      BY <1>0, <3>1
  <2> QED
    BY <1>5, <2>1, <2>2, <2>3 DEF WorkerTakes
<1>6. ASSUME NEW u \in Updates, NEW j \in update[u].workers, WorkerEnds(u, j) \/ WorkerFails(u, j) PROVE RoutedInv'
  <2>1. PICK pc : update' = [update EXCEPT ![u] =
              [pc |-> pc, snapshot |-> update[u].snapshot, todo |-> update[u].todo,
               workers |-> update[u].workers \ {j}]]
    BY <1>6, WorkerRow
  <2>2. update[u].pc # "idle" /\ pc = update'[u].pc
    BY <1>0, <2>1
  <2>3. pc # "idle"
    BY <1>0, <1>6, <2>1, <2>2, WorkerRow
  <2> QED
    BY <1>0, <1>6, <2>1, <2>3 DEF WorkerEnds, WorkerFails
<1>7. CASE Tick
  BY <1>7 DEF Tick
<1>8. CASE UNCHANGED vars
  BY <1>8 DEF vars
<1> QED
  BY <1>1, <1>2, <1>3, <1>4, <1>5, <1>6, <1>7, <1>8, NextCases

\* Every step keeps account of what an update has compiled.
LEMMA NextAckInv == ASSUME IInv, [Next]_vars PROVE AckInv'
<1>0. update \in [Updates -> Rows(jobs)] /\ jobs \in Seq(Job) /\ now \in Nat
  BY CacheInvState DEF IInv, ShapeInv, Rows
<1>a. \A d : Finished(d) => Finished(d)'
  BY JobsGrow DEF Finished
<1>b. \A u \in Updates : \A j \in update[u].workers :
        /\ j \in DOMAIN jobs /\ j \in DOMAIN jobs'
        /\ jobs'[j].deployment = jobs[j].deployment
  BY <1>0, JobsGrow DEF Rows
<1> DEFINE Row(u) == \A d \in ToSet(update[u].snapshot) :
                       \/ update[u].pc \in {"idle", "failed"}
                       \/ Finished(d)
                       \/ update[u].pc = "warming" /\ Underway(u, d)
<1>c. ASSUME NEW u \in Updates, update'[u] = update[u] PROVE Row(u)'
  <2>1. Row(u)
    BY DEF IInv, AckInv
  <2> QED
    BY <1>a, <1>b, <1>c, <2>1 DEF Underway
<1>1. ASSUME UNCHANGED update PROVE AckInv'
  BY <1>1, <1>c DEF AckInv
<1>2. ASSUME NEW u \in Updates, \A v \in Updates \ {u} : update'[v] = update[v], Row(u)' PROVE AckInv'
  BY <1>2, <1>c DEF AckInv
<1>4. ASSUME NEW u \in Updates, NEW s \in Snapshots, Load(u, s) PROVE AckInv'
  <2>1. s \in Seq(Deployments) /\ Batch(s) \in 0..Len(s)
    BY SupervisorAssumption, BatchType
  <2> DEFINE rest == SubSeq(s, Batch(s) + 1, Len(s))
  <2>2. update' = [update EXCEPT ![u] =
              [pc |-> IF s = <<>> THEN "acked" ELSE "warming", snapshot |-> s,
               todo |-> rest, workers |-> Started(s).got]]
    BY <1>4 DEF Load
  <2>3. /\ \A v \in Updates \ {u} : update'[v] = update[v]
        /\ update'[u].todo = rest /\ update'[u].snapshot = s /\ update'[u].workers = Started(s).got
        /\ s # <<>> => update'[u].pc = "warming"
    BY <1>0, <2>2
  <2>4. jobs' = Started(s).jobs
    BY <1>4 DEF Load
  <2>5. ASSUME NEW d \in ToSet(s) PROVE update'[u].pc = "warming" /\ Underway(u, d)'
    <3>1. PICK i \in 1..Len(s) : s[i] = d
      BY <2>1 DEF ToSet
    <3>2. s # <<>>
      BY <3>1
    <3>3. CASE i <= Batch(s)
      <4>1. \E j \in Started(s).got : Started(s).jobs[j].deployment = s[i]
        BY <2>1, <3>3, StartedKeepsCache DEF IInv, ShapeInv, CacheInv
      <4> QED
        BY <2>3, <2>4, <3>1, <3>2, <4>1 DEF Underway
    <3>4. CASE i > Batch(s)
      <4>1. i - Batch(s) \in DOMAIN rest /\ rest[i - Batch(s)] = s[i]
        BY <2>1, <3>4
      <4> HIDE DEF rest
      <4> QED
        BY <2>3, <3>1, <3>2, <4>1 DEF Underway, ToSet
    <3> QED
      BY <2>1, <3>3, <3>4
  <2> HIDE DEF rest
  <2>6. Row(u)'
    BY <2>3, <2>5
  <2> QED
    BY <1>2, <2>3, <2>6
<1>5. ASSUME NEW u \in Updates, NEW j \in update[u].workers, WorkerTakes(u, j) PROVE AckInv'
  <2> DEFINE todo == update[u].todo
             D == Prepare(CacheWith(prepared), Head(todo))
  <2>1. todo \in Seq(Deployments) /\ todo # <<>> /\ Head(todo) \in Deployments
    BY <1>0, <1>5 DEF WorkerTakes, Rows
  <2>2. /\ \A v \in Updates \ {u} : update'[v] = update[v]
        /\ update'[u].snapshot = update[u].snapshot /\ update'[u].pc = update[u].pc
        /\ update'[u].todo = Tail(todo) /\ update'[u].workers = (update[u].workers \ {j}) \cup D.got
    <3>1. update' = [update EXCEPT ![u] =
                [pc |-> update[u].pc, snapshot |-> update[u].snapshot, todo |-> Tail(update[u].todo),
                 workers |-> (update[u].workers \ {j}) \cup Prepare(CacheWith(prepared), Head(update[u].todo)).got]]
      BY <1>5, WorkerRow DEF IInv
    <3> HIDE DEF D
    <3> QED
      BY <1>0, <3>1 DEF D
  <2>3. jobs' = D.jobs /\ jobs[j].status = "ok"
    BY <1>5 DEF WorkerTakes
  <2>4. \E k \in D.got : jobs'[k].deployment = Head(todo)
    BY <2>1, <2>3, PrepareStep DEF IInv
  <2>5. \A d \in ToSet(todo) : d = Head(todo) \/ d \in ToSet(Tail(todo))
    BY <2>1, HeadAndTail
  <2> HIDE DEF todo, D
  <2>6. ASSUME NEW d \in ToSet(update[u].snapshot), update[u].pc = "warming", Underway(u, d)
        PROVE  Finished(d)' \/ Underway(u, d)'
    <3>1. CASE d \in ToSet(todo)
      BY <2>2, <2>4, <2>5, <3>1 DEF Underway
    <3>2. ASSUME NEW k \in update[u].workers, jobs[k].deployment = d PROVE Finished(d)' \/ Underway(u, d)'
      <4>1. CASE k = j
        BY <1>a, <1>b, <2>3, <3>2, <4>1 DEF Finished
      <4>2. CASE k # j
        BY <1>b, <2>2, <3>2, <4>2 DEF Underway
      <4> QED
        BY <4>1, <4>2
    <3> QED
      BY <2>6, <3>1, <3>2 DEF Underway, todo
  <2>7. Row(u)
    BY DEF IInv, AckInv
  <2>8. Row(u)'
    BY <1>a, <2>2, <2>6, <2>7
  <2> QED
    BY <1>2, <2>2, <2>8
<1>6. ASSUME NEW u \in Updates, NEW j \in update[u].workers, WorkerEnds(u, j) PROVE AckInv'
  <2>1. /\ \A v \in Updates \ {u} : update'[v] = update[v]
        /\ update'[u].snapshot = update[u].snapshot /\ update'[u].todo = update[u].todo
        /\ update'[u].workers = update[u].workers \ {j}
        /\ update'[u].pc = IF update[u].pc = "warming" /\ update[u].workers = {j} THEN "acked" ELSE update[u].pc
    BY <1>0, <1>6, WorkerRow DEF IInv
  <2>2. jobs' = jobs /\ jobs[j].status = "ok" /\ update[u].todo = <<>>
    BY <1>6 DEF WorkerEnds
  <2>3. ToSet(update[u].todo) = {}
    BY <2>2 DEF ToSet
  <2>4. ASSUME NEW d \in ToSet(update[u].snapshot), update[u].pc = "warming", Underway(u, d)
        PROVE  Finished(d)' \/ (update[u].workers # {j} /\ Underway(u, d)')
    <3>1. PICK k \in update[u].workers : jobs[k].deployment = d
      BY <2>3, <2>4 DEF Underway
    <3>2. CASE k = j
      BY <1>a, <1>b, <2>2, <3>1, <3>2 DEF Finished
    <3>3. CASE k # j
      BY <2>1, <2>2, <3>1, <3>3 DEF Underway
    <3> QED
      BY <3>2, <3>3
  <2>5. Row(u)
    BY DEF IInv, AckInv
  <2>6. Row(u)'
    BY <1>a, <2>1, <2>4, <2>5
  <2> QED
    BY <1>2, <2>1, <2>6
<1>7. ASSUME NEW u \in Updates, NEW j \in update[u].workers, WorkerFails(u, j) PROVE AckInv'
  <2>1. /\ \A v \in Updates \ {u} : update'[v] = update[v]
        /\ update'[u].pc = "failed"
    BY <1>0, <1>7, WorkerRow DEF IInv
  <2>2. Row(u)'
    BY <2>1
  <2> QED
    BY <1>2, <2>1, <2>2
<1> QED
  BY <1>1, <1>4, <1>5, <1>6, <1>7, NextCases
     DEF Compiled, Fail, PrepareRoute, NotFound, Settle, Tick, vars

\* Every step keeps the invariant.
LEMMA NextIInv == ASSUME IInv, [Next]_vars PROVE IInv'
BY NextShapeInv, NextCacheInv, NextRoutedInv, NextAckInv DEF IInv

\* The supervisor starts with an empty cache and an empty table.
LEMMA InitIInv == ASSUME Init PROVE IInv
<1> USE DEF Init
<1>1. jobs = <<>> /\ DOMAIN jobs = {} /\ DOMAIN prepared = {} /\ jobs \in Seq(Job)
  OBVIOUS
<1>2. ShapeInv
  <2>1. /\ table \subseteq Deployments /\ now \in Nat /\ leaky \in BOOLEAN
        /\ request \in [Requests -> [pc : {"idle", "waiting", "served", "error"},
                                     job : {NoJob} \cup DOMAIN jobs]]
    OBVIOUS
  <2>2. [pc |-> "idle", snapshot |-> <<>>, todo |-> <<>>, workers |-> {}] \in Rows(jobs)
    BY DEF Rows, Pcs
  <2>3. update \in [Updates -> Rows(jobs)]
    BY <2>2
  <2> QED
    BY <2>1, <2>3 DEF ShapeInv, Rows
<1>3. Limits(prepared)
  <2>1. Within({}, MaxWarm)
    <3>1. MaxWarm # NoLimit => MaxWarm \in Nat
      BY SupervisorAssumption
    <3>2. MaxWarm # NoLimit => Max({1, MaxWarm}) \in Nat
      BY <3>1, MaxOne
    <3>3. MaxWarm # NoLimit => Cardinality({}) <= Max({1, MaxWarm})
      BY <3>2, FS_EmptySet
    <3> QED
      BY <3>3 DEF Within
  <2> QED
    BY <1>1, <2>1 DEF Limits
<1>4. CacheInv
  BY <1>1, <1>3, CacheInvState, FS_EmptySet DEF EntriesOK
<1>5. RoutedInv
  BY <1>1 DEF RoutedInv
<1>6. AckInv
  BY DEF AckInv, ToSet
<1> QED
  BY <1>2, <1>4, <1>5, <1>6 DEF IInv

\* The supervisor's invariant holds in every reachable state.
THEOREM SupervisorInvariant == Spec => []IInv
<1>1. Init => IInv
  BY InitIInv
<1>2. IInv /\ [Next]_vars => IInv'
  BY NextIInv
<1> QED
  BY <1>1, <1>2, PTL DEF Spec

\* The table, the cache, the compilations, the requests and the updates keep
\* their shapes, and a cached entry is of a compilation of its own deployment.
THEOREM SupervisorTypeCorrect == Spec => []TypeOK
<1>1. IInv => TypeOK
  <2> SUFFICES ASSUME IInv PROVE TypeOK
    OBVIOUS
  <2>1. jobs \in Seq(Job) /\ EntriesOK(prepared, jobs)
    BY CacheInvState DEF IInv
  <2> QED
    BY <2>1 DEF IInv, ShapeInv, EntriesOK, TypeOK, Job, Pcs
<1> QED
  BY <1>1, SupervisorInvariant, PTL

\* Whatever requests, warm-ups, failures and the clock do side by side, the
\* cache never holds a compilation that failed, a deployment that the installed
\* table does not route to (unless a superseded warm-up was still running), or
\* more deployments than the node's and the projects' limits allow.
THEOREM PreparedIsSound == Spec => []PreparedSound
<1>1. IInv => PreparedSound
  BY CacheInvState
     DEF IInv, RoutedInv, EntriesOK, Limits, PreparedSound, NoFailedEntry, PreparedAreRouted, WarmWithinLimits
<1> QED
  BY <1>1, SupervisorInvariant, PTL

\* An update that is acknowledged has had every deployment of its snapshot
\* compiled, however its workers shared compilations with others and whatever
\* was evicted or superseded meanwhile.
THEOREM AcknowledgedIsCompiled == Spec => []AckMeansCompiled
<1>1. IInv => AckMeansCompiled
  BY DEF IInv, AckInv, AckMeansCompiled, Finished
<1> QED
  BY <1>1, SupervisorInvariant, PTL

-----------------------------------------------------------------------------
(* Eviction by last use.                                                   *)

\* What evictUntil() drops was used no later than what it leaves, the entry it
\* must keep apart.
LEMMA EvictUntilOrder ==
  ASSUME NEW P, NEW S, IsFiniteSet(S), NEW max \in Nat \cup {NoLimit}, NEW d, Stamped(P, S \ {d}),
         NEW x \in EvictUntil(P, S, max, d), NEW y \in S \ {d}, y \notin EvictUntil(P, S, max, d)
  PROVE  P[x].lastUsed <= P[y].lastUsed
<1> DEFINE T == S \ {d}
           k == Cardinality(S) - max
<1>1. x \in T /\ Rank(P, T, x) < k /\ ~(Rank(P, T, y) < k)
  BY DEF EvictUntil, Rank, Earlier
<1>2. IsFiniteSet(T)
  BY FS_RemoveElement
<1>3. k \in Int
  <2>1. max \in Nat
    BY <1>1 DEF NoLimit, EvictUntil
  <2> QED
    BY <2>1, FS_CardinalityType
<1> HIDE DEF T, k
<1>4. Stamped(P, T) /\ y \in T
  BY DEF T
<1>5. ~(Rank(P, T, y) < Rank(P, T, x))
  BY <1>1, <1>2, <1>3, RankType
<1>6. ~UsedBefore(P, y, x)
  BY <1>1, <1>2, <1>4, <1>5, RankMonotone
<1> QED
  BY <1>1, <1>4, <1>6 DEF UsedBefore, Stamped

\* When prepareDeployment() starts a compilation, what it drops of the cache was
\* used no later than what it leaves untouched, within a project, and within
\* the node when the newcomer is of another project.
LEMMA PrepareEvicts ==
  ASSUME now \in Nat, NEW D, CacheOK(D), NEW d \in Deployments,
         NEW E, E = Prepare(D, d), Len(E.jobs) = Len(D.jobs) + 1,
         NEW x \in DOMAIN D.prepared \ DOMAIN E.prepared,
         NEW y \in DOMAIN D.prepared \cap DOMAIN E.prepared, E.prepared[y] = D.prepared[y],
         Project[x] = Project[y] \/ Project[x] # Project[E.jobs[Len(E.jobs)].deployment]
  PROVE  D.prepared[x].lastUsed <= D.prepared[y].lastUsed
<1> DEFINE P == WithoutIdle(D.prepared)
           known == Cached(P, d) # {}
           job == Len(D.jobs) + 1
           Q == [z \in DOMAIN P \cup {d} |-> IF z = d THEN [job |-> job, lastUsed |-> now] ELSE P[z]]
           ofProject == {z \in DOMAIN Q : Project[z] = Project[d]}
           first == EvictUntil(Q, ofProject, MaxWarmPerProject, d)
           left == DOMAIN Q \ first
           second == EvictUntil(Q, left, MaxWarm, d)
<1>1. D.jobs \in Seq(Job) /\ Len(D.jobs) \in Nat /\ DOMAIN D.jobs = 1..Len(D.jobs)
  BY DEF CacheOK
<1>2. ~known
  <2>1. known => E.jobs = D.jobs
    BY DEF Prepare
  <2> HIDE DEF known
  <2> QED
    BY <1>1, <2>1
<1>3. E.prepared = Pack(Q, d) /\ E.jobs = Append(D.jobs, [deployment |-> d, status |-> "running"])
  BY <1>2 DEF Prepare
<1>4. E.jobs[Len(E.jobs)].deployment = d
  <2>1. [deployment |-> d, status |-> "running"] \in Job
    BY DEF Job
  <2> QED
    BY <1>1, <1>3, <2>1
<1>5. /\ DOMAIN P \subseteq DOMAIN D.prepared
      /\ \A z \in DOMAIN P : P[z] = D.prepared[z]
      /\ d \notin DOMAIN P
  BY <1>2 DEF WithoutIdle, Keep, Cached
<1>6. /\ IsFiniteSet(DOMAIN D.prepared)
      /\ \A z \in DOMAIN D.prepared : D.prepared[z].job \in 1..Len(D.jobs) /\ D.prepared[z].lastUsed \in Nat
  BY <1>1 DEF CacheOK, EntriesOK
<1>7. MaxWarm \in Nat \cup {NoLimit} /\ MaxWarmPerProject \in Nat \cup {NoLimit} /\ MaxIdle \in Nat \cup {NoLimit}
  BY SupervisorAssumption
<1>a. x \notin DOMAIN P => /\ MaxIdle # NoLimit
                           /\ D.prepared[x].lastUsed < now - MaxIdle
                           /\ \A z \in DOMAIN P : D.prepared[z].lastUsed >= now - MaxIdle
  BY <1>6, <1>7 DEF WithoutIdle, Keep, NoLimit
<1> HIDE DEF P, known
<1>8. /\ DOMAIN Q = DOMAIN P \cup {d} /\ Q[d].job = job
      /\ \A z \in DOMAIN P : Q[z] = D.prepared[z]
      /\ IsFiniteSet(DOMAIN P)
  BY <1>5, <1>6, FS_Subset
<1>9. Stamped(Q, DOMAIN Q) /\ IsFiniteSet(DOMAIN Q)
  <2>1. IsFiniteSet(DOMAIN Q)
    BY <1>8, FS_AddElement
  <2> QED
    BY <1>1, <1>5, <1>6, <2>1 DEF Stamped
<1>10. /\ DOMAIN E.prepared = left \ second
       /\ \A z \in DOMAIN E.prepared : E.prepared[z] = Q[z]
  BY <1>3 DEF Pack, Keep
<1> HIDE DEF Q, job
<1>11. y \in DOMAIN P /\ y # d
  <2>1. y \in DOMAIN Q /\ E.prepared[y] = Q[y]
    BY <1>10
  <2>2. ASSUME y = d PROVE FALSE
    <3>1. D.prepared[y].job = Len(D.jobs) + 1
      BY <1>8, <2>1, <2>2 DEF job
    <3> QED
      BY <1>1, <1>6, <3>1
  <2> QED
    BY <1>8, <2>1, <2>2
<1>12. CASE x \notin DOMAIN P
  <2>1. D.prepared[x].lastUsed \in Nat /\ D.prepared[y].lastUsed \in Nat /\ now - MaxIdle \in Int
    BY <1>6, <1>7, <1>a, <1>12 DEF NoLimit
  <2> QED
    BY <1>a, <1>11, <1>12, <2>1
<1>13. CASE x \in DOMAIN P
  <2>1. x # d /\ Q[x] = D.prepared[x] /\ Q[y] = D.prepared[y] /\ x \in DOMAIN Q /\ y \in DOMAIN Q
    BY <1>5, <1>8, <1>11, <1>13
  <2>2. /\ ofProject \in SUBSET DOMAIN Q /\ left \in SUBSET DOMAIN Q
        /\ Stamped(Q, ofProject \ {d}) /\ Stamped(Q, left \ {d})
    BY <1>9 DEF Stamped
  <2>3. IsFiniteSet(ofProject) /\ IsFiniteSet(left)
    BY <1>9, <2>2, FS_Subset
  <2>4. y \in left /\ y \notin second /\ y \notin first /\ (x \in first \/ (x \in left /\ x \in second))
    BY <1>10, <2>1
  <2>5. CASE x \in first
    <3>1. x \in ofProject
      BY <2>5 DEF EvictUntil
    <3>2. y \in ofProject \ {d}
      BY <1>4, <1>11, <2>1, <3>1
    <3> HIDE DEF ofProject
    <3> QED
      BY <1>7, <2>1, <2>2, <2>3, <2>4, <2>5, <3>2, EvictUntilOrder
  <2>6. CASE x \in second
    <3>1. y \in left \ {d}
      BY <1>11, <2>4
    <3>2. x \in EvictUntil(Q, left, MaxWarm, d) /\ y \notin EvictUntil(Q, left, MaxWarm, d)
      BY <2>4, <2>6
    <3> HIDE DEF left
    <3>3. Q[x].lastUsed <= Q[y].lastUsed
      BY <1>7, <2>2, <2>3, <3>1, <3>2, EvictUntilOrder
    <3> QED
      BY <2>1, <3>3
  <2> QED
    BY <2>4, <2>5, <2>6
<1> QED
  BY <1>12, <1>13

\* No step of a request or of a warm-up's worker evicts an entry that was used
\* more recently than an untouched one that it could have evicted instead.
THEOREM EvictionIsByLastUse == Spec => EvictsLeastRecent
<1> DEFINE Grows == /\ Len(jobs') = Len(jobs) + 1
                    /\ \A u \in Updates : update'[u].pc = "idle" <=> update[u].pc = "idle"
           Ordered == LET newcomer == jobs'[Len(jobs')].deployment
                      IN  \A x \in DOMAIN prepared \ DOMAIN prepared' :
                            \A y \in {z \in DOMAIN prepared \cap DOMAIN prepared' : prepared'[z] = prepared[z]} :
                              Project[x] = Project[y] \/ Project[x] # Project[newcomer]
                              => prepared[x].lastUsed <= prepared[y].lastUsed
<1>1. ASSUME IInv, [Next]_vars, Grows PROVE Ordered
  <2>0. jobs \in Seq(Job) /\ now \in Nat /\ Len(jobs) \in Nat /\ CacheOK(CacheWith(prepared))
    BY <1>1, CacheInvState DEF IInv, ShapeInv, CacheInv
  <2>1. ASSUME NEW d \in Deployments, NEW D, D = Prepare(CacheWith(prepared), d),
               prepared' = D.prepared, jobs' = D.jobs
        PROVE  Ordered
    <3> DEFINE C == CacheWith(prepared)
    <3>1. C.prepared = prepared /\ C.jobs = jobs
      BY DEF CacheWith
    <3> HIDE DEF C
    <3>2. CacheOK(C) /\ D = Prepare(C, d) /\ Len(D.jobs) = Len(C.jobs) + 1
      BY <1>1, <2>0, <2>1, <3>1 DEF C
    <3> SUFFICES ASSUME NEW x \in DOMAIN C.prepared \ DOMAIN D.prepared,
                        NEW y \in DOMAIN C.prepared \cap DOMAIN D.prepared, D.prepared[y] = C.prepared[y],
                        Project[x] = Project[y] \/ Project[x] # Project[D.jobs[Len(D.jobs)].deployment]
                 PROVE  C.prepared[x].lastUsed <= C.prepared[y].lastUsed
      BY <2>1, <3>1
    <3> QED
      BY <2>0, <3>2, PrepareEvicts
  <2>2. ASSUME NEW r \in Requests, NEW d \in Deployments, PrepareRoute(r, d) PROVE Ordered
    BY <2>1, <2>2 DEF PrepareRoute
  <2>3. ASSUME NEW u \in Updates, NEW j \in update[u].workers, WorkerTakes(u, j) PROVE Ordered
    <3>1. Head(update[u].todo) \in Deployments
      BY <1>1, <2>3, HeadAndTail DEF WorkerTakes, IInv, ShapeInv
    <3> QED
      BY <2>1, <2>3, <3>1 DEF WorkerTakes
  <2>4. ASSUME NEW u \in Updates, NEW s \in Snapshots, Load(u, s) PROVE FALSE
    <3>1. update \in [Updates -> Rows(jobs)]
      BY <1>1 DEF IInv, ShapeInv, Rows
    <3>2. update[u].pc = "idle" /\ update'[u].pc # "idle"
      BY <2>4, <3>1 DEF Load
    <3> QED
      BY <1>1, <3>2
  <2>5. ASSUME NEW j \in DOMAIN jobs, Compiled(j) \/ Fail(j) PROVE FALSE
    <3>1. PICK x \in {"ok", "failed"} : jobs' = [jobs EXCEPT ![j].status = x]
      BY <2>5 DEF Compiled, Fail
    <3>2. jobs' \in Seq(Job) /\ DOMAIN jobs' = DOMAIN jobs
      BY <2>0, <2>5, <3>1, JobSettles
    <3>3. Len(jobs') = Len(jobs)
      BY <2>0, <3>2
    <3> QED
      BY <1>1, <2>0, <3>3
  <2>6. CASE jobs' = jobs
    BY <1>1, <2>0, <2>6
  <2> HIDE DEF Ordered
  <2> QED
    BY <1>1, <2>2, <2>3, <2>4, <2>5, <2>6, NextCases
       DEF NotFound, Settle, WorkerEnds, WorkerFails, Tick, vars
<1>2. IInv /\ [Next]_vars => [Grows => Ordered]_vars
  BY <1>1
<1> QED
  BY <1>2, SupervisorInvariant, PTL DEF Spec, EvictsLeastRecent

-----------------------------------------------------------------------------
(* The files of a node, for every sequence of loads and collections and    *)
(* every disk they start from.  A load that holds a temporary name is the  *)
(* only one whose bytes go to the inode it opened (HolderInv), so what it  *)
(* renames is what it wrote (ContentInv).  A collection that is under way  *)
(* waits for the load behind every entry it could hurt, or keeps its files *)
(* (ServedInv), and a temporary file has a load that will rename or remove *)
(* it (TmpInv).                                                            *)

LoadPcs == {"idle", "joined", "ready", "failed", "gone", "materialize", "verify", "fetch", "compile",
            "validate", "run", "open", "write", "rename"}
CacheDirs == {"artifact", "precompiled"}

\* Where the component of a load is: in the cache, or where its file: location says.
IsComponent(l, path) ==
  \/ path = artifactCacheName(Artifact(l).digest)
  \/ path.dir = "file" /\ path.tmp = {} /\ (work.verify => path.name = <<Artifact(l).digest>>)

CodeOf(l) == PrecompiledPath(Deployment(l), Artifact(l).digest, work.backend.variant)

\* A load fetches its component, or knows it and compiles it.
AtArtifact(l) ==
  /\ loads[l].stage = "artifact"
  /\ loads[l].component = {artifactCacheName(Artifact(l).digest)}
  /\ loads[l].target = {artifactCacheName(Artifact(l).digest)}
AtCode(l) ==
  /\ loads[l].stage = "precompiled"
  /\ loads[l].target = {CodeOf(l)}
  /\ \E path : loads[l].component = {path} /\ IsComponent(l, path)

HasTmp(l) == \E t : loads[l].tmp = {t} /\ t.tmp # {} /\ t.dir \in CacheDirs
Writes(l) == loads[l].pc \in {"write", "rename"}
Files(l) == loads[l].component \union loads[l].target

\* What a load knows at each of its steps (artifacts.ts, wasmtime.ts, wasip3-host.ts).
LoadShape(l) ==
  /\ loads[l].pc \in LoadPcs
  /\ loads[l].pc \in {"idle", "joined", "failed", "gone", "materialize", "verify", "fetch", "compile"} =>
       loads[l].tmp = {} /\ loads[l].stage = "artifact"
  /\ loads[l].pc \in {"verify", "fetch"} => AtArtifact(l)
  /\ loads[l].pc = "compile" => \E path : loads[l].component = {path} /\ IsComponent(l, path)
  /\ loads[l].pc \in {"validate", "run", "ready"} => AtCode(l)
  /\ loads[l].pc \in {"validate", "run"} => HasTmp(l)
  /\ loads[l].pc = "open" => (AtArtifact(l) /\ loads[l].tmp = {}) \/ (AtCode(l) /\ HasTmp(l))
  /\ Writes(l) => /\ AtArtifact(l) \/ AtCode(l)
                  /\ HasTmp(l)
                  /\ \E n \in DOMAIN inodes : loads[l].inode = {n}

\* The loads are the ones of the workload, and an entry names one that is under way or done.
LoadsInv ==
  /\ work \in CacheWorkloads
  /\ DOMAIN loads = DOMAIN work.loads
  /\ \A l \in DOMAIN loads :
       /\ DOMAIN loads[l] = {"pc", "stage", "component", "target", "tmp", "inode", "bytes"}
       /\ LoadShape(l)
  /\ \A d \in DOMAIN entries :
       entries[d] # 0 => /\ entries[d] \in DOMAIN loads
                         /\ Deployment(entries[d]) = d
                         /\ loads[entries[d]].pc \notin {"idle", "joined", "failed", "gone"}

\* A name in one of the two directories is one of the inodes, and no two names share one.
DiskInv ==
  /\ \E k \in Nat : DOMAIN inodes = 1 .. k
  /\ \A p \in DOMAIN names : names[p] \in DOMAIN inodes /\ p.dir \in CacheDirs
  /\ \A p \in DOMAIN names, q \in DOMAIN names : names[p] = names[q] => p = q

\* The inode a load writes to is under its temporary name or under none, and
\* no other load holds that name or that inode.
HolderInv ==
  ~sharedTmp =>
    \A l \in DOMAIN loads : Writes(l) =>
      /\ \A p \in DOMAIN names : names[p] \in loads[l].inode => p \in loads[l].tmp
      /\ \A p \in DOMAIN names : p \in loads[l].tmp => names[p] \in loads[l].inode
      /\ \A k \in DOMAIN loads : k # l /\ Writes(k) =>
           loads[l].inode \cap loads[k].inode = {} /\ loads[l].tmp \cap loads[k].tmp = {}

\* What is under a final name is what it says, and so is what a load is about to put there.
ContentInv ==
  work.verify /\ ~sharedTmp =>
    /\ \A p \in DOMAIN names : p.tmp = {} => inodes[names[p]].body = ContentOf(p)
    /\ \A l \in DOMAIN loads :
         /\ loads[l].pc \in {"open", "write", "rename"} => \A path \in loads[l].target : loads[l].bytes = ContentOf(path)
         /\ loads[l].pc = "rename" => \A n \in loads[l].inode : inodes[n].body = loads[l].bytes

\* A temporary file has a load that is under way, or the process died.
TmpInv ==
  /\ downs \in {0, 1}
  /\ \A p \in DOMAIN names :
       p.tmp # {} => downs > 0 \/ \E l \in DOMAIN loads : Running(l) /\ p \in loads[l].tmp

\* Sweeps are of collections that have their keep set, and know of each file whether it is in it.
SweepsInv ==
  /\ \A g \in DOMAIN collections : DOMAIN collections[g] = {"pc", "waits", "keep"}
  /\ \A gd \in DOMAIN sweeps :
       /\ gd = <<gd[1], gd[2]>> /\ gd[1] \in DOMAIN collections
       /\ collections[gd[1]].pc \in {"sweep", "gone"}
       /\ DOMAIN sweeps[gd] = {"pc", "now", "seen", "files"}
       /\ \A f \in sweeps[gd].files : f.keep = (f.path \in collections[gd[1]].keep)

\* The component is on disk from the moment a load compiles it, its code when it
\* is ready; a collection waits for the load, or it is ready and its files are kept.
Compiles(l) == loads[l].pc \in {"compile", "validate", "run", "ready"} \/ loads[l].stage = "precompiled"

ServedLoad(l) ==
  /\ Compiles(l) => \A path \in loads[l].component : exists(path)
  /\ loads[l].pc = "ready" => \A path \in loads[l].target : exists(path)
  /\ \A g \in DOMAIN collections : collections[g].pc = "settle" => l \in collections[g].waits
  /\ \A g \in DOMAIN collections, dir \in CacheDirs :
       Sweeping(g, dir) => loads[l].pc = "ready" /\ Files(l) \subseteq collections[g].keep

ServedInv == \A d \in DOMAIN entries : entries[d] # 0 /\ entries[d] \notin exposed => ServedLoad(entries[d])

CachesInv == LoadsInv /\ DiskInv /\ HolderInv /\ ContentInv /\ TmpInv /\ SweepsInv /\ ServedInv

-----------------------------------------------------------------------------
(* What the steps of a load have in common.                                *)

LoadFields == {"pc", "stage", "component", "target", "tmp", "inode", "bytes"}

\* The other loads stay where they are.
OthersStay(l) ==
  /\ DOMAIN loads' = DOMAIN loads
  /\ DOMAIN loads'[l] = LoadFields
  /\ \A k \in DOMAIN loads : k # l => loads'[k] = loads[k]

\* The load l is at pc with these values.
Now(l, pc, stage, component, target, tmp, inode, bytes) ==
  /\ OthersStay(l)
  /\ loads'[l].pc = pc /\ loads'[l].stage = stage
  /\ loads'[l].component = component /\ loads'[l].target = target
  /\ loads'[l].tmp = tmp /\ loads'[l].inode = inode /\ loads'[l].bytes = bytes

\* A step that only changes the program counter (ArtifactCache.tla, Goes).
LEMMA GoesMoves ==
  ASSUME NEW l \in DOMAIN loads, DOMAIN loads[l] = LoadFields, NEW pc, Goes(l, pc)
  PROVE  Now(l, pc, loads[l].stage, loads[l].component, loads[l].target, loads[l].tmp, loads[l].inode, loads[l].bytes)
<1> QED
  BY DEF Goes, Now, OthersStay, LoadFields

\* What a step of a load leaves alone when it touches no file.
Aside == UNCHANGED <<work, names, inodes, sweeps, collections, ms, downs, sharedTmp>>

\* A step of a load that touches no file and keeps its promise.
Calm(l) ==
  /\ OthersStay(l) /\ Aside /\ UNCHANGED <<entries, exposed>>
  /\ ~Writes(l) /\ loads[l].pc # "ready"
  /\ LoadShape(l)' /\ ~Writes(l)'
  /\ loads[l].pc = "idle" \/ loads'[l].pc \notin {"idle", "joined", "failed", "gone"}
  /\ loads'[l].pc = "open" /\ work.verify /\ ~sharedTmp =>
       \A path \in loads'[l].target : loads'[l].bytes = ContentOf(path)
  /\ loads[l].tmp # {} => loads'[l].tmp = loads[l].tmp /\ Running(l)'
  /\ Compiles(l)' => \/ Compiles(l) /\ loads'[l].component = loads[l].component
                     \/ \A path \in loads'[l].component : exists(path)
  /\ loads'[l].pc = "ready" => \A path \in loads'[l].target : exists(path)

\* What a load knows does not depend on the other loads.
LEMMA ShapeStays ==
  ASSUME LoadsInv, NEW k \in DOMAIN loads, loads'[k] = loads[k], work' = work,
         DOMAIN inodes \subseteq DOMAIN inodes'
  PROVE  LoadShape(k)'
<1>1. LoadShape(k)
  BY DEF LoadsInv
<1> QED
  BY <1>1 DEF LoadShape, AtArtifact, AtCode, IsComponent, CodeOf, HasTmp, Writes, Artifact, Deployment,
              PrecompiledPath, artifactCacheName, CachePath

\* Such a step keeps the invariant (artifacts.ts, wasmtime.ts).
LEMMA CalmStep ==
  ASSUME CachesInv, NEW l \in DOMAIN loads, Calm(l)
  PROVE  CachesInv'
<1> USE DEF CachesInv
<1>0. /\ OthersStay(l) /\ Aside /\ UNCHANGED <<entries, exposed>>
      /\ ~Writes(l) /\ loads[l].pc # "ready" /\ ~Writes(l)' /\ LoadShape(l)'
  BY DEF Calm
<1>1. LoadsInv'
  <2>1. work' \in CacheWorkloads /\ DOMAIN loads' = DOMAIN work'.loads
    BY <1>0 DEF LoadsInv, Aside, OthersStay
  <2>2. ASSUME NEW k \in DOMAIN loads'
        PROVE  DOMAIN loads'[k] = LoadFields /\ LoadShape(k)'
    <3>1. CASE k = l
      BY <3>1, <1>0 DEF OthersStay
    <3>2. CASE k # l
      BY <3>2, <1>0, ShapeStays DEF LoadsInv, Aside, OthersStay, LoadFields
    <3> QED
      BY <3>1, <3>2
  <2>3. ASSUME NEW d \in DOMAIN entries', entries'[d] # 0
        PROVE  /\ entries'[d] \in DOMAIN loads'
               /\ work'.loads[entries'[d]].deployment = d
               /\ loads'[entries'[d]].pc \notin {"idle", "joined", "failed", "gone"}
    BY <2>3, <1>0 DEF LoadsInv, Aside, OthersStay, Calm, Deployment
  <2> QED
    BY <2>1, <2>2, <2>3 DEF LoadsInv, LoadFields, Deployment
<1>2. DiskInv'
  BY <1>0 DEF DiskInv, Aside
<1>3. HolderInv'
  BY <1>0 DEF HolderInv, Aside, OthersStay, Writes
<1>4. ContentInv'
  BY <1>0 DEF ContentInv, Aside, OthersStay, Writes, Calm, ContentOf
<1>5. TmpInv'
  <2>1. \A k \in DOMAIN loads : k # l /\ Running(k) => Running(k)'
    BY <1>0 DEF Running, OthersStay
  <2>2. Running(l) /\ loads[l].tmp # {} => Running(l)' /\ loads'[l].tmp = loads[l].tmp
    BY DEF Calm
  <2> QED
    BY <2>1, <2>2, <1>0 DEF TmpInv, Aside, OthersStay
<1>6. SweepsInv'
  BY <1>0 DEF SweepsInv, Aside
<1>7. ServedInv'
  <2> SUFFICES ASSUME NEW d \in DOMAIN entries, entries[d] # 0, entries[d] \notin exposed
               PROVE  ServedLoad(entries[d])'
    BY <1>0 DEF ServedInv
  <2> DEFINE k == entries[d]
  <2>1. ServedLoad(k) /\ k \in DOMAIN loads /\ loads[k].pc # "idle"
    BY DEF ServedInv, LoadsInv
  <2>2. \A path : exists(path)' <=> exists(path)
    BY <1>0 DEF exists, Foreign, Aside
  <2>3. \A g \in DOMAIN collections, dir \in CacheDirs : Sweeping(g, dir)' <=> Sweeping(g, dir)
    BY <1>0 DEF Sweeping, Aside
  <2>4. CASE k # l
    <3>1. loads'[k] = loads[k]
      BY <2>1, <2>4, <1>0 DEF OthersStay
    <3> QED
      BY <2>1, <2>2, <2>3, <3>1, <1>0 DEF ServedLoad, Aside, Compiles, Files
  <2>5. CASE k = l
    <3>1. \A g \in DOMAIN collections, dir \in CacheDirs : ~Sweeping(g, dir)
      BY <2>1, <2>5, <1>0 DEF ServedLoad
    <3>2. Compiles(l)' => \A path \in loads'[l].component : exists(path)
      BY <2>1, <2>5 DEF ServedLoad, Calm
    <3>3. loads'[l].pc = "ready" => \A path \in loads'[l].target : exists(path)
      BY DEF Calm
    <3> QED
      BY <2>1, <2>2, <2>3, <2>5, <3>1, <3>2, <3>3, <1>0 DEF ServedLoad, Aside
  <2> QED
    BY <2>4, <2>5
<1> QED
  BY <1>1, <1>2, <1>3, <1>4, <1>5, <1>6, <1>7

\* The temporary file of a load goes, if it has one and it is there.
TmpGoes(l) ==
  /\ DOMAIN names' = DOMAIN names \ loads[l].tmp
  /\ \A p \in DOMAIN names' : names'[p] = names[p]

\* A load that fails leaves no temporary file and no entry (artifacts.ts:137, supervisor.ts).
LEMMA ThrowStep ==
  ASSUME CachesInv, NEW l \in DOMAIN loads, Running(l), Throws(l), TmpGoes(l),
         UNCHANGED <<work, inodes, sweeps, collections, ms, downs, sharedTmp, exposed>>
  PROVE  CachesInv'
<1> USE DEF CachesInv
<1> DEFINE r == [IdleLoad EXCEPT !.pc = "failed"]
<1>1. /\ OthersStay(l)
      /\ loads'[l].pc = "failed" /\ loads'[l].tmp = {} /\ loads'[l].stage = "artifact"
  BY DEF Throws, OthersStay, IdleLoad, LoadFields
<1>2. /\ DOMAIN entries' = DOMAIN entries
      /\ \A d \in DOMAIN entries : entries'[d] # 0 => entries'[d] = entries[d] /\ entries[d] # l
  BY DEF Throws, LoadsInv
<1> HIDE DEF r
<1>3. \A t \in loads[l].tmp : t.tmp # {}
  BY DEF LoadsInv, LoadShape, Running, LoadEnded, LoadPcs, HasTmp, Writes
<1>4. LoadsInv'
  <2>1. work' \in CacheWorkloads /\ DOMAIN loads' = DOMAIN work'.loads
    BY <1>1 DEF LoadsInv, OthersStay
  <2>2. ASSUME NEW k \in DOMAIN loads'
        PROVE  DOMAIN loads'[k] = LoadFields /\ LoadShape(k)'
    <3>1. CASE k = l
      BY <3>1, <1>1 DEF OthersStay, LoadShape, LoadPcs, Writes
    <3>2. CASE k # l
      BY <3>2, <1>1, ShapeStays DEF LoadsInv, OthersStay, LoadFields
    <3> QED
      BY <3>1, <3>2
  <2>3. ASSUME NEW d \in DOMAIN entries', entries'[d] # 0
        PROVE  /\ entries'[d] \in DOMAIN loads'
               /\ work'.loads[entries'[d]].deployment = d
               /\ loads'[entries'[d]].pc \notin {"idle", "joined", "failed", "gone"}
    BY <2>3, <1>1, <1>2 DEF LoadsInv, OthersStay, Deployment
  <2> QED
    BY <2>1, <2>2, <2>3 DEF LoadsInv, LoadFields, Deployment
<1>5. DiskInv'
  BY DEF DiskInv, TmpGoes
<1>6. HolderInv'
  <2>1. \A k \in DOMAIN loads : Writes(k)' => Writes(k) /\ loads'[k] = loads[k]
    BY <1>1 DEF Writes, OthersStay
  <2> QED
    BY <2>1, <1>1 DEF HolderInv, TmpGoes, OthersStay
<1>7. ContentInv'
  BY <1>1 DEF ContentInv, TmpGoes, OthersStay, Writes, ContentOf
<1>8. TmpInv'
  <2>1. \A k \in DOMAIN loads : k # l /\ Running(k) => Running(k)' /\ loads'[k] = loads[k]
    BY <1>1 DEF Running, OthersStay
  <2> QED
    BY <2>1, <1>1 DEF TmpInv, TmpGoes, OthersStay
<1>9. SweepsInv'
  BY DEF SweepsInv
<1>10. ServedInv'
  <2> SUFFICES ASSUME NEW d \in DOMAIN entries, entries'[d] # 0, entries'[d] \notin exposed
               PROVE  ServedLoad(entries[d])'
    BY <1>2 DEF ServedInv
  <2>0. PICK k : k = entries'[d]
    OBVIOUS
  <2>1. ServedLoad(k) /\ k \in DOMAIN loads /\ loads'[k] = loads[k] /\ LoadShape(k) /\ loads[k].pc # "idle"
    BY <1>1, <1>2, <2>0 DEF ServedInv, LoadsInv, OthersStay
  <2>2. \A path : path.tmp = {} /\ exists(path) => exists(path)'
    BY <1>3 DEF exists, Foreign, TmpGoes
  <2>3. Compiles(k) => \A path \in loads[k].component : path.tmp = {}
    BY <2>1 DEF Compiles, LoadShape, AtCode, AtArtifact, IsComponent, artifactCacheName, CachePath, LoadPcs, Writes
  <2>4. loads[k].pc = "ready" => \A path \in loads[k].target : path.tmp = {}
    BY <2>1 DEF LoadShape, AtCode, CodeOf, PrecompiledPath, CachePath
  <2>5. \A g \in DOMAIN collections, dir \in CacheDirs : Sweeping(g, dir)' <=> Sweeping(g, dir)
    BY DEF Sweeping
  <2>6. ServedLoad(k)'
    BY <2>1, <2>2, <2>3, <2>4, <2>5 DEF ServedLoad, Compiles, Files
  <2> QED
    BY <2>0, <2>6
<1> QED
  BY <1>4, <1>5, <1>6, <1>7, <1>8, <1>9, <1>10

\* A file that a load has not made is still not its business when it throws.
LEMMA ThrowsQuietly ==
  ASSUME CachesInv, NEW l \in DOMAIN loads, loads[l].pc \in {"materialize", "verify", "fetch", "compile"},
         Throws(l), UNCHANGED Disk, Rest
  PROVE  CachesInv'
<1>1. loads[l].tmp = {}
  BY DEF CachesInv, LoadsInv, LoadShape
<1> QED
  BY <1>1, ThrowStep DEF TmpGoes, Disk, Rest, Collector, Running, LoadEnded

\* The first request for a deployment makes its load, and the others join it (supervisor.ts).
LEMMA FirstAskStep ==
  ASSUME CachesInv, NEW l \in DOMAIN loads, prepareDeployment(l)
  PROVE  CachesInv'
<1> USE DEF CachesInv
<1>1. DOMAIN loads[l] = LoadFields /\ loads[l].pc = "idle" /\ loads[l].tmp = {} /\ loads[l].stage = "artifact"
  BY DEF LoadsInv, LoadShape, prepareDeployment, LoadFields
<1>2. Aside
  BY DEF prepareDeployment, Disk, Collector, Aside
<1>3. CASE entries[Deployment(l)] # 0
  <2>1. Goes(l, "joined") /\ UNCHANGED <<entries, exposed>>
    BY <1>3 DEF prepareDeployment
  <2>2. Now(l, "joined", loads[l].stage, loads[l].component, loads[l].target, loads[l].tmp, loads[l].inode, loads[l].bytes)
    BY <2>1, <1>1, GoesMoves
  <2>3. Calm(l)
    BY <2>1, <2>2, <1>1, <1>2 DEF Calm, Now, LoadShape, LoadPcs, Writes, Compiles
  <2> QED
    BY <2>3, CalmStep
<1>4. CASE entries[Deployment(l)] = 0
  <2>1. /\ Goes(l, "materialize")
        /\ entries' = [entries EXCEPT ![Deployment(l)] = l]
        /\ exposed' = IF \E g \in DOMAIN collections : Collecting(g) THEN exposed \union {l} ELSE exposed
    BY <1>4 DEF prepareDeployment
  <2>2. Now(l, "materialize", loads[l].stage, loads[l].component, loads[l].target, loads[l].tmp, loads[l].inode, loads[l].bytes)
    BY <2>1, <1>1, GoesMoves
  <2>3. LoadsInv'
    <3>1. work' \in CacheWorkloads /\ DOMAIN loads' = DOMAIN work'.loads
      BY <1>2, <2>2 DEF LoadsInv, Aside, Now, OthersStay
    <3>2. ASSUME NEW k \in DOMAIN loads'
          PROVE  DOMAIN loads'[k] = LoadFields /\ LoadShape(k)'
      <4>1. CASE k = l
        BY <4>1, <2>2, <1>1 DEF Now, OthersStay, LoadShape, LoadPcs, Writes
      <4>2. CASE k # l
        BY <4>2, <2>2, <1>2, ShapeStays DEF LoadsInv, Now, Aside, OthersStay, LoadFields
      <4> QED
        BY <4>1, <4>2
    <3>3. ASSUME NEW d \in DOMAIN entries', entries'[d] # 0
          PROVE  /\ entries'[d] \in DOMAIN loads'
                 /\ work'.loads[entries'[d]].deployment = d
                 /\ loads'[entries'[d]].pc \notin {"idle", "joined", "failed", "gone"}
      BY <3>3, <2>1, <2>2, <1>2 DEF LoadsInv, Aside, Now, OthersStay, Deployment
    <3> QED
      BY <3>1, <3>2, <3>3 DEF LoadsInv, LoadFields, Deployment
  <2>4. DiskInv' /\ SweepsInv'
    BY <1>2 DEF DiskInv, SweepsInv, Aside
  <2>5. HolderInv' /\ ContentInv'
    BY <1>2, <2>2 DEF HolderInv, ContentInv, Aside, Now, OthersStay, Writes, ContentOf
  <2>6. TmpInv'
    BY <1>1, <1>2, <2>2 DEF TmpInv, Aside, Now, OthersStay, Running
  <2>7. ServedInv'
    <3> SUFFICES ASSUME NEW d \in DOMAIN entries, entries'[d] # 0, entries'[d] \notin exposed'
                 PROVE  ServedLoad(entries[d])'
      BY <2>1 DEF ServedInv
    <3>0. PICK k : k = entries'[d]
      OBVIOUS
    <3>1. \A path : exists(path)' <=> exists(path)
      BY <1>2 DEF exists, Foreign, Aside
    <3>2. \A g \in DOMAIN collections, dir \in CacheDirs : Sweeping(g, dir)' <=> Sweeping(g, dir)
      BY <1>2 DEF Sweeping, Aside
    <3>3. CASE k = l
      <4>1. \A g \in DOMAIN collections : ~Collecting(g)
        BY <2>1, <3>0, <3>3
      <4>2. \A g \in DOMAIN collections : collections[g].pc # "settle" /\ \A dir \in CacheDirs : ~Sweeping(g, dir)
        BY <4>1 DEF Collecting, CacheDirs
      <4>3. ServedLoad(l)'
        BY <1>1, <1>2, <2>2, <3>2, <4>2 DEF ServedLoad, Compiles, Now, Aside
      <4> QED
        BY <4>3, <3>0, <3>3
    <3>4. CASE k # l
      <4>1. k = entries[d] /\ k \notin exposed
        BY <2>1, <3>0, <3>4
      <4>2. ServedLoad(k) /\ k \in DOMAIN loads /\ loads'[k] = loads[k]
        BY <4>1, <2>2, <3>0, <3>4 DEF ServedInv, LoadsInv, Now, OthersStay
      <4>3. ServedLoad(k)'
        BY <4>2, <3>1, <3>2, <1>2 DEF ServedLoad, Compiles, Files, Aside
      <4> QED
        BY <4>3, <3>0
    <3> QED
      BY <3>3, <3>4
  <2> QED
    BY <2>3, <2>4, <2>5, <2>6, <2>7
<1> QED
  BY <1>3, <1>4

\* A file: location is where the component is (artifacts.ts:58).
LEMMA FileStep ==
  ASSUME CachesInv, NEW l \in DOMAIN loads, createFileArtifactStore(l)
  PROVE  CachesInv'
<1>0. PICK path : path = [dir |-> "file", name |-> <<Artifact(l).location.path>>, tmp |-> {}]
  OBVIOUS
<1>1. /\ loads[l].pc = "materialize" /\ UNCHANGED Disk /\ Rest
      /\ IF work.verify /\ sha256Digest(ReadFile(path)) # Artifact(l).digest
         THEN Throws(l)
         ELSE /\ loads' = [loads EXCEPT ![l].pc = "compile", ![l].component = {path}]
              /\ UNCHANGED entries
  BY <1>0 DEF createFileArtifactStore
<1>2. DOMAIN loads[l] = LoadFields /\ loads[l].tmp = {} /\ loads[l].stage = "artifact"
  BY <1>1 DEF CachesInv, LoadsInv, LoadShape, LoadFields
<1>3. CASE Throws(l)
  BY <1>1, <1>3, ThrowsQuietly
<1>4. CASE /\ loads' = [loads EXCEPT ![l].pc = "compile", ![l].component = {path}]
           /\ UNCHANGED entries
           /\ work.verify => sha256Digest(ReadFile(path)) = Artifact(l).digest
  <2>1. Now(l, "compile", loads[l].stage, {path}, loads[l].target, loads[l].tmp, loads[l].inode, loads[l].bytes)
    BY <1>2, <1>4 DEF Now, OthersStay, LoadFields
  <2>2. work.verify => Artifact(l).location.path = Artifact(l).digest
    BY <1>0, <1>4 DEF ReadFile, Foreign, sha256Digest
  <2>3. exists(path) /\ IsComponent(l, path)
    BY <1>0, <2>2 DEF exists, Foreign, IsComponent
  <2>4. IsComponent(l, path)'
    BY <2>3, <1>1 DEF IsComponent, Rest, Artifact, artifactCacheName, CachePath
  <2>5. LoadShape(l)'
    BY <2>1, <2>4, <1>2 DEF LoadShape, LoadPcs, Writes, Now
  <2>6. Calm(l)
    BY <2>1, <2>3, <2>5, <1>1, <1>2, <1>4 DEF Calm, Aside, Rest, Disk, Collector, Now, Writes, Running, LoadEnded
  <2> QED
    BY <2>6, CalmStep
<1> QED
  BY <1>1, <1>3, <1>4

\* A location that cannot be read is refused; what the cache has is verified (artifacts.ts:86).
LEMMA MaterializeStep ==
  ASSUME CachesInv, NEW l \in DOMAIN loads, materialize(l)
  PROVE  CachesInv'
<1>0. PICK path : path = artifactCacheName(Artifact(l).digest)
  OBVIOUS
<1>1. /\ loads[l].pc = "materialize" /\ UNCHANGED Disk /\ Rest
      /\ \/ Throws(l)
         \/ \E pc \in {"verify", "fetch"} :
              /\ loads' = [loads EXCEPT ![l].pc = pc, ![l].component = {path}, ![l].target = {path}]
              /\ UNCHANGED entries
  BY <1>0 DEF materialize
<1>2. DOMAIN loads[l] = LoadFields /\ loads[l].tmp = {} /\ loads[l].stage = "artifact"
  BY <1>1 DEF CachesInv, LoadsInv, LoadShape, LoadFields
<1>3. CASE Throws(l)
  BY <1>1, <1>3, ThrowsQuietly
<1>4. ASSUME NEW pc \in {"verify", "fetch"},
             loads' = [loads EXCEPT ![l].pc = pc, ![l].component = {path}, ![l].target = {path}],
             UNCHANGED entries
      PROVE  CachesInv'
  <2>1. Now(l, pc, "artifact", {path}, {path}, {}, loads[l].inode, loads[l].bytes)
    BY <1>2, <1>4 DEF Now, OthersStay, LoadFields
  <2>2. AtArtifact(l)'
    BY <2>1, <1>0, <1>1 DEF AtArtifact, Now, Rest, Artifact, artifactCacheName, CachePath
  <2>3. LoadShape(l)'
    BY <2>1, <2>2 DEF LoadShape, LoadPcs, Writes, Now
  <2>4. Calm(l)
    BY <2>1, <2>3, <1>1, <1>2, <1>4 DEF Calm, Aside, Rest, Disk, Collector, Now, Writes, Compiles
  <2> QED
    BY <2>4, CalmStep
<1> QED
  BY <1>1, <1>3, <1>4

\* A file that is there and is what its name says may be compiled (artifacts.ts:97).
LEMMA VerifyStep ==
  ASSUME CachesInv, NEW l \in DOMAIN loads, verifyFileDigest(l)
  PROVE  CachesInv'
<1>1. /\ loads[l].pc = "verify" /\ UNCHANGED Disk /\ Rest
      /\ \/ Throws(l)
         \/ exists(artifactCacheName(Artifact(l).digest)) /\ Goes(l, "compile") /\ UNCHANGED entries
  BY DEF verifyFileDigest
<1>2. DOMAIN loads[l] = LoadFields /\ loads[l].tmp = {} /\ loads[l].stage = "artifact" /\ AtArtifact(l)
  BY <1>1 DEF CachesInv, LoadsInv, LoadShape, LoadFields
<1>3. CASE Throws(l)
  BY <1>1, <1>3, ThrowsQuietly
<1>4. CASE exists(artifactCacheName(Artifact(l).digest)) /\ Goes(l, "compile") /\ UNCHANGED entries
  <2>1. Now(l, "compile", loads[l].stage, loads[l].component, loads[l].target, loads[l].tmp, loads[l].inode, loads[l].bytes)
    BY <1>2, <1>4, GoesMoves
  <2>2. PICK path : path = artifactCacheName(Artifact(l).digest)
    OBVIOUS
  <2>3. loads'[l].component = {path} /\ IsComponent(l, path)'
    BY <1>1, <1>2, <2>1, <2>2 DEF AtArtifact, IsComponent, Now, Rest, Artifact, artifactCacheName, CachePath
  <2>4. LoadShape(l)'
    BY <2>1, <2>3, <1>2 DEF LoadShape, LoadPcs, Writes, Now
  <2>5. Calm(l)
    BY <2>1, <2>2, <2>3, <2>4, <1>1, <1>2, <1>4 DEF Calm, Aside, Rest, Disk, Collector, Now, Writes
  <2> QED
    BY <2>5, CalmStep
<1> QED
  BY <1>1, <1>3, <1>4

\* Bytes that came are the ones of the digest, unless the node says not to check (artifacts.ts:123).
LEMMA FetchedStep ==
  ASSUME CachesInv, NEW l \in DOMAIN loads, loads[l].pc = "fetch",
         NEW answers \in SUBSET {<<work.served>>}, Fetched(l, answers), UNCHANGED Disk, Rest
  PROVE  CachesInv'
<1>1. CASE Throws(l)
  BY <1>1, ThrowsQuietly
<1>2. CASE ~Throws(l)
  <2>1. PICK bytes : bytes = CHOOSE b \in answers : TRUE
    OBVIOUS
  <2>2. /\ answers # {}
        /\ work.verify => sha256Digest(bytes) = Artifact(l).digest
        /\ loads' = [loads EXCEPT ![l].pc = "open", ![l].bytes = bytes, ![l].tmp = {}]
        /\ UNCHANGED entries
    BY <1>2, <2>1 DEF Fetched
  <2>3. bytes = <<work.served>>
    BY <2>1, <2>2
  <2>4. work.verify => bytes = <<Artifact(l).digest>>
    BY <2>2, <2>3 DEF sha256Digest
  <2>5. DOMAIN loads[l] = LoadFields /\ loads[l].tmp = {} /\ loads[l].stage = "artifact" /\ AtArtifact(l)
    BY DEF CachesInv, LoadsInv, LoadShape, LoadFields
  <2>6. Now(l, "open", loads[l].stage, loads[l].component, loads[l].target, {}, loads[l].inode, bytes)
    BY <2>2, <2>5 DEF Now, OthersStay, LoadFields
  <2>7. AtArtifact(l)'
    BY <2>5, <2>6 DEF AtArtifact, Now, Rest, Artifact, artifactCacheName, CachePath
  <2>8. LoadShape(l)'
    BY <2>6, <2>7 DEF LoadShape, LoadPcs, Writes, Now
  <2>9. work.verify => \A path \in loads'[l].target : bytes = ContentOf(path)
    BY <2>4, <2>5, <2>6 DEF AtArtifact, Now, ContentOf, artifactCacheName, CachePath
  <2>10. Calm(l)
    BY <2>2, <2>5, <2>6, <2>8, <2>9 DEF Calm, Aside, Rest, Disk, Collector, Now, Writes, Compiles
  <2> QED
    BY <2>10, CalmStep
<1> QED
  BY <1>1, <1>2

\* What an object store answers, for any location and settings.
LEMMA ObjectAnswers ==
  ASSUME NEW gets
  PROVE  UNION {Objects(r) : r \in gets} \subseteq {<<work.served>>}
<1> QED
  BY DEF Objects

\* What a registry answers when a blob is asked for.
LEMMA BlobAnswers ==
  ASSUME NEW ref, NEW scheme, NEW options, NEW digest
  PROVE  fetchOciBlob(ref, scheme, options, digest) \subseteq {<<work.served>>}
<1>1. PICK url : url = ociRegistryApiUrl(ref, scheme, "blobs", digest)
  OBVIOUS
<1>2. url.kind = "blobs"
  BY <1>1 DEF ociRegistryApiUrl
<1>3. \A h : Registry(url, h) \subseteq {<<work.served>>}
  BY <1>2 DEF Registry
<1>4. fetchOciUrl(url, options) \subseteq {<<work.served>>}
  BY <1>3 DEF fetchOciUrl
<1> QED
  BY <1>1, <1>4 DEF fetchOciBlob

\* The answer of an object store, or none (artifacts.ts:118).
LEMMA FetchStep ==
  ASSUME CachesInv, NEW l \in DOMAIN loads, fetchRemoteArtifact(l)
  PROVE  CachesInv'
<1>1. PICK answers : /\ answers \subseteq {<<work.served>>}
                     /\ Fetched(l, answers)
  <2>1. {} \subseteq {<<work.served>>}
    OBVIOUS
  <2> QED
    BY <2>1, ObjectAnswers DEF fetchRemoteArtifact
<1>2. loads[l].pc = "fetch" /\ UNCHANGED Disk /\ Rest
  BY DEF fetchRemoteArtifact
<1> QED
  BY <1>1, <1>2, FetchedStep

\* The answer of a registry, or none (artifacts.ts:112).
LEMMA OciStep ==
  ASSUME CachesInv, NEW l \in DOMAIN loads, fetchOciArtifact(l)
  PROVE  CachesInv'
<1>1. loads[l].pc = "fetch" /\ UNCHANGED Disk /\ Rest
  BY DEF fetchOciArtifact
<1> DEFINE Blob(ref) == fetchOciBlob(ref, OciScheme(ref), RegistryOptions(ref), Artifact(l).digest)
<1>2. \A S : UNION {Blob(r) : r \in S} \subseteq {<<work.served>>}
  BY BlobAnswers
<1>3. \E S : Fetched(l, UNION {Blob(r) : r \in S}) \/ Fetched(l, {})
  BY DEF fetchOciArtifact
<1> HIDE DEF Blob
<1>4. PICK answers : answers \subseteq {<<work.served>>} /\ Fetched(l, answers)
  <2>1. {} \subseteq {<<work.served>>}
    OBVIOUS
  <2> QED
    BY <1>2, <1>3, <2>1
<1> QED
  BY <1>1, <1>4, FetchedStep

\* Code that is there is used as it is, and is compiled otherwise (wasmtime.ts:84).
LEMMA CompileStep ==
  ASSUME CachesInv, NEW l \in DOMAIN loads, compileComponent(l)
  PROVE  CachesInv'
<1>0. PICK path, tmp : path = CodeOf(l) /\ tmp = Temporary(path)
  OBVIOUS
<1>1. /\ loads[l].pc = "compile" /\ UNCHANGED Disk /\ Rest
      /\ \/ Throws(l)
         \/ \E pc \in {"ready", "validate", "run"} :
              /\ loads' = [loads EXCEPT ![l].pc = pc, ![l].stage = "precompiled", ![l].target = {path}, ![l].tmp = {tmp}]
              /\ pc = "ready" => exists(path)
              /\ UNCHANGED entries
  BY <1>0 DEF compileComponent, CodeOf
<1>2. DOMAIN loads[l] = LoadFields /\ loads[l].tmp = {} /\ loads[l].stage = "artifact"
  BY <1>1 DEF CachesInv, LoadsInv, LoadShape, LoadFields
<1>3. PICK c : loads[l].component = {c} /\ IsComponent(l, c)
  BY <1>1 DEF CachesInv, LoadsInv, LoadShape
<1>4. CASE Throws(l)
  BY <1>1, <1>4, ThrowsQuietly
<1>5. ASSUME NEW pc \in {"ready", "validate", "run"},
             loads' = [loads EXCEPT ![l].pc = pc, ![l].stage = "precompiled", ![l].target = {path}, ![l].tmp = {tmp}],
             pc = "ready" => exists(path), UNCHANGED entries
      PROVE  CachesInv'
  <2>1. Now(l, pc, "precompiled", loads[l].component, {path}, {tmp}, loads[l].inode, loads[l].bytes)
    BY <1>2, <1>5 DEF Now, OthersStay, LoadFields
  <2>2. IsComponent(l, c)' /\ path = CodeOf(l)'
    BY <1>0, <1>1, <1>3 DEF IsComponent, Rest, Artifact, Deployment, CodeOf, PrecompiledPath, artifactCacheName, CachePath
  <2>3. AtCode(l)'
    BY <2>1, <2>2, <1>3 DEF AtCode, Now
  <2>4. HasTmp(l)'
    <3>1. tmp.tmp # {} /\ tmp.dir \in CacheDirs
      BY <1>0 DEF CodeOf, PrecompiledPath, CachePath, Temporary, CacheDirs
    <3> QED
      BY <2>1, <3>1 DEF HasTmp, Now
  <2>5. LoadShape(l)'
    BY <2>1, <2>3, <2>4 DEF LoadShape, LoadPcs, Writes, Now
  <2>6. Calm(l)
    BY <2>1, <2>5, <1>1, <1>2, <1>5 DEF Calm, Aside, Rest, Disk, Collector, Now, Writes, Compiles
  <2> QED
    BY <2>6, CalmStep
<1> QED
  BY <1>1, <1>4, <1>5

\* The catch around the commands removes what they wrote (wasmtime.ts:128).
LEMMA ThrowsFromTmpStep ==
  ASSUME CachesInv, NEW l \in DOMAIN loads, loads[l].pc \in {"validate", "run", "write", "rename"},
         ThrowsFromTmp(l), UNCHANGED inodes, Rest
  PROVE  CachesInv'
<1>1. TmpGoes(l) /\ Throws(l)
  BY DEF ThrowsFromTmp, TmpGoes, Unlinked
<1>2. Running(l)
  BY DEF Running, LoadEnded
<1> QED
  BY <1>1, <1>2, ThrowStep DEF Rest, Collector

\* What a command reads of a component that is what it says, the code it compiles is of.
LEMMA CodeOfComponent ==
  ASSUME CachesInv, NEW l \in DOMAIN loads, work.verify, ~sharedTmp, NEW c, IsComponent(l, c), exists(c)
  PROVE  ReadFile(c) = <<Artifact(l).digest>>
<1>1. CASE c = artifactCacheName(Artifact(l).digest)
  <2>1. c.dir = "artifact" /\ c.tmp = {} /\ c.name = <<Artifact(l).digest>>
    BY <1>1 DEF artifactCacheName, CachePath
  <2>2. inodes[names[c]].body = ContentOf(c)
    BY <2>1 DEF CachesInv, ContentInv, exists, Foreign
  <2> QED
    BY <2>1, <2>2 DEF ReadFile, Foreign, ContentOf
<1>2. CASE c.dir = "file" /\ c.name = <<Artifact(l).digest>>
  BY <1>2 DEF ReadFile, Foreign
<1> QED
  BY <1>1, <1>2 DEF IsComponent

\* A command reads the component and writes its code, or is given up (wasmtime.ts:108).
LEMMA CommandStep ==
  ASSUME CachesInv, NEW l \in DOMAIN loads, createSpawnCommandRunner(l)
  PROVE  CachesInv'
<1>1. loads[l].pc \in {"validate", "run"} /\ UNCHANGED inodes /\ Rest
  BY DEF createSpawnCommandRunner
<1>2. DOMAIN loads[l] = LoadFields /\ AtCode(l) /\ HasTmp(l)
  BY <1>1 DEF CachesInv, LoadsInv, LoadShape, LoadFields
<1>3. PICK c : loads[l].component = {c} /\ IsComponent(l, c)
  BY <1>2 DEF AtCode
<1>4. CASE ThrowsFromTmp(l)
  BY <1>1, <1>4, ThrowsFromTmpStep
<1>5. CASE Goes(l, "run") /\ UNCHANGED <<names, entries>>
  <2>1. Now(l, "run", loads[l].stage, loads[l].component, loads[l].target, loads[l].tmp, loads[l].inode, loads[l].bytes)
    BY <1>2, <1>5, GoesMoves
  <2>2. AtCode(l)' /\ HasTmp(l)'
    BY <2>1, <1>1, <1>2, <1>3 DEF AtCode, HasTmp, IsComponent, Now, Rest, Artifact, Deployment, CodeOf,
                                  PrecompiledPath, artifactCacheName, CachePath
  <2>3. LoadShape(l)'
    BY <2>1, <2>2 DEF LoadShape, LoadPcs, Writes, Now
  <2>4. Calm(l)
    BY <2>1, <2>3, <1>1, <1>5 DEF Calm, Aside, Rest, Collector, Now, Writes, Running, LoadEnded, Compiles
  <2> QED
    BY <2>4, CalmStep
<1>6. CASE /\ loads' = [loads EXCEPT ![l].pc = "open", ![l].bytes = CodeFrom(ReadFile(CHOOSE p \in loads[l].component : TRUE))]
           /\ CommandReads(l) /\ UNCHANGED <<names, entries>>
  <2>1. PICK bytes : bytes = CodeFrom(ReadFile(CHOOSE p \in loads[l].component : TRUE))
    OBVIOUS
  <2>2. Now(l, "open", loads[l].stage, loads[l].component, loads[l].target, loads[l].tmp, loads[l].inode, bytes)
    <3>1. loads' = [loads EXCEPT ![l].pc = "open", ![l].bytes = bytes]
      BY <1>6, <2>1
    <3> QED
      BY <1>2, <3>1 DEF Now, OthersStay, LoadFields
  <2>3. AtCode(l)' /\ HasTmp(l)'
    BY <2>2, <1>1, <1>2, <1>3 DEF AtCode, HasTmp, IsComponent, Now, Rest, Artifact, Deployment, CodeOf,
                                  PrecompiledPath, artifactCacheName, CachePath
  <2>4. LoadShape(l)'
    BY <2>2, <2>3 DEF LoadShape, LoadPcs, Writes, Now
  <2>5. ASSUME work.verify, ~sharedTmp
        PROVE  \A path \in loads'[l].target : loads'[l].bytes = ContentOf(path)
    <3>1. (CHOOSE p \in loads[l].component : TRUE) = c
      BY <1>3
    <3>2. exists(c)
      BY <1>3, <1>6 DEF CommandReads
    <3>3. ReadFile(c) = <<Artifact(l).digest>>
      BY <1>3, <2>5, <3>2, CodeOfComponent
    <3>4. bytes = <<Artifact(l).digest, "code">>
      <4>1. bytes = CodeFrom(<<Artifact(l).digest>>)
        BY <2>1, <3>1, <3>3
      <4>2. sha256Digest(<<Artifact(l).digest>>) = Artifact(l).digest
        BY DEF sha256Digest
      <4> QED
        BY <4>1, <4>2 DEF CodeFrom
    <3>5. ContentOf(CodeOf(l)) = <<Artifact(l).digest, "code">>
      BY DEF ContentOf, CodeOf, PrecompiledPath, CachePath
    <3> QED
      BY <2>2, <3>4, <3>5, <1>2 DEF AtCode, Now
  <2>6. Calm(l)
    BY <2>2, <2>4, <2>5, <1>1, <1>6 DEF Calm, Aside, Rest, Collector, Now, Writes, Running, LoadEnded, Compiles
  <2> QED
    BY <2>6, CalmStep
<1>7. \/ CommandReads(l) /\ Goes(l, "run") /\ UNCHANGED <<names, entries>>
      \/ /\ loads' = [loads EXCEPT ![l].pc = "open", ![l].bytes = CodeFrom(ReadFile(CHOOSE p \in loads[l].component : TRUE))]
         /\ CommandReads(l) /\ UNCHANGED <<names, entries>>
      \/ ThrowsFromTmp(l)
  BY DEF createSpawnCommandRunner
<1> QED
  BY <1>4, <1>5, <1>6, <1>7

\* What a load is about to write to is a final name, of the artifact or of the code.
LEMMA TargetIsFinal ==
  ASSUME CachesInv, NEW l \in DOMAIN loads, loads[l].pc \in {"open", "write", "rename"}
  PROVE  /\ AtArtifact(l) \/ AtCode(l)
         /\ \E final : loads[l].target = {final} /\ final.tmp = {} /\ final.dir \in CacheDirs
<1>1. AtArtifact(l) \/ AtCode(l)
  BY DEF CachesInv, LoadsInv, LoadShape, Writes
<1>2. CASE AtArtifact(l)
  <2>1. PICK final : final = artifactCacheName(Artifact(l).digest)
    OBVIOUS
  <2>2. final.tmp = {} /\ final.dir = "artifact"
    BY <2>1 DEF artifactCacheName, CachePath
  <2> QED
    BY <1>2, <2>1, <2>2 DEF AtArtifact, CacheDirs
<1>3. CASE AtCode(l)
  <2>1. PICK final : final = CodeOf(l)
    OBVIOUS
  <2>2. final.tmp = {} /\ final.dir = "precompiled"
    BY <2>1 DEF CodeOf, PrecompiledPath, CachePath
  <2> QED
    BY <1>3, <2>1, <2>2 DEF AtCode, CacheDirs
<1> QED
  BY <1>1, <1>2, <1>3

\* What a step of a load leaves of its place.
LEMMA PlaceStays ==
  ASSUME NEW l \in DOMAIN loads, work' = work, NEW pc, NEW tmp, NEW inode, NEW bytes,
         Now(l, pc, loads[l].stage, loads[l].component, loads[l].target, tmp, inode, bytes)
  PROVE  (AtArtifact(l) => AtArtifact(l)') /\ (AtCode(l) => AtCode(l)')
<1> QED
  BY DEF AtArtifact, AtCode, IsComponent, Now, Artifact, Deployment, CodeOf, PrecompiledPath, artifactCacheName, CachePath

\* The inodes of the disk are the first numbers, so the next one is free.
LEMMA FreshIsFree ==
  ASSUME DiskInv
  PROVE  FreshInode \notin DOMAIN inodes /\ \E k \in Nat : DOMAIN inodes \union {FreshInode} = 1 .. k
<1>1. PICK k \in Nat : DOMAIN inodes = 1 .. k
  BY DEF DiskInv
<1>2. Cardinality(1 .. k) = k
  BY FS_Interval
<1>3. FreshInode = k + 1
  BY <1>1, <1>2 DEF FreshInode
<1>4. (1 .. k) \union {k + 1} = 1 .. (k + 1) /\ k + 1 \notin 1 .. k
  OBVIOUS
<1> QED
  BY <1>1, <1>3, <1>4

\* A load opens its temporary file, and shares it when another load holds the name (artifacts.ts:134).
LEMMA WriteFileStep ==
  ASSUME CachesInv, NEW l \in DOMAIN loads, WriteFile(l)
  PROVE  CachesInv'
<1> USE DEF CachesInv
<1>1. PICK final : loads[l].target = {final} /\ final.tmp = {} /\ final.dir \in CacheDirs
  BY TargetIsFinal DEF WriteFile
<1>2. PICK tmp : tmp = IF loads[l].tmp = {} THEN Temporary(final) ELSE CHOOSE t \in loads[l].tmp : TRUE
  OBVIOUS
<1>3. PICK node : node = IF tmp \in DOMAIN names THEN names[tmp] ELSE FreshInode
  OBVIOUS
<1>4. /\ loads[l].pc = "open"
      /\ names' = Bind(names, tmp, node)
      /\ inodes' = Bind(inodes, node, [body |-> Torn, mtime |-> ms])
      /\ loads' = [loads EXCEPT ![l].pc = "write", ![l].tmp = {tmp}, ![l].inode = {node}]
      /\ sharedTmp' = (sharedTmp \/ \E k \in DOMAIN loads \ {l} : Holds(k, tmp))
      /\ UNCHANGED <<work, entries, sweeps, collections, ms, downs, exposed>>
  BY <1>1, <1>2, <1>3 DEF WriteFile, Collector
<1>5. DOMAIN loads[l] = LoadFields /\ (loads[l].tmp = {} \/ HasTmp(l)) /\ (AtArtifact(l) \/ AtCode(l))
  BY <1>4 DEF LoadsInv, LoadShape, LoadFields
<1>6. tmp.tmp # {} /\ tmp.dir \in CacheDirs /\ (loads[l].tmp = {} \/ loads[l].tmp = {tmp})
  <2>1. CASE loads[l].tmp = {}
    BY <2>1, <1>1, <1>2 DEF Temporary, CacheDirs
  <2>2. CASE HasTmp(l)
    BY <2>2, <1>2 DEF HasTmp
  <2> QED
    BY <2>1, <2>2, <1>5
<1>7. /\ DOMAIN names' = DOMAIN names \union {tmp} /\ names'[tmp] = node
      /\ \A p \in DOMAIN names : p # tmp => names'[p] = names[p]
      /\ DOMAIN inodes' = DOMAIN inodes \union {node} /\ inodes'[node].body = Torn
      /\ \A n \in DOMAIN inodes : n # node => inodes'[n] = inodes[n]
  BY <1>4 DEF Bind
<1>8. /\ tmp \in DOMAIN names => node = names[tmp] /\ node \in DOMAIN inodes
      /\ tmp \notin DOMAIN names => node \notin DOMAIN inodes
      /\ \E k \in Nat : DOMAIN inodes' = 1 .. k
  BY <1>3, <1>7, FreshIsFree DEF DiskInv
<1>9. Now(l, "write", loads[l].stage, loads[l].component, loads[l].target, {tmp}, {node}, loads[l].bytes)
  BY <1>4, <1>5 DEF Now, OthersStay, LoadFields
<1>10. \A p \in DOMAIN names : p # tmp => names[p] # node
  BY <1>8 DEF DiskInv
<1>11. LoadsInv'
  <2>1. work' \in CacheWorkloads /\ DOMAIN loads' = DOMAIN work'.loads
    BY <1>4, <1>9 DEF LoadsInv, Now, OthersStay
  <2>2. ASSUME NEW k \in DOMAIN loads'
        PROVE  DOMAIN loads'[k] = LoadFields /\ LoadShape(k)'
    <3>1. CASE k = l
      <4>1. HasTmp(l)' /\ (AtArtifact(l)' \/ AtCode(l)')
        BY <1>4, <1>5, <1>6, <1>9, PlaceStays DEF HasTmp, Now
      <4> QED
        BY <3>1, <4>1, <1>7, <1>9 DEF Now, OthersStay, LoadShape, LoadPcs, Writes
    <3>2. CASE k # l
      BY <3>2, <1>4, <1>7, <1>9, ShapeStays DEF LoadsInv, Now, OthersStay, LoadFields
    <3> QED
      BY <3>1, <3>2
  <2>3. ASSUME NEW d \in DOMAIN entries', entries'[d] # 0
        PROVE  /\ entries'[d] \in DOMAIN loads'
               /\ work'.loads[entries'[d]].deployment = d
               /\ loads'[entries'[d]].pc \notin {"idle", "joined", "failed", "gone"}
    BY <2>3, <1>4, <1>9 DEF LoadsInv, Now, OthersStay, Deployment
  <2> QED
    BY <2>1, <2>2, <2>3 DEF LoadsInv, LoadFields, Deployment
<1>12. DiskInv'
  BY <1>6, <1>7, <1>8, <1>10 DEF DiskInv
<1>13. HolderInv'
  <2> SUFFICES ASSUME ~sharedTmp' PROVE HolderInv'
    BY DEF HolderInv
  <2>0. ~sharedTmp
    BY <1>4
  <2>1. \A k \in DOMAIN loads : k # l /\ Writes(k) => tmp \notin loads[k].tmp
    BY <1>4 DEF Holds, Writes
  <2>2. \A k \in DOMAIN loads : k # l /\ Writes(k) => node \notin loads[k].inode
    <3>1. \A k \in DOMAIN loads : Writes(k) => loads[k].inode \subseteq DOMAIN inodes
      BY DEF LoadsInv, LoadShape
    <3>2. \A k \in DOMAIN loads, p \in DOMAIN names : Writes(k) /\ names[p] \in loads[k].inode => p \in loads[k].tmp
      BY <2>0 DEF HolderInv
    <3>3. ASSUME NEW k \in DOMAIN loads, k # l, Writes(k), node \in loads[k].inode PROVE FALSE
      <4>1. node \in DOMAIN inodes
        BY <3>1, <3>3
      <4>2. tmp \in DOMAIN names /\ node = names[tmp]
        BY <4>1, <1>8
      <4> QED
        BY <2>1, <3>2, <3>3, <4>2
    <3> QED
      BY <3>3
  <2>3. \A k \in DOMAIN loads : k # l => loads'[k] = loads[k] /\ (Writes(k)' <=> Writes(k))
    BY <1>9 DEF Now, OthersStay, Writes
  <2>4. ASSUME NEW k \in DOMAIN loads, k # l, Writes(k)
        PROVE  /\ \A p \in DOMAIN names' : names'[p] \in loads[k].inode => p \in loads[k].tmp
               /\ \A p \in DOMAIN names' : p \in loads[k].tmp => names'[p] \in loads[k].inode
               /\ \A j \in DOMAIN loads : j # k /\ j # l /\ Writes(j) =>
                    loads[k].inode \cap loads[j].inode = {} /\ loads[k].tmp \cap loads[j].tmp = {}
    <3>1. /\ \A p \in DOMAIN names : names[p] \in loads[k].inode => p \in loads[k].tmp
          /\ \A p \in DOMAIN names : p \in loads[k].tmp => names[p] \in loads[k].inode
          /\ \A j \in DOMAIN loads : j # k /\ Writes(j) =>
               loads[k].inode \cap loads[j].inode = {} /\ loads[k].tmp \cap loads[j].tmp = {}
      BY <2>0, <2>4 DEF HolderInv
    <3>2. tmp \notin loads[k].tmp /\ node \notin loads[k].inode
      BY <2>1, <2>2, <2>4
    <3> QED
      BY <3>1, <3>2, <1>7
  <2>5. /\ \A p \in DOMAIN names' : names'[p] \in {node} => p \in {tmp}
        /\ \A p \in DOMAIN names' : p \in {tmp} => names'[p] \in {node}
    BY <1>7, <1>10
  <2> QED
    BY <2>1, <2>2, <2>3, <2>4, <2>5, <1>9 DEF HolderInv, Now, OthersStay
<1>14. ContentInv'
  <2> SUFFICES ASSUME work.verify, ~sharedTmp' PROVE ContentInv'
    BY <1>4 DEF ContentInv
  <2>0. ~sharedTmp /\ work' = work
    BY <1>4
  <2>1. ASSUME NEW p \in DOMAIN names', p.tmp = {}
        PROVE  inodes'[names'[p]].body = ContentOf(p)
    <3>1. p # tmp /\ p \in DOMAIN names /\ names'[p] = names[p]
      BY <2>1, <1>6, <1>7
    <3>2. inodes'[names[p]] = inodes[names[p]]
      BY <3>1, <1>7, <1>10 DEF DiskInv
    <3> QED
      BY <2>0, <2>1, <3>1, <3>2 DEF ContentInv
  <2>2. ASSUME NEW k \in DOMAIN loads, k # l, Writes(k), NEW n \in loads[k].inode
        PROVE  n # node /\ n \in DOMAIN inodes
    <3>1. loads[k].inode \subseteq DOMAIN inodes
      BY <2>2 DEF LoadsInv, LoadShape
    <3>2. tmp \notin loads[k].tmp
      BY <2>2, <1>4 DEF Holds, Writes
    <3>3. \A p \in DOMAIN names : names[p] \in loads[k].inode => p \in loads[k].tmp
      BY <2>0, <2>2 DEF HolderInv
    <3> QED
      BY <2>2, <3>1, <3>2, <3>3, <1>8
  <2>3. \A k \in DOMAIN loads : loads[k].pc = "rename" => Writes(k)
    BY DEF Writes
  <2>4. \A k \in DOMAIN loads : k # l => loads'[k] = loads[k]
    BY <1>9 DEF Now, OthersStay
  <2>5. ASSUME NEW k \in DOMAIN loads
        PROVE  /\ loads'[k].pc \in {"open", "write", "rename"} => \A path \in loads'[k].target : loads'[k].bytes = ContentOf(path)
               /\ loads'[k].pc = "rename" => \A n \in loads'[k].inode : inodes'[n].body = loads'[k].bytes
    <3>1. CASE k = l
      BY <3>1, <1>4, <1>9 DEF ContentInv, Now
    <3>2. CASE k # l
      <4>1. /\ loads[k].pc \in {"open", "write", "rename"} => \A path \in loads[k].target : loads[k].bytes = ContentOf(path)
            /\ loads[k].pc = "rename" => \A n \in loads[k].inode : inodes[n].body = loads[k].bytes
        BY <2>0 DEF ContentInv
      <4>2. loads[k].pc = "rename" => \A n \in loads[k].inode : inodes'[n] = inodes[n]
        BY <3>2, <2>2, <2>3, <1>7
      <4> QED
        BY <4>1, <4>2, <3>2, <2>4
    <3> QED
      BY <3>1, <3>2
  <2> QED
    BY <2>1, <2>5, <1>9 DEF ContentInv, Now, OthersStay, ContentOf
<1>15. TmpInv'
  <2>1. \A k \in DOMAIN loads : k # l /\ Running(k) => Running(k)' /\ loads'[k] = loads[k]
    BY <1>9 DEF Running, Now, OthersStay
  <2>2. Running(l)' /\ loads'[l].tmp = {tmp}
    BY <1>9 DEF Running, LoadEnded, Now
  <2>3. \A p \in loads[l].tmp : p = tmp
    BY <1>6
  <2>4. DOMAIN loads' = DOMAIN loads
    BY <1>9 DEF Now, OthersStay
  <2> QED
    BY <2>1, <2>2, <2>3, <2>4, <1>4, <1>7 DEF TmpInv
<1>16. SweepsInv'
  BY <1>4 DEF SweepsInv
<1>17. ServedInv'
  <2> SUFFICES ASSUME NEW d \in DOMAIN entries, entries[d] # 0, entries[d] \notin exposed
               PROVE  ServedLoad(entries[d])'
    BY <1>4 DEF ServedInv
  <2>0. PICK k : k = entries[d]
    OBVIOUS
  <2>1. ServedLoad(k) /\ k \in DOMAIN loads
    BY <2>0 DEF ServedInv, LoadsInv
  <2>2. \A path : exists(path) => exists(path)'
    BY <1>7 DEF exists, Foreign
  <2>3. \A g \in DOMAIN collections, dir \in CacheDirs : Sweeping(g, dir)' <=> Sweeping(g, dir)
    BY <1>4 DEF Sweeping
  <2>4. ServedLoad(k)'
    <3>1. CASE k = l
      BY <2>1, <2>2, <2>3, <3>1, <1>4, <1>9 DEF ServedLoad, Compiles, Files, Now
    <3>2. CASE k # l
      BY <2>1, <2>2, <2>3, <3>2, <1>4, <1>9 DEF ServedLoad, Compiles, Files, Now, OthersStay
    <3> QED
      BY <3>1, <3>2
  <2> QED
    BY <2>0, <2>4, <1>4
<1> QED
  BY <1>11, <1>12, <1>13, <1>14, <1>15, <1>16, <1>17

\* The bytes of a load go to its inode, or it gives up (artifacts.ts:134).
LEMMA WriteBytesStep ==
  ASSUME CachesInv, NEW l \in DOMAIN loads, WriteBytes(l)
  PROVE  CachesInv'
<1> USE DEF CachesInv
<1>1. loads[l].pc = "write" /\ Rest
  BY DEF WriteBytes
<1>2. CASE ThrowsFromTmp(l) /\ UNCHANGED inodes
  BY <1>1, <1>2, ThrowsFromTmpStep
<1>3. CASE /\ \E node \in loads[l].inode : inodes' = [inodes EXCEPT ![node] = [body |-> loads[l].bytes, mtime |-> ms]]
           /\ Goes(l, "rename") /\ UNCHANGED <<names, entries>>
  <2>1. /\ DOMAIN loads[l] = LoadFields /\ (AtArtifact(l) \/ AtCode(l)) /\ HasTmp(l)
        /\ \E n \in DOMAIN inodes : loads[l].inode = {n}
    BY <1>1 DEF LoadsInv, LoadShape, Writes, LoadFields
  <2>2. PICK node \in DOMAIN inodes : loads[l].inode = {node}
    BY <2>1
  <2>3. /\ DOMAIN inodes' = DOMAIN inodes /\ inodes'[node].body = loads[l].bytes
        /\ \A n \in DOMAIN inodes : n # node => inodes'[n] = inodes[n]
    BY <1>3, <2>2
  <2>4. Now(l, "rename", loads[l].stage, loads[l].component, loads[l].target, loads[l].tmp, loads[l].inode, loads[l].bytes)
    BY <1>3, <2>1, GoesMoves
  <2>5. UNCHANGED <<work, names, entries, sweeps, collections, ms, downs, sharedTmp, exposed>>
    BY <1>1, <1>3 DEF Rest, Collector
  <2>6. LoadsInv'
    <3>1. work' \in CacheWorkloads /\ DOMAIN loads' = DOMAIN work'.loads
      BY <2>4, <2>5 DEF LoadsInv, Now, OthersStay
    <3>2. ASSUME NEW k \in DOMAIN loads'
          PROVE  DOMAIN loads'[k] = LoadFields /\ LoadShape(k)'
      <4>1. CASE k = l
        <5>1. HasTmp(l)' /\ (AtArtifact(l)' \/ AtCode(l)')
          BY <2>1, <2>4, <2>5, PlaceStays DEF HasTmp, Now
        <5> QED
          BY <4>1, <5>1, <2>2, <2>3, <2>4 DEF Now, OthersStay, LoadShape, LoadPcs, Writes
      <4>2. CASE k # l
        BY <4>2, <2>3, <2>4, <2>5, ShapeStays DEF LoadsInv, Now, OthersStay, LoadFields
      <4> QED
        BY <4>1, <4>2
    <3>3. ASSUME NEW d \in DOMAIN entries', entries'[d] # 0
          PROVE  /\ entries'[d] \in DOMAIN loads'
                 /\ work'.loads[entries'[d]].deployment = d
                 /\ loads'[entries'[d]].pc \notin {"idle", "joined", "failed", "gone"}
      BY <3>3, <2>4, <2>5 DEF LoadsInv, Now, OthersStay, Deployment
    <3> QED
      BY <3>1, <3>2, <3>3 DEF LoadsInv, LoadFields, Deployment
  <2>7. DiskInv' /\ SweepsInv'
    BY <2>3, <2>5 DEF DiskInv, SweepsInv
  <2>8. \A k \in DOMAIN loads : loads'[k].inode = loads[k].inode /\ loads'[k].tmp = loads[k].tmp /\ (Writes(k)' <=> Writes(k))
    BY <1>1, <2>4 DEF Now, OthersStay, Writes
  <2>9. HolderInv'
    BY <2>4, <2>5, <2>8 DEF HolderInv, Now, OthersStay
  <2>10. ContentInv'
    <3> SUFFICES ASSUME work.verify, ~sharedTmp PROVE ContentInv'
      BY <2>5 DEF ContentInv
    <3>1. \A p \in DOMAIN names : names[p] = node => p \in loads[l].tmp
      BY <1>1, <2>2 DEF HolderInv, Writes
    <3>2. \A t \in loads[l].tmp : t.tmp # {}
      BY <2>1 DEF HasTmp
    <3>3. ASSUME NEW p \in DOMAIN names, p.tmp = {}
          PROVE  inodes'[names[p]].body = ContentOf(p)
      BY <3>1, <3>2, <3>3, <2>3 DEF ContentInv, DiskInv
    <3>4. ASSUME NEW k \in DOMAIN loads
          PROVE  /\ loads'[k].pc \in {"open", "write", "rename"} => \A path \in loads'[k].target : loads'[k].bytes = ContentOf(path)
                 /\ loads'[k].pc = "rename" => \A n \in loads'[k].inode : inodes'[n].body = loads'[k].bytes
      <4>1. CASE k = l
        BY <4>1, <1>1, <2>2, <2>3, <2>4 DEF ContentInv, Now
      <4>2. CASE k # l
        <5>1. loads'[k] = loads[k]
          BY <4>2, <2>4 DEF Now, OthersStay
        <5>2. loads[k].pc = "rename" => node \notin loads[k].inode /\ loads[k].inode \subseteq DOMAIN inodes
          BY <4>2, <1>1, <2>2 DEF HolderInv, Writes, LoadsInv, LoadShape
        <5>3. loads[k].pc = "rename" => \A n \in loads[k].inode : inodes'[n] = inodes[n]
          BY <5>2, <2>3
        <5> QED
          BY <5>1, <5>3 DEF ContentInv
      <4> QED
        BY <4>1, <4>2
    <3> QED
      BY <3>3, <3>4, <2>4, <2>5 DEF ContentInv, Now, OthersStay, ContentOf
  <2>11. TmpInv'
    <3>1. \A k \in DOMAIN loads : Running(k) => Running(k)'
      BY <2>4 DEF Running, LoadEnded, Now, OthersStay
    <3> QED
      BY <3>1, <2>4, <2>5, <2>8 DEF TmpInv, Now, OthersStay
  <2>12. ServedInv'
    <3> SUFFICES ASSUME NEW d \in DOMAIN entries, entries[d] # 0, entries[d] \notin exposed
                 PROVE  ServedLoad(entries[d])'
      BY <2>5 DEF ServedInv
    <3>0. PICK k : k = entries[d]
      OBVIOUS
    <3>1. ServedLoad(k) /\ k \in DOMAIN loads
      BY <3>0 DEF ServedInv, LoadsInv
    <3>2. \A path : exists(path) => exists(path)'
      BY <2>5 DEF exists, Foreign
    <3>3. \A g \in DOMAIN collections, dir \in CacheDirs : Sweeping(g, dir)' <=> Sweeping(g, dir)
      BY <2>5 DEF Sweeping
    <3>4. ServedLoad(k)'
      <4>1. CASE k = l
        BY <3>1, <3>2, <3>3, <4>1, <1>1, <2>4, <2>5 DEF ServedLoad, Compiles, Files, Now
      <4>2. CASE k # l
        BY <3>1, <3>2, <3>3, <4>2, <2>4, <2>5 DEF ServedLoad, Compiles, Files, Now, OthersStay
      <4> QED
        BY <4>1, <4>2
    <3> QED
      BY <3>0, <3>4, <2>5
  <2> QED
    BY <2>6, <2>7, <2>9, <2>10, <2>11, <2>12
<1> QED
  BY <1>2, <1>3 DEF WriteBytes

\* A load puts what it wrote under the final name (artifacts.ts:135).
LEMMA RenameStep ==
  ASSUME CachesInv, NEW l \in DOMAIN loads, RenameFile(l)
  PROVE  CachesInv'
<1> USE DEF CachesInv
<1>1. loads[l].pc = "rename" /\ UNCHANGED inodes /\ Rest
  BY DEF RenameFile
<1>2. /\ DOMAIN loads[l] = LoadFields /\ (AtArtifact(l) \/ AtCode(l)) /\ HasTmp(l)
      /\ \E n \in DOMAIN inodes : loads[l].inode = {n}
  BY <1>1 DEF LoadsInv, LoadShape, Writes, LoadFields
<1>3. PICK final : loads[l].target = {final} /\ final.tmp = {} /\ final.dir \in CacheDirs
  BY <1>1, TargetIsFinal
<1>4. PICK tmp : loads[l].tmp = {tmp} /\ tmp.tmp # {} /\ tmp.dir \in CacheDirs
  BY <1>2 DEF HasTmp
<1>5. CASE ThrowsFromTmp(l)
  BY <1>1, <1>5, ThrowsFromTmpStep
<1>6. CASE ~ThrowsFromTmp(l)
  <2> DEFINE stage == loads[l].stage
             pc == IF stage = "artifact" THEN "compile" ELSE "ready"
  <2>1. /\ tmp \in DOMAIN names
        /\ names' = Bind(Unlinked(names, {tmp}), final, names[tmp])
        /\ loads' = [loads EXCEPT ![l].pc = IF loads[l].stage = "artifact" THEN "compile" ELSE "ready",
                                  ![l].tmp = {}, ![l].inode = {}, ![l].bytes = Torn]
        /\ UNCHANGED entries
    BY <1>3, <1>4, <1>6 DEF RenameFile
  <2>2. /\ DOMAIN names' = (DOMAIN names \ {tmp}) \union {final} /\ names'[final] = names[tmp]
        /\ \A p \in DOMAIN names : p # tmp /\ p # final => names'[p] = names[p]
    BY <2>1 DEF Bind, Unlinked
  <2>3. Now(l, pc, loads[l].stage, loads[l].component, loads[l].target, {}, {}, Torn)
    BY <1>2, <2>1 DEF Now, OthersStay, LoadFields
  <2> HIDE DEF pc
  <2>4. UNCHANGED <<work, inodes, entries, sweeps, collections, ms, downs, sharedTmp, exposed>>
    BY <1>1, <2>1 DEF Rest, Collector
  <2>5. (AtArtifact(l)' /\ pc = "compile") \/ (AtCode(l)' /\ pc = "ready")
    <3>1. AtArtifact(l) => pc = "compile"
      BY DEF AtArtifact, pc
    <3>2. AtCode(l) => pc = "ready"
      BY DEF AtCode, pc
    <3>3. (AtArtifact(l) => AtArtifact(l)') /\ (AtCode(l) => AtCode(l)')
      BY <2>3, <2>4, PlaceStays
    <3> QED
      BY <3>1, <3>2, <3>3, <1>2
  <2>6. LoadsInv'
    <3>1. work' \in CacheWorkloads /\ DOMAIN loads' = DOMAIN work'.loads
      BY <2>3, <2>4 DEF LoadsInv, Now, OthersStay
    <3>2. ASSUME NEW k \in DOMAIN loads'
          PROVE  DOMAIN loads'[k] = LoadFields /\ LoadShape(k)'
      <4>1. CASE k = l
        <5>1. AtArtifact(l)' => /\ \E path : loads'[l].component = {path} /\ IsComponent(l, path)'
                                /\ loads'[l].stage = "artifact"
          BY DEF AtArtifact, IsComponent
        <5> QED
          BY <4>1, <5>1, <2>3, <2>5 DEF Now, OthersStay, LoadShape, LoadPcs, Writes
      <4>2. CASE k # l
        BY <4>2, <2>3, <2>4, ShapeStays DEF LoadsInv, Now, OthersStay, LoadFields
      <4> QED
        BY <4>1, <4>2
    <3>3. ASSUME NEW d \in DOMAIN entries', entries'[d] # 0
          PROVE  /\ entries'[d] \in DOMAIN loads'
                 /\ work'.loads[entries'[d]].deployment = d
                 /\ loads'[entries'[d]].pc \notin {"idle", "joined", "failed", "gone"}
      BY <3>3, <2>3, <2>4, <2>5 DEF LoadsInv, Now, OthersStay, Deployment
    <3> QED
      BY <3>1, <3>2, <3>3 DEF LoadsInv, LoadFields, Deployment
  <2>7. DiskInv' /\ SweepsInv'
    <3>1. SweepsInv' /\ \E k \in Nat : DOMAIN inodes' = 1 .. k
      BY <2>4 DEF DiskInv, SweepsInv
    <3>2. \A p \in DOMAIN names' : p # final => p \in DOMAIN names /\ p # tmp /\ names'[p] = names[p]
      BY <2>2
    <3>3. \A p \in DOMAIN names' : names'[p] \in DOMAIN inodes' /\ p.dir \in CacheDirs
      BY <3>2, <1>3, <2>1, <2>2, <2>4 DEF DiskInv
    <3>4. ASSUME NEW p \in DOMAIN names', NEW q \in DOMAIN names', names'[p] = names'[q]
          PROVE  p = q
      <4>1. CASE p = final /\ q # final
        BY <4>1, <3>2, <3>4, <2>1, <2>2 DEF DiskInv
      <4>2. CASE p # final /\ q = final
        BY <4>2, <3>2, <3>4, <2>1, <2>2 DEF DiskInv
      <4>3. CASE p # final /\ q # final
        BY <4>3, <3>2, <3>4 DEF DiskInv
      <4> QED
        BY <4>1, <4>2, <4>3
    <3> QED
      BY <3>1, <3>3, <3>4 DEF DiskInv
  <2>8. \A k \in DOMAIN loads : Writes(k)' => k # l /\ Writes(k) /\ loads'[k] = loads[k]
    BY <2>3, <2>5 DEF Now, OthersStay, Writes
  <2>9. HolderInv'
    <3> SUFFICES ASSUME ~sharedTmp PROVE HolderInv'
      BY <2>4 DEF HolderInv
    <3>1. ASSUME NEW k \in DOMAIN loads, Writes(k)'
          PROVE  /\ \A p \in DOMAIN names' : names'[p] \in loads[k].inode => p \in loads[k].tmp
                 /\ \A p \in DOMAIN names' : p \in loads[k].tmp => names'[p] \in loads[k].inode
                 /\ \A j \in DOMAIN loads : j # k /\ Writes(j) =>
                      loads[k].inode \cap loads[j].inode = {} /\ loads[k].tmp \cap loads[j].tmp = {}
      <4>1. k # l /\ Writes(k) /\ Writes(l)
        BY <1>1, <2>8, <3>1 DEF Writes
      <4>2. /\ \A p \in DOMAIN names : names[p] \in loads[k].inode => p \in loads[k].tmp
            /\ \A p \in DOMAIN names : p \in loads[k].tmp => names[p] \in loads[k].inode
            /\ \A j \in DOMAIN loads : j # k /\ Writes(j) =>
                 loads[k].inode \cap loads[j].inode = {} /\ loads[k].tmp \cap loads[j].tmp = {}
        BY <4>1 DEF HolderInv
      <4>3. names[tmp] \notin loads[k].inode
        BY <4>1, <4>2, <1>4, <2>1
      <4>4. final \notin loads[k].tmp
        BY <4>1, <1>3 DEF LoadsInv, LoadShape, HasTmp
      <4> QED
        BY <4>2, <4>3, <4>4, <2>2
    <3> QED
      BY <3>1, <2>3, <2>8 DEF HolderInv, Now, OthersStay
  <2>10. ContentInv'
    <3> SUFFICES ASSUME work.verify, ~sharedTmp PROVE ContentInv'
      BY <2>4 DEF ContentInv
    <3>1. names[tmp] \in loads[l].inode
      BY <1>1, <1>4, <2>1 DEF HolderInv, Writes
    <3>2. inodes[names[tmp]].body = ContentOf(final)
      BY <3>1, <1>1, <1>3 DEF ContentInv
    <3>3. \A p \in DOMAIN names' : p.tmp = {} => inodes'[names'[p]].body = ContentOf(p)
      BY <3>2, <2>2, <2>4 DEF ContentInv
    <3>4. ASSUME NEW k \in DOMAIN loads
          PROVE  /\ loads'[k].pc \in {"open", "write", "rename"} => \A path \in loads'[k].target : loads'[k].bytes = ContentOf(path)
                 /\ loads'[k].pc = "rename" => \A n \in loads'[k].inode : inodes'[n].body = loads'[k].bytes
      <4>1. CASE k = l
        BY <4>1, <2>3, <2>5 DEF Now
      <4>2. CASE k # l
        BY <4>2, <2>3, <2>4 DEF ContentInv, Now, OthersStay
      <4> QED
        BY <4>1, <4>2
    <3> QED
      BY <3>3, <3>4, <2>3, <2>4 DEF ContentInv, Now, OthersStay, ContentOf
  <2>11. TmpInv'
    <3>1. \A k \in DOMAIN loads : k # l /\ Running(k) => Running(k)' /\ loads'[k] = loads[k]
      BY <2>3 DEF Running, Now, OthersStay
    <3>2. \A p \in DOMAIN names' : p.tmp # {} => p \in DOMAIN names /\ p \notin loads[l].tmp
      BY <1>3, <1>4, <2>2
    <3> QED
      BY <3>1, <3>2, <2>3, <2>4 DEF TmpInv, Now, OthersStay
  <2>12. ServedInv'
    <3> SUFFICES ASSUME NEW d \in DOMAIN entries, entries[d] # 0, entries[d] \notin exposed
                 PROVE  ServedLoad(entries[d])'
      BY <2>4 DEF ServedInv
    <3>0. PICK k : k = entries[d]
      OBVIOUS
    <3>1. ServedLoad(k) /\ k \in DOMAIN loads /\ LoadShape(k)
      BY <3>0 DEF ServedInv, LoadsInv
    <3>2. \A path : path.tmp = {} /\ exists(path) => exists(path)'
      BY <1>4, <2>2 DEF exists, Foreign
    <3>3. exists(final)'
      BY <2>2 DEF exists
    <3>4. \A g \in DOMAIN collections, dir \in CacheDirs : Sweeping(g, dir)' <=> Sweeping(g, dir)
      BY <2>4 DEF Sweeping
    <3>5. Compiles(k) => \A path \in loads[k].component : path.tmp = {}
      BY <3>1 DEF Compiles, LoadShape, AtCode, AtArtifact, IsComponent, artifactCacheName, CachePath, LoadPcs, Writes
    <3>6. loads[k].pc = "ready" => \A path \in loads[k].target : path.tmp = {}
      BY <3>1 DEF LoadShape, AtCode, CodeOf, PrecompiledPath, CachePath
    <3>7. ServedLoad(k)'
      <4>1. CASE k = l
        <5>1. \A g \in DOMAIN collections, dir \in CacheDirs : ~Sweeping(g, dir)
          BY <3>1, <4>1, <1>1 DEF ServedLoad
        <5>2. \A path \in loads'[l].target : exists(path)'
          BY <3>3, <1>3, <2>3 DEF Now
        <5>3. \A path \in loads'[l].component : exists(path)'
          <6>1. CASE AtArtifact(l)
            BY <6>1, <3>3, <1>3, <2>3 DEF Now, AtArtifact
          <6>2. CASE AtCode(l)
            BY <6>2, <3>1, <3>2, <3>5, <4>1, <2>3 DEF Now, AtCode, ServedLoad, Compiles
          <6> QED
            BY <6>1, <6>2, <1>2
        <5> QED
          BY <3>1, <3>4, <4>1, <5>1, <5>2, <5>3, <2>4 DEF ServedLoad
      <4>2. CASE k # l
        <5>1. loads'[k] = loads[k]
          BY <4>2, <3>1, <2>3 DEF Now, OthersStay
        <5> QED
          BY <3>1, <3>2, <3>4, <3>5, <3>6, <5>1, <2>4 DEF ServedLoad, Compiles, Files
      <4> QED
        BY <4>1, <4>2
    <3> QED
      BY <3>0, <3>7, <2>4
  <2> QED
    BY <2>6, <2>7, <2>9, <2>10, <2>11, <2>12
<1> QED
  BY <1>5, <1>6

-----------------------------------------------------------------------------
(* The steps of the supervisor's entries, of the process and of collections. *)

\* A step that touches neither the files nor the loads keeps what is known of them.
LEMMA FilesStay ==
  ASSUME CachesInv, UNCHANGED <<work, names, inodes, loads, sharedTmp>>
  PROVE  DiskInv' /\ HolderInv' /\ ContentInv' /\ \A l \in DOMAIN loads : LoadShape(l)'
<1>1. DiskInv' /\ HolderInv' /\ ContentInv'
  BY DEF CachesInv, DiskInv, HolderInv, ContentInv, Writes, ContentOf
<1>2. \A l \in DOMAIN loads : LoadShape(l)'
  BY ShapeStays DEF CachesInv
<1> QED
  BY <1>1, <1>2

\* An entry goes when a new route table no longer has its deployment (supervisor.ts).
LEMMA EvictStep ==
  ASSUME CachesInv, NEW d \in DOMAIN entries, evictDeployment(d)
  PROVE  CachesInv'
<1> USE DEF CachesInv
<1>1. /\ entries' = [entries EXCEPT ![d] = 0]
      /\ UNCHANGED <<work, names, inodes, loads, sweeps, collections, ms, downs, sharedTmp, exposed>>
  BY DEF evictDeployment, Disk, Collector
<1>2. DOMAIN entries' = DOMAIN entries /\ \A e \in DOMAIN entries : entries'[e] # 0 => entries'[e] = entries[e]
  BY <1>1
<1>3. LoadsInv'
  BY <1>1, <1>2, FilesStay DEF LoadsInv, Deployment
<1>4. TmpInv' /\ SweepsInv'
  BY <1>1 DEF TmpInv, SweepsInv, Running
<1>5. ServedInv'
  <2> SUFFICES ASSUME NEW e \in DOMAIN entries, entries'[e] # 0, entries'[e] \notin exposed
               PROVE  ServedLoad(entries[e])'
    BY <1>1, <1>2 DEF ServedInv
  <2>0. PICK k : k = entries'[e]
    OBVIOUS
  <2>1. ServedLoad(k)
    BY <1>2, <2>0 DEF ServedInv
  <2>2. ServedLoad(k)'
    BY <2>1, <1>1 DEF ServedLoad, Compiles, Files, Sweeping, exists, Foreign
  <2> QED
    BY <2>0, <2>2
<1> QED
  BY <1>1, <1>3, <1>4, <1>5, FilesStay

\* The clock ticks.
LEMMA CacheTickStep ==
  ASSUME CachesInv, CacheTick
  PROVE  CachesInv'
<1> USE DEF CachesInv
<1>1. UNCHANGED <<work, names, inodes, loads, entries, sweeps, collections, downs, sharedTmp, exposed>>
  BY DEF CacheTick
<1>2. LoadsInv'
  BY <1>1, FilesStay DEF LoadsInv, Deployment
<1>3. TmpInv' /\ SweepsInv'
  BY <1>1 DEF TmpInv, SweepsInv, Running
<1>4. ServedInv'
  <2> SUFFICES ASSUME NEW e \in DOMAIN entries, entries[e] # 0, entries[e] \notin exposed
               PROVE  ServedLoad(entries[e])'
    BY <1>1 DEF ServedInv
  <2>0. PICK k : k = entries[e]
    OBVIOUS
  <2>1. ServedLoad(k)
    BY <2>0 DEF ServedInv
  <2>2. ServedLoad(k)'
    BY <2>1, <1>1 DEF ServedLoad, Compiles, Files, Sweeping, exists, Foreign
  <2> QED
    BY <2>0, <2>2, <1>1
<1> QED
  BY <1>1, <1>2, <1>3, <1>4, FilesStay

\* A process that starts again has no entries, and the disk it left.
LEMMA DiesStep ==
  ASSUME CachesInv, RuntimeDies
  PROVE  CachesInv'
<1> USE DEF CachesInv
<1>1. /\ downs' = 1
      /\ DOMAIN loads' = DOMAIN loads /\ DOMAIN entries' = DOMAIN entries
      /\ \A l \in DOMAIN loads :
           loads'[l] = IF loads[l].pc = "idle" THEN IdleLoad ELSE [IdleLoad EXCEPT !.pc = "gone"]
      /\ \A d \in DOMAIN entries' : entries'[d] = 0
      /\ UNCHANGED <<work, names, inodes, sharedTmp, exposed>>
  BY DEF RuntimeDies, Disk
<1>2. ASSUME NEW l \in DOMAIN loads
      PROVE  /\ DOMAIN loads'[l] = LoadFields
             /\ loads'[l].pc \in {"idle", "gone"} /\ loads'[l].tmp = {} /\ loads'[l].stage = "artifact"
  BY <1>1 DEF IdleLoad, LoadFields
<1>3. LoadsInv'
  <2>1. \A l \in DOMAIN loads' : LoadShape(l)'
    BY <1>1, <1>2 DEF LoadShape, LoadPcs, Writes
  <2> QED
    BY <2>1, <1>1, <1>2 DEF LoadsInv, LoadFields
<1>4. DiskInv' /\ HolderInv'
  BY <1>1, <1>2 DEF DiskInv, HolderInv, Writes
<1>5. ContentInv'
  BY <1>1, <1>2 DEF ContentInv, ContentOf
<1>6. TmpInv'
  BY <1>1 DEF TmpInv
<1>7. SweepsInv'
  <2>1. /\ DOMAIN collections' = DOMAIN collections /\ DOMAIN sweeps' = DOMAIN sweeps
        /\ \A g \in DOMAIN collections :
             collections'[g] = IF collections[g].pc = "idle" THEN collections[g] ELSE [collections[g] EXCEPT !.pc = "gone"]
        /\ \A gd \in DOMAIN sweeps : sweeps'[gd] = [sweeps[gd] EXCEPT !.pc = "gone"]
    BY DEF RuntimeDies
  <2>2. \A g \in DOMAIN collections : DOMAIN collections'[g] = {"pc", "waits", "keep"} /\ collections'[g].keep = collections[g].keep
    BY <2>1 DEF SweepsInv
  <2>3. \A gd \in DOMAIN sweeps : DOMAIN sweeps'[gd] = {"pc", "now", "seen", "files"} /\ sweeps'[gd].files = sweeps[gd].files
    BY <2>1 DEF SweepsInv
  <2>4. \A g \in DOMAIN collections : collections[g].pc \in {"sweep", "gone"} => collections'[g].pc = "gone"
    BY <2>1 DEF SweepsInv
  <2> QED
    BY <2>1, <2>2, <2>3, <2>4 DEF SweepsInv
<1>8. ServedInv'
  BY <1>1 DEF ServedInv
<1> QED
  BY <1>3, <1>4, <1>5, <1>6, <1>7, <1>8

\* What a step of a collection leaves alone when it deletes no file.
LEMMA CollectorOnly ==
  ASSUME CachesInv, UNCHANGED Disk, Sides
  PROVE  LoadsInv' /\ DiskInv' /\ HolderInv' /\ ContentInv' /\ TmpInv'
<1> USE DEF CachesInv
<1>1. UNCHANGED <<work, names, inodes, loads, entries, ms, downs, sharedTmp, exposed>>
  BY DEF Disk, Sides
<1>2. LoadsInv'
  BY <1>1, FilesStay DEF LoadsInv, Deployment
<1>3. TmpInv'
  BY <1>1 DEF TmpInv, Running
<1> QED
  BY <1>1, <1>2, <1>3, FilesStay

\* A collection first takes the loads the supervisor knows of (cache-retention.ts:113).
LEMMA TakeStep ==
  ASSUME CachesInv, NEW g \in DOMAIN collections, TakePrepared(g)
  PROVE  CachesInv'
<1> USE DEF CachesInv
<1>1. PICK waits : waits = {entries[d] : d \in DOMAIN entries} \ {0}
  OBVIOUS
<1>2. /\ collections[g].pc = "idle"
      /\ collections' = [collections EXCEPT ![g] = [pc |-> "settle", keep |-> {}, waits |-> waits]]
      /\ UNCHANGED <<sweeps, names, inodes, work, loads, entries, ms, downs, sharedTmp, exposed>>
  BY <1>1 DEF TakePrepared, Disk, Sides
<1>3. /\ DOMAIN collections' = DOMAIN collections
      /\ collections'[g].pc = "settle" /\ collections'[g].waits = waits /\ DOMAIN collections'[g] = {"pc", "waits", "keep"}
      /\ \A h \in DOMAIN collections : h # g => collections'[h] = collections[h]
  BY <1>2
<1>4. \A gd \in DOMAIN sweeps : gd[1] # g
  BY <1>2 DEF SweepsInv
<1>5. SweepsInv'
  BY <1>2, <1>3, <1>4 DEF SweepsInv
<1>6. ServedInv'
  <2> SUFFICES ASSUME NEW d \in DOMAIN entries, entries[d] # 0, entries[d] \notin exposed
               PROVE  ServedLoad(entries[d])'
    BY <1>2 DEF ServedInv
  <2>0. PICK k : k = entries[d]
    OBVIOUS
  <2>1. ServedLoad(k) /\ k \in waits
    BY <1>1, <2>0 DEF ServedInv
  <2>2. \A h \in DOMAIN collections, dir \in CacheDirs : Sweeping(h, dir)' <=> Sweeping(h, dir)
    BY <1>2 DEF Sweeping
  <2>3. \A dir \in CacheDirs : ~Sweeping(g, dir)
    BY <1>4 DEF Sweeping
  <2>4. ServedLoad(k)'
    BY <2>1, <2>2, <2>3, <1>2, <1>3 DEF ServedLoad, Compiles, Files, exists, Foreign
  <2> QED
    BY <2>0, <2>4, <1>2
<1> QED
  BY <1>2, <1>5, <1>6, CollectorOnly DEF Disk, Sides

\* When the loads it found have settled, a collection keeps the files of the ones that are ready.
LEMMA SettleStep ==
  ASSUME CachesInv, NEW g \in DOMAIN collections, preparedComponents(g)
  PROVE  CachesInv'
<1> USE DEF CachesInv
<1>1. PICK keep : keep = UNION {loads[l].component \union loads[l].target : l \in {l \in collections[g].waits : loads[l].pc = "ready"}}
  OBVIOUS
<1>2. /\ collections[g].pc = "settle"
      /\ \A l \in collections[g].waits : ~Running(l)
      /\ collections' = [collections EXCEPT ![g].pc = "sweep", ![g].keep = keep]
      /\ sweeps' = NewSweeps(g)
      /\ UNCHANGED <<names, inodes, work, loads, entries, ms, downs, sharedTmp, exposed>>
  BY <1>1 DEF preparedComponents, Disk, Sides
<1>3. /\ DOMAIN collections' = DOMAIN collections
      /\ collections'[g].pc = "sweep" /\ collections'[g].keep = keep /\ DOMAIN collections'[g] = {"pc", "waits", "keep"}
      /\ \A h \in DOMAIN collections : h # g => collections'[h] = collections[h]
  BY <1>2 DEF SweepsInv
<1>4. \A gd \in DOMAIN sweeps : gd[1] # g
  BY <1>2 DEF SweepsInv
<1>5. /\ \A gd \in DOMAIN sweeps : gd \in DOMAIN sweeps' /\ sweeps'[gd] = sweeps[gd]
      /\ \A gd \in DOMAIN sweeps' : gd \in DOMAIN sweeps \/
           (gd = <<gd[1], gd[2]>> /\ gd[1] = g /\ sweeps'[gd] = [pc |-> "readdir", now |-> ms, seen |-> {}, files |-> {}])
  BY <1>2, <1>4 DEF NewSweeps
<1>6. SweepsInv'
  <2>1. ASSUME NEW gd \in DOMAIN sweeps'
        PROVE  /\ gd = <<gd[1], gd[2]>> /\ gd[1] \in DOMAIN collections
               /\ collections'[gd[1]].pc \in {"sweep", "gone"}
               /\ DOMAIN sweeps'[gd] = {"pc", "now", "seen", "files"}
               /\ \A f \in sweeps'[gd].files : f.keep = (f.path \in collections'[gd[1]].keep)
    <3>1. CASE gd \in DOMAIN sweeps
      BY <3>1, <1>3, <1>4, <1>5 DEF SweepsInv
    <3>2. CASE gd \notin DOMAIN sweeps
      BY <3>2, <1>3, <1>5
    <3> QED
      BY <3>1, <3>2
  <2> QED
    BY <2>1, <1>3 DEF SweepsInv
<1>7. ServedInv'
  <2> SUFFICES ASSUME NEW d \in DOMAIN entries, entries[d] # 0, entries[d] \notin exposed
               PROVE  ServedLoad(entries[d])'
    BY <1>2 DEF ServedInv
  <2>0. PICK k : k = entries[d]
    OBVIOUS
  <2>1. /\ ServedLoad(k) /\ k \in collections[g].waits
        /\ loads[k].pc \notin {"idle", "joined", "failed", "gone"}
    BY <1>2, <2>0 DEF ServedInv, ServedLoad, LoadsInv
  <2>2. loads[k].pc = "ready"
    BY <1>2, <2>1 DEF Running, LoadEnded
  <2>3. Files(k) \subseteq keep
    BY <1>1, <2>1, <2>2 DEF Files
  <2>4. \A h \in DOMAIN collections, dir \in CacheDirs : h # g /\ Sweeping(h, dir)' => Sweeping(h, dir)
    <3> SUFFICES ASSUME NEW h \in DOMAIN collections, NEW dir \in CacheDirs, h # g, Sweeping(h, dir)'
                 PROVE  Sweeping(h, dir)
      OBVIOUS
    <3>1. <<h, dir>> \in DOMAIN sweeps' /\ <<h, dir>>[1] = h
      BY DEF Sweeping
    <3>2. <<h, dir>> \in DOMAIN sweeps
      BY <3>1, <1>5
    <3> QED
      BY <3>2, <1>5 DEF Sweeping
  <2>5. ServedLoad(k)'
    BY <2>1, <2>2, <2>3, <2>4, <1>2, <1>3 DEF ServedLoad, Compiles, Files, exists, Foreign
  <2> QED
    BY <2>0, <2>5, <1>2
<1> QED
  BY <1>2, <1>6, <1>7, CollectorOnly DEF Disk, Sides

\* A sweep that goes on with other files, or ends, deletes nothing.
SweepGoesOn(g, dir, s) ==
  /\ Sweeping(g, dir) /\ Becomes(g, dir, s)
  /\ DOMAIN s = {"pc", "now", "seen", "files"}
  /\ \A f \in s.files : f.keep = (f.path \in collections[g].keep)

\* What such a step changes, and what holds of the sweeps after it.
LEMMA SweepsAfter ==
  ASSUME CachesInv, NEW g \in DOMAIN collections, NEW dir \in CacheDirs, NEW s,
         SweepGoesOn(g, dir, s), UNCHANGED collections
  PROVE  /\ SweepsInv'
         /\ \A h \in DOMAIN collections, other \in CacheDirs : Sweeping(h, other)' => Sweeping(h, other)
<1>1. /\ <<g, dir>> \in DOMAIN sweeps /\ DOMAIN sweeps' = DOMAIN sweeps
      /\ sweeps'[<<g, dir>>] = s /\ sweeps[<<g, dir>>].pc \notin {"done", "failed", "gone"}
      /\ \A gd \in DOMAIN sweeps : gd # <<g, dir>> => sweeps'[gd] = sweeps[gd]
  BY DEF SweepGoesOn, Becomes, Sweeping
<1>2. SweepsInv'
  BY <1>1 DEF CachesInv, SweepsInv, SweepGoesOn
<1>3. \A h \in DOMAIN collections, other \in CacheDirs : Sweeping(h, other)' => Sweeping(h, other)
  BY <1>1 DEF Sweeping
<1> QED
  BY <1>2, <1>3

\* A step of a sweep that deletes nothing keeps the invariant (cache-retention.ts).
LEMMA SweepStays ==
  ASSUME CachesInv, NEW g \in DOMAIN collections, NEW dir \in CacheDirs, NEW s,
         SweepGoesOn(g, dir, s), UNCHANGED <<collections, Disk>>, Sides
  PROVE  CachesInv'
<1> USE DEF CachesInv
<1>1. UNCHANGED <<collections, names, inodes, work, loads, entries, ms, downs, sharedTmp, exposed>>
  BY DEF Disk, Sides
<1>2. SweepsInv' /\ \A h \in DOMAIN collections, other \in CacheDirs : Sweeping(h, other)' => Sweeping(h, other)
  BY <1>1, SweepsAfter
<1>3. ServedInv'
  <2> SUFFICES ASSUME NEW d \in DOMAIN entries, entries[d] # 0, entries[d] \notin exposed
               PROVE  ServedLoad(entries[d])'
    BY <1>1 DEF ServedInv
  <2>0. PICK k : k = entries[d]
    OBVIOUS
  <2>1. ServedLoad(k)
    BY <2>0 DEF ServedInv
  <2>2. ServedLoad(k)'
    BY <2>1, <1>1, <1>2 DEF ServedLoad, Compiles, Files, exists, Foreign
  <2> QED
    BY <2>0, <2>2, <1>1
<1> QED
  BY <1>1, <1>2, <1>3, CollectorOnly DEF Disk

\* A sweep deletes only what is not kept, and no load that is served needs it (cache-retention.ts:185).
LEMMA RemoveStep ==
  ASSUME CachesInv, NEW g \in DOMAIN collections, NEW dir \in CacheDirs, Sweeping(g, dir),
         NEW file \in SweepOf(g, dir).files, ~file.keep, removeCacheFile(g, dir, file)
  PROVE  CachesInv'
<1> USE DEF CachesInv
<1>0. /\ <<g, dir>> \in DOMAIN sweeps
      /\ DOMAIN SweepOf(g, dir) = {"pc", "now", "seen", "files"}
      /\ \A f \in SweepOf(g, dir).files : f.keep = (f.path \in collections[g].keep)
  <2>1. <<g, dir>> \in DOMAIN sweeps /\ <<g, dir>>[1] = g
    BY DEF Sweeping
  <2> QED
    BY <2>1 DEF SweepsInv, SweepOf
<1>1. CASE file.path \notin DOMAIN names
  <2>1. PICK s : s = [SweepOf(g, dir) EXCEPT !.pc = "failed", !.files = {}]
    OBVIOUS
  <2>2. SweepGoesOn(g, dir, s) /\ UNCHANGED <<collections, Disk>> /\ Sides
    BY <1>0, <1>1, <2>1 DEF SweepGoesOn, removeCacheFile, Disk
  <2> QED
    BY <2>2, SweepStays
<1>2. CASE file.path \in DOMAIN names
  <2>1. PICK s : s = [SweepOf(g, dir) EXCEPT !.files = @ \ {file}]
    OBVIOUS
  <2>2. /\ names' = Unlinked(names, {file.path})
        /\ UNCHANGED <<collections, inodes, work, loads, entries, ms, downs, sharedTmp, exposed>>
        /\ Becomes(g, dir, s)
    BY <1>2, <2>1 DEF removeCacheFile, Sides
  <2>3. DOMAIN names' = DOMAIN names \ {file.path} /\ \A p \in DOMAIN names' : names'[p] = names[p]
    BY <2>2 DEF Unlinked
  <2>4. SweepGoesOn(g, dir, s)
    <3>1. DOMAIN s = {"pc", "now", "seen", "files"} /\ s.files \subseteq SweepOf(g, dir).files
      BY <1>0, <2>1
    <3> QED
      BY <1>0, <3>1, <2>2 DEF SweepGoesOn
  <2>5. SweepsInv' /\ \A h \in DOMAIN collections, other \in CacheDirs : Sweeping(h, other)' => Sweeping(h, other)
    BY <2>2, <2>4, SweepsAfter
  <2>6. LoadsInv'
    <3>1. \A l \in DOMAIN loads : LoadShape(l)'
      BY <2>2, ShapeStays
    <3> QED
      BY <3>1, <2>2 DEF LoadsInv, Deployment
  <2>7. DiskInv' /\ HolderInv' /\ ContentInv'
    <3>1. \A p \in DOMAIN names' : p \in DOMAIN names /\ names'[p] = names[p]
      BY <2>3
    <3>2. DiskInv'
      BY <2>2, <3>1 DEF DiskInv
    <3>3. HolderInv'
      BY <2>2, <3>1 DEF HolderInv, Writes
    <3>4. ContentInv'
      <4>1. ASSUME work.verify, ~sharedTmp, NEW p \in DOMAIN names', p.tmp = {}
            PROVE  inodes[names'[p]].body = ContentOf(p)
        BY <3>1, <4>1 DEF ContentInv
      <4>2. ASSUME work.verify, ~sharedTmp, NEW l \in DOMAIN loads
            PROVE  /\ loads[l].pc \in {"open", "write", "rename"} => \A path \in loads[l].target : loads[l].bytes = ContentOf(path)
                   /\ loads[l].pc = "rename" => \A n \in loads[l].inode : inodes[n].body = loads[l].bytes
        BY <4>2 DEF ContentInv
      <4> QED
        BY <4>1, <4>2, <2>2 DEF ContentInv, ContentOf
    <3> QED
      BY <3>2, <3>3, <3>4
  <2>8. TmpInv'
    BY <2>2, <2>3 DEF TmpInv, Running
  <2>9. ServedInv'
    <3> SUFFICES ASSUME NEW d \in DOMAIN entries, entries[d] # 0, entries[d] \notin exposed
                 PROVE  ServedLoad(entries[d])'
      BY <2>2 DEF ServedInv
    <3>0. PICK k : k = entries[d]
      OBVIOUS
    <3>1. ServedLoad(k)
      BY <3>0 DEF ServedInv
    <3>2. loads[k].pc = "ready" /\ Files(k) \subseteq collections[g].keep
      BY <3>1 DEF ServedLoad
    <3>3. file.path \notin Files(k)
      BY <3>2, <1>0
    <3>4. \A path \in Files(k) : exists(path) => exists(path)'
      BY <3>3, <2>3 DEF exists, Foreign
    <3>5. ServedLoad(k)'
      BY <3>1, <3>4, <2>2, <2>5 DEF ServedLoad, Compiles, Files
    <3> QED
      BY <3>0, <3>5, <2>2
  <2> QED
    BY <2>5, <2>6, <2>7, <2>8, <2>9
<1> QED
  BY <1>1, <1>2

\* The steps of a sweep (cache-retention.ts:140, 185).
LEMMA SweepStepKeeps ==
  ASSUME CachesInv, NEW g \in DOMAIN collections, NEW dir \in CacheDirs, SweepStep(g, dir)
  PROVE  CachesInv'
<1>0. ASSUME Sweeping(g, dir)
      PROVE  /\ DOMAIN SweepOf(g, dir) = {"pc", "now", "seen", "files"}
             /\ \A f \in SweepOf(g, dir).files : f.keep = (f.path \in collections[g].keep)
  <2>1. <<g, dir>> \in DOMAIN sweeps /\ <<g, dir>>[1] = g
    BY <1>0 DEF Sweeping
  <2> QED
    BY <2>1 DEF CachesInv, SweepsInv, SweepOf
<1>1. ASSUME NEW pc, Sweeping(g, dir), Passes(g, dir, pc) PROVE CachesInv'
  <2>1. PICK s : s = [SweepOf(g, dir) EXCEPT !.pc = pc, !.files = IF pc = "done" THEN {} ELSE @]
    OBVIOUS
  <2>2. DOMAIN s = {"pc", "now", "seen", "files"} /\ s.files \subseteq SweepOf(g, dir).files
    BY <1>0, <1>1, <2>1
  <2>3. SweepGoesOn(g, dir, s) /\ UNCHANGED <<collections, Disk>> /\ Sides
    BY <1>0, <1>1, <2>1, <2>2 DEF SweepGoesOn, Passes
  <2> QED
    BY <2>3, SweepStays
<1>2. CASE ReadDirectory(g, dir)
  <2>1. PICK s : /\ s \in {[SweepOf(g, dir) EXCEPT !.pc = "failed"],
                           [SweepOf(g, dir) EXCEPT !.pc = "stat", !.now = ms, !.seen = {p \in DOMAIN names : p.dir = dir}]}
                 /\ Becomes(g, dir, s)
    BY <1>2 DEF ReadDirectory
  <2>2. Sweeping(g, dir) /\ UNCHANGED <<collections, Disk>> /\ Sides
    BY <1>2 DEF ReadDirectory, Sweep
  <2>3. DOMAIN s = {"pc", "now", "seen", "files"} /\ s.files = SweepOf(g, dir).files
    BY <1>0, <2>1, <2>2
  <2>4. SweepGoesOn(g, dir, s)
    BY <1>0, <2>1, <2>2, <2>3 DEF SweepGoesOn
  <2> QED
    BY <2>2, <2>4, SweepStays
<1>3. CASE listCacheFiles(g, dir)
  <2>1. PICK files : files = {[path |-> p, size |-> sizeBytes(ReadFile(p)), mtime |-> inodes[names[p]].mtime,
                               keep |-> p \in collections[g].keep] : p \in SweepOf(g, dir).seen}
    OBVIOUS
  <2>2. PICK s : /\ \/ \E pc : s = [SweepOf(g, dir) EXCEPT !.pc = pc, !.seen = {}, !.files = files]
                    \/ s = [SweepOf(g, dir) EXCEPT !.pc = "failed", !.seen = {}]
                 /\ Becomes(g, dir, s)
    BY <1>3, <2>1 DEF listCacheFiles
  <2>3. Sweeping(g, dir) /\ UNCHANGED <<collections, Disk>> /\ Sides
    BY <1>3 DEF listCacheFiles, Sweep
  <2>4. DOMAIN s = {"pc", "now", "seen", "files"} /\ s.files \in {files, SweepOf(g, dir).files}
    BY <1>0, <2>2, <2>3
  <2>5. \A f \in files : f.keep = (f.path \in collections[g].keep)
    BY <2>1
  <2>6. SweepGoesOn(g, dir, s)
    BY <1>0, <2>2, <2>3, <2>4, <2>5 DEF SweepGoesOn
  <2> QED
    BY <2>3, <2>6, SweepStays
<1>4. CASE PruneByAge(g, dir)
  <2>1. \/ Passes(g, dir, "size")
        \/ \E f \in SweepOf(g, dir).files : ~f.keep /\ removeCacheFile(g, dir, f)
    BY <1>4 DEF PruneByAge
  <2>2. Sweeping(g, dir)
    BY <1>4 DEF PruneByAge, Sweep
  <2> QED
    BY <1>1, <2>1, <2>2, RemoveStep
<1>5. CASE PruneBySize(g, dir)
  <2>1. \/ Passes(g, dir, "done")
        \/ \E f \in SweepOf(g, dir).files : ~f.keep /\ removeCacheFile(g, dir, f)
    BY <1>5 DEF PruneBySize
  <2>2. Sweeping(g, dir)
    BY <1>5 DEF PruneBySize, Sweep
  <2> QED
    BY <1>1, <2>1, <2>2, RemoveStep
<1>6. CASE invalidatePrecompiledCacheVariants(g, dir)
  <2>1. \/ Passes(g, dir, "done")
        \/ \E f \in SweepOf(g, dir).files : ~f.keep /\ removeCacheFile(g, dir, f)
    BY <1>6 DEF invalidatePrecompiledCacheVariants
  <2>2. Sweeping(g, dir)
    BY <1>6 DEF invalidatePrecompiledCacheVariants, Sweep
  <2> QED
    BY <1>1, <2>1, <2>2, RemoveStep
<1> QED
  BY <1>2, <1>3, <1>4, <1>5, <1>6 DEF SweepStep

-----------------------------------------------------------------------------
\* A node starts with an empty supervisor on the disk of its workload.
LEMMA CacheInitInv ==
  ASSUME CacheInit
  PROVE  CachesInv
<1>1. /\ work \in CacheWorkloads /\ downs = 0 /\ sweeps = <<>>
      /\ loads = [l \in DOMAIN work.loads |-> IdleLoad]
      /\ entries = [d \in {work.loads[l].deployment : l \in DOMAIN work.loads} |-> 0]
      /\ inodes = [i \in DOMAIN work.disk |-> [body |-> work.disk[i].body, mtime |-> 0]]
      /\ names = [p \in {f.path : f \in Range(work.disk)} |-> CHOOSE i \in DOMAIN work.disk : work.disk[i].path = p]
      /\ collections = [g \in DOMAIN work.collections |-> [pc |-> "idle", waits |-> {}, keep |-> {}]]
  BY DEF CacheInit
<1>2. /\ \E k \in Nat : DOMAIN work.disk = 1 .. k
      /\ \A i \in DOMAIN work.disk :
           /\ work.disk[i].path.dir \in CacheDirs /\ work.disk[i].path.tmp = {}
           /\ work.disk[i].body = ContentOf(work.disk[i].path)
  <2>1. work.disk \in Seq(Range(work.disk))
    BY <1>1, CacheAssumption
  <2>2. DOMAIN work.disk = 1 .. Len(work.disk) /\ Len(work.disk) \in Nat
    BY <2>1
  <2> QED
    BY <1>1, <2>2, CacheAssumption DEF CacheDirs
<1>3. \A p \in DOMAIN names : names[p] \in DOMAIN work.disk /\ work.disk[names[p]].path = p
  <2>1. \A p \in DOMAIN names : \E i \in DOMAIN work.disk : work.disk[i].path = p
    BY <1>1 DEF Range
  <2> QED
    BY <1>1, <2>1
<1>4. \A l \in DOMAIN loads : DOMAIN loads[l] = LoadFields /\ loads[l].pc = "idle" /\ loads[l].tmp = {} /\ loads[l].stage = "artifact"
  BY <1>1 DEF IdleLoad, LoadFields
<1>5. LoadsInv
  BY <1>1, <1>4 DEF LoadsInv, LoadShape, LoadPcs, LoadFields, Writes
<1>6. DiskInv
  <2>1. DOMAIN inodes = DOMAIN work.disk
    BY <1>1
  <2>2. \A p \in DOMAIN names : names[p] \in DOMAIN inodes /\ p.dir \in CacheDirs
    BY <2>1, <1>2, <1>3
  <2>3. \A p \in DOMAIN names, q \in DOMAIN names : names[p] = names[q] => p = q
    BY <1>3
  <2> QED
    BY <2>1, <2>2, <2>3, <1>2 DEF DiskInv
<1>7. HolderInv
  BY <1>4 DEF HolderInv, Writes
<1>8. ContentInv
  <2>1. \A i \in DOMAIN work.disk : inodes[i].body = work.disk[i].body
    BY <1>1
  <2>2. \A p \in DOMAIN names : inodes[names[p]].body = ContentOf(p)
    BY <2>1, <1>2, <1>3
  <2> QED
    BY <2>2, <1>4 DEF ContentInv
<1>9. TmpInv
  BY <1>1, <1>2, <1>3 DEF TmpInv
<1>10. SweepsInv
  <2>1. DOMAIN sweeps = {}
    BY <1>1
  <2> QED
    BY <1>1, <2>1 DEF SweepsInv
<1>11. ServedInv
  BY <1>1 DEF ServedInv
<1> QED
  BY <1>5, <1>6, <1>7, <1>8, <1>9, <1>10, <1>11 DEF CachesInv

\* Every step of the node keeps what is known of its caches.
LEMMA CacheNextInv ==
  ASSUME CachesInv, [CacheNext]_cacheVars
  PROVE  CachesInv'
<1>1. ASSUME NEW l \in DOMAIN loads, LoadStep(l) PROVE CachesInv'
  BY <1>1, FirstAskStep, FileStep, MaterializeStep, VerifyStep, FetchStep, OciStep, WriteFileStep, WriteBytesStep,
     RenameStep, CompileStep, CommandStep DEF LoadStep
<1>2. ASSUME NEW g \in DOMAIN collections,
             runRuntimeCacheGc(g) \/ runPrecompiledCacheInvalidation(g) \/ preparedComponents(g)
      PROVE  CachesInv'
  BY <1>2, TakeStep, SettleStep DEF runRuntimeCacheGc, runPrecompiledCacheInvalidation
<1>3. ASSUME NEW g \in DOMAIN collections, NEW dir \in {"artifact", "precompiled"}, SweepStep(g, dir) PROVE CachesInv'
  BY <1>3, SweepStepKeeps DEF CacheDirs
<1>4. CASE UNCHANGED cacheVars
  <2>1. UNCHANGED Disk /\ Sides /\ UNCHANGED <<sweeps, collections>>
    BY <1>4 DEF cacheVars, Disk, Sides
  <2>2. LoadsInv' /\ DiskInv' /\ HolderInv' /\ ContentInv' /\ TmpInv'
    BY <2>1, CollectorOnly
  <2>3. SweepsInv'
    BY <2>1 DEF CachesInv, SweepsInv
  <2>4. ServedInv'
    BY <2>1 DEF CachesInv, ServedInv, ServedLoad, Compiles, Files, Sweeping, exists, Foreign, Disk, Sides
  <2> QED
    BY <2>2, <2>3, <2>4 DEF CachesInv
<1> QED
  BY <1>1, <1>2, <1>3, <1>4, CacheTickStep, DiesStep, EvictStep DEF CacheNext

\* What the invariant says of the files of a node.
LEMMA CachesInvIsSound == CachesInv => CacheIsSound
<1> SUFFICES ASSUME CachesInv PROVE CacheIsSound
  OBVIOUS
<1>1. \A p \in DOMAIN names : p.tmp = {} /\ work.verify /\ ~sharedTmp => ReadFile(p) = ContentOf(p)
  <2>1. \A p \in DOMAIN names : ~Foreign(p)
    BY DEF CachesInv, DiskInv, CacheDirs, Foreign
  <2> QED
    BY <2>1 DEF CachesInv, ContentInv, ReadFile
<1>2. ASSUME NEW d \in DOMAIN entries, entries[d] # 0, entries[d] \notin exposed, loads[entries[d]].pc = "ready",
             NEW path \in loads[entries[d]].component \union loads[entries[d]].target
      PROVE  exists(path)
  BY <1>2 DEF CachesInv, ServedInv, ServedLoad, Compiles
<1>3. \A path \in DOMAIN names :
        path.tmp # {} => downs > 0 \/ \E l \in DOMAIN loads : Running(l) /\ path \in loads[l].tmp
  BY DEF CachesInv, TmpInv
<1> QED
  BY <1>1, <1>2, <1>3 DEF CacheIsSound

\* Whatever loads, collections and crashes do to the two caches of a node, what
\* is under a final name is what it says, a deployment that is served has its
\* files, and temporary files are removed (artifacts.ts, wasmtime.ts,
\* wasip3-host.ts, cache-retention.ts).
THEOREM CachesAreSound == CacheSpec => []CacheIsSound
<1>1. CacheInit => CachesInv
  BY CacheInitInv
<1>2. CachesInv /\ [CacheNext]_cacheVars => CachesInv'
  BY CacheNextInv
<1> QED
  BY <1>1, <1>2, CachesInvIsSound, PTL DEF CacheSpec
=============================================================================
