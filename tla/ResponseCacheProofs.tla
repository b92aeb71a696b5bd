------------------------- MODULE ResponseCacheProofs -------------------------
(***************************************************************************)
(* Theorems about ResponseCache for every set of requests, updates, keys   *)
(* and responses and every configuration.  The argument rests on one       *)
(* inductive invariant, IInv: beside the stated properties it ties a       *)
(* request's captured revision to the route table it was routed by         *)
(* (RevisionPinsTable) and the registered fills to their leaders           *)
(* (FillsAreCurrent).                                                      *)
(***************************************************************************)
EXTENDS ResponseCache, FiniteFacts

\* Requests in the coalescing protocol have a cache key.
HoldersHaveKeys ==
  \A r \in Requests : pc[r] \in Holding => key[r] \in Keys

\* Every suspend() is held by exactly one update in progress.
SuspendedExact ==
  suspended = Cardinality({u \in Updates : update[u] = "updating"})

\* Revisions and purge marks never run ahead of the generation.
NothingAhead ==
  /\ \A r \in Requests : rev[r] <= generation
  /\ \A k \in Keys : purgedAt[k] <= generation

\* A request past route selection whose revision is still current was routed
\* by the table that is still installed.
RevisionPinsTable ==
  \A r \in Requests :
    /\ pc[r] \in {"selected"} \cup Holding
    /\ rev[r] = generation
    /\ suspended = 0
    => route[r] = installed

\* A registered fill belongs to a running leader of the current generation,
\* and every such leader is registered under its key.
FillsAreCurrent ==
  /\ \A k \in DOMAIN fills :
       /\ pc[fills[k]] = "filling"
       /\ key[fills[k]] = k
       /\ rev[fills[k]] = generation
  /\ \A r \in Requests :
       pc[r] = "filling" /\ rev[r] = generation
       => key[r] \in DOMAIN fills /\ fills[key[r]] = r

\* An entry expires no later than its headers allow.
ExpiryWithinLifetime ==
  \A k \in DOMAIN entries : entries[k].expiresAt <= entries[k].freshUntil

FenceInv ==
  /\ NothingAhead
  /\ RevisionPinsTable
  /\ EntriesFromInstalledTable
  /\ EntriesNewerThanPurge
  /\ ExpiryWithinLifetime
  /\ SuspendedMeansEmpty

FillInv ==
  /\ FillsAreCurrent
  /\ WaitersAttached
  /\ SingleFlight

TypeInv == TypeOK /\ SuspendedExact /\ HoldersHaveKeys

IInv == TypeInv /\ FenceInv /\ FillInv /\ PendingExact
-----------------------------------------------------------------------------
(* Arithmetic of the freshness computation.                                *)

\* The minimum of two integers is one of them and bounds both.
LEMMA MinOfTwo ==
  ASSUME NEW a \in Int, NEW b \in Int
  PROVE  Min({a, b}) \in {a, b} /\ Min({a, b}) <= a /\ Min({a, b}) <= b
<1>1. \E x \in {a, b} : \A y \in {a, b} : x <= y
  OBVIOUS
<1>2. QED
  BY <1>1 DEF Min

\* The maximum of two integers is one of them and bounds both.
LEMMA MaxOfTwo ==
  ASSUME NEW a \in Int, NEW b \in Int
  PROVE  Max({a, b}) \in {a, b} /\ Max({a, b}) >= a /\ Max({a, b}) >= b
<1>1. \E x \in {a, b} : \A y \in {a, b} : x >= y
  OBVIOUS
<1>2. QED
  BY <1>1 DEF Max

\* The maximum of three integers is one of them and bounds all.
LEMMA MaxOfThree ==
  ASSUME NEW a \in Int, NEW b \in Int, NEW c \in Int
  PROVE  /\ Max({a, b, c}) \in {a, b, c}
         /\ Max({a, b, c}) >= a /\ Max({a, b, c}) >= b /\ Max({a, b, c}) >= c
<1>1. \E x \in {a, b, c} : \A y \in {a, b, c} : x >= y
  <2>1. CASE a >= b /\ a >= c
    BY <2>1
  <2>2. CASE b >= a /\ b >= c
    BY <2>2
  <2>3. CASE c >= a /\ c >= b
    BY <2>3
  <2>4. QED
    BY <2>1, <2>2, <2>3
<1>2. QED
  BY <1>1 DEF Max

\* prepareResponseCacheEntry yields an entry whose expiry respects the age the
\* response had already when its invocation began.
LEMMA EntryForProps ==
  ASSUME TypeOK, NEW r \in Requests, NEW a \in Responses
  PROVE  /\ EntryFor(r, a) \in Entry
         /\ EntryFor(r, a).expiresAt <= EntryFor(r, a).freshUntil
<1> DEFINE sent == requestedAt[r]
           took == Max({0, now - sent})
<1>1. /\ a.size \in Nat /\ a.ttl \in Nat /\ a.age \in Nat /\ a.lag \in Int
      /\ sent \in Nat /\ now \in Nat /\ rev[r] \in Nat /\ route[r] \in Nat
      /\ MaxTtl \in Nat
  BY ResponseAssumption, ConfigAssumption DEF TypeOK
<1>2. took \in Int /\ took >= now - sent
  <2>1. now - sent \in Int /\ 0 \in Int
    BY <1>1
  <2> HIDE DEF sent
  <2>2. Max({0, now - sent}) \in {0, now - sent} /\ Max({0, now - sent}) >= now - sent
    BY <2>1, MaxOfTwo
  <2>3. QED
    BY <2>1, <2>2
<1>3. InitialAge(a, sent) \in Int /\ InitialAge(a, sent) >= a.age + took
  <2> HIDE DEF took
  <2> DEFINE spent == a.age + took
             oldest == Max({0, a.lag, spent})
  <2>1. spent \in Int /\ a.lag \in Int /\ 0 \in Int
    BY <1>1, <1>2
  <2> HIDE DEF spent
  <2>2. oldest \in {0, a.lag, spent} /\ oldest >= spent
    BY ONLY <2>1, MaxOfThree
  <2>3. oldest \in Int
    BY <2>1, <2>2
  <2>4. QED
    BY <2>2, <2>3 DEF InitialAge, took, spent
<1>4. Lifetime(a) \in Int
  <2>1. a.ttl \in Int /\ MaxTtl \in Int
    BY <1>1
  <2>2. Min({a.ttl, MaxTtl}) \in {a.ttl, MaxTtl}
    BY <2>1, MinOfTwo
  <2>3. QED
    BY <2>1, <2>2 DEF Lifetime
<1>5. QED
  BY <1>1, <1>2, <1>3, <1>4 DEF EntryFor, Entry
-----------------------------------------------------------------------------
(* The type invariant, with the count of suspensions it needs.             *)

USE DEF Holding, Answered

\* What eviction keeps was stored before and is another key's.
LEMMA SurvivorsAreEntries ==
  ASSUME NEW k, NEW size
  PROVE  Survivors(k, size) \subseteq DOMAIN entries \ {k}
BY DEF Survivors, Unexpired

\* remove() of any set of keys keeps the store well formed.
LEMMA KeepType ==
  ASSUME TypeOK, NEW K \in SUBSET DOMAIN entries, Keep(K)
  PROVE  /\ DOMAIN entries' = K
         /\ \A k \in K : entries'[k] = entries[k]
         /\ DOMAIN entries' \subseteq Keys
         /\ entries' \in [DOMAIN entries' -> Entry]
         /\ older' \subseteq (DOMAIN entries') \X (DOMAIN entries')
<1>1. DOMAIN entries' = K /\ \A k \in K : entries'[k] = entries[k]
  BY DEF Keep, Only
<1>2. DOMAIN entries' \subseteq Keys /\ entries' \in [DOMAIN entries' -> Entry]
  BY <1>1 DEF TypeOK, Keep, Only
<1>3. older' \subseteq K \X K
  BY DEF TypeOK, Keep, OrderOf
<1>4. QED
  BY <1>1, <1>2, <1>3

\* A hit reorders the entries and changes none.
LEMMA TouchType ==
  ASSUME TypeOK, NEW k \in DOMAIN entries, Touch(k)
  PROVE  /\ entries' = entries
         /\ older' \subseteq (DOMAIN entries') \X (DOMAIN entries')
BY DEF TypeOK, Touch, SetLast, OrderOf

\* Storing a response adds one entry and drops others.
LEMMA StoreType ==
  ASSUME TypeOK, NEW r \in Requests, NEW a \in Responses,
         key[r] \in Keys, Store(r, a)
  PROVE  /\ DOMAIN entries' \subseteq DOMAIN entries \cup {key[r]}
         /\ key[r] \in DOMAIN entries'
         /\ entries'[key[r]] = EntryFor(r, a)
         /\ \A k \in DOMAIN entries' : k # key[r] => entries'[k] = entries[k]
         /\ DOMAIN entries' \subseteq Keys
         /\ entries' \in [DOMAIN entries' -> Entry]
         /\ older' \subseteq (DOMAIN entries') \X (DOMAIN entries')
<1> DEFINE K == Survivors(key[r], a.size)
<1>1. K \subseteq DOMAIN entries \ {key[r]}
  BY SurvivorsAreEntries
<1>2. EntryFor(r, a) \in Entry
  BY EntryForProps
<1>3. /\ entries' = [j \in K \cup {key[r]} |->
                       IF j = key[r] THEN EntryFor(r, a) ELSE entries[j]]
      /\ older' = OrderOf(K) \cup {<<j, key[r]>> : j \in K}
  BY DEF Store
<1> HIDE DEF K
<1>4. OrderOf(K) \subseteq K \X K
  BY DEF OrderOf, TypeOK
<1>5. older' \subseteq (K \cup {key[r]}) \X (K \cup {key[r]})
  BY <1>3, <1>4
<1>6. DOMAIN entries' = K \cup {key[r]}
  BY <1>3
<1>7. entries' \in [DOMAIN entries' -> Entry]
  BY <1>1, <1>2, <1>3 DEF TypeOK
<1>8. QED
  BY <1>1, <1>3, <1>5, <1>6, <1>7 DEF TypeOK

\* resolve() moves requests only from "waiting" to the given place.
LEMMA WokenType ==
  ASSUME TypeOK, NEW L, NEW place \in Places
  PROVE  Woken(L, place) \in [Requests -> Places]
BY DEF TypeOK, Woken

\* purge() keeps the state well formed.
LEMMA PurgeType ==
  ASSUME TypeOK, NEW scope, PurgeWith(scope)
  PROVE  /\ pc' \in [Requests -> Places]
         /\ generation' = generation + 1
         /\ generation' \in Nat
         /\ DOMAIN entries' = {k \in DOMAIN entries : ~Matches(k, scope)}
         /\ \A k \in DOMAIN entries' : entries'[k] = entries[k]
         /\ DOMAIN entries' \subseteq Keys
         /\ entries' \in [DOMAIN entries' -> Entry]
         /\ older' \subseteq (DOMAIN entries') \X (DOMAIN entries')
         /\ DOMAIN fills' = {}
         /\ DOMAIN fills' \subseteq Keys
         /\ fills' \in [DOMAIN fills' -> Requests]
         /\ purgedAt' \in [Keys -> Nat]
<1> DEFINE K == {k \in DOMAIN entries : ~Matches(k, scope)}
<1>1. K \in SUBSET DOMAIN entries /\ Keep(K)
  BY DEF PurgeWith
<1>2. /\ DOMAIN entries' = K
      /\ \A k \in K : entries'[k] = entries[k]
      /\ DOMAIN entries' \subseteq Keys
      /\ entries' \in [DOMAIN entries' -> Entry]
      /\ older' \subseteq (DOMAIN entries') \X (DOMAIN entries')
  BY <1>1, KeepType
<1>3. pc' \in [Requests -> Places]
  BY WokenType DEF PurgeWith, Places
<1>4. generation' = generation + 1 /\ generation' \in Nat /\ purgedAt' \in [Keys -> Nat]
  BY DEF PurgeWith, TypeOK
<1>5. DOMAIN fills' = {} /\ fills' \in [DOMAIN fills' -> Requests]
  BY DEF PurgeWith
<1>6. QED
  BY <1>2, <1>3, <1>4, <1>5

\* An update that starts takes one suspension, one that ends gives it back.
LEMMA SuspensionCount ==
  ASSUME TypeOK, SuspendedExact, NEW u \in Updates
  PROVE  /\ update[u] = "idle" /\ update' = [update EXCEPT ![u] = "updating"]
            /\ suspended' = suspended + 1
            => SuspendedExact' /\ suspended' \in Nat /\ suspended' > 0
         /\ update[u] = "updating" /\ update' = [update EXCEPT ![u] = "done"]
            /\ suspended' = suspended - 1
            => SuspendedExact' /\ suspended' \in Nat /\ suspended > 0
<1> DEFINE U == {v \in Updates : update[v] = "updating"}
           V == {v \in Updates : update'[v] = "updating"}
<1>1. IsFiniteSet(U) /\ Cardinality(U) \in Nat /\ suspended = Cardinality(U)
  BY ConfigAssumption, FS_Subset, FS_CardinalityType DEF SuspendedExact
<1>0. SuspendedExact' <=> suspended' = Cardinality(V)
  BY DEF SuspendedExact
<1>2. ASSUME update[u] = "idle", update' = [update EXCEPT ![u] = "updating"],
             suspended' = suspended + 1
      PROVE  SuspendedExact' /\ suspended' \in Nat /\ suspended' > 0
  <2>1. V = U \cup {u} /\ u \notin U
    BY <1>2 DEF TypeOK
  <2>2. Cardinality(U \cup {u}) = Cardinality(U) + 1
    BY <1>1, <2>1, FS_AddElement
  <2> HIDE DEF U, V
  <2>3. QED
    BY <1>1, <1>0, <1>2, <2>1, <2>2
<1>3. ASSUME update[u] = "updating", update' = [update EXCEPT ![u] = "done"],
             suspended' = suspended - 1
      PROVE  SuspendedExact' /\ suspended' \in Nat /\ suspended > 0
  <2>1. V = U \ {u} /\ u \in U
    BY <1>3 DEF TypeOK
  <2> HIDE DEF U, V
  <2>2. Cardinality(U \ {u}) = Cardinality(U) - 1 /\ Cardinality(U) > 0
    <3>1. Cardinality(U \ {u}) = Cardinality(U) - 1
      BY <1>1, <2>1, FS_RemoveElement
    <3>2. Cardinality(U) # 0
      BY <1>1, <2>1, FS_EmptySet
    <3>3. QED
      BY <1>1, <3>1, <3>2
  <2>3. QED
    BY <1>1, <1>0, <1>3, <2>1, <2>2
<1>4. QED
  BY <1>2, <1>3

\* The initial state is well formed.
LEMMA TypeInit == Init => TypeInv
<1> SUFFICES ASSUME Init PROVE TypeInv
  OBVIOUS
<1>1. TypeOK
  BY DEF Init, TypeOK, Places
<1>2. SuspendedExact
  <2>1. {u \in Updates : update[u] = "updating"} = {}
    BY DEF Init
  <2>2. QED
    BY <2>1, FS_EmptySet DEF Init, SuspendedExact
<1>3. HoldersHaveKeys
  BY DEF Init, HoldersHaveKeys
<1>4. QED
  BY <1>1, <1>2, <1>3 DEF TypeInv

\* A miss drops the expired entry of its key, if there is one.
LEMMA DropStaleType ==
  ASSUME TypeOK, NEW k, DropStale(k)
  PROVE  /\ DOMAIN entries' = DOMAIN entries \ {k}
         /\ \A j \in DOMAIN entries' : entries'[j] = entries[j]
         /\ DOMAIN entries' \subseteq Keys
         /\ entries' \in [DOMAIN entries' -> Entry]
         /\ older' \subseteq (DOMAIN entries') \X (DOMAIN entries')
<1>1. DOMAIN entries \ {k} \in SUBSET DOMAIN entries
  OBVIOUS
<1>2. QED
  BY <1>1, KeepType DEF DropStale

\* The finally block of a leader keeps requests and fills well formed.
LEMMA FinishFillType ==
  ASSUME TypeOK, NEW r \in Requests, NEW stored \in BOOLEAN,
         NEW status \in Answered, FinishFill(r, stored, status)
  PROVE  /\ pc' \in [Requests -> Places]
         /\ pc'[r] = status
         /\ \A s \in Requests \ {r} :
              pc'[s] = IF pc[s] = "waiting" /\ leader[s] = r
                       THEN IF stored THEN "wokenStored" ELSE "wokenEmpty"
                       ELSE pc[s]
         /\ DOMAIN fills' = {k \in DOMAIN fills : fills[k] # r}
         /\ \A k \in DOMAIN fills' : fills'[k] = fills[k]
         /\ DOMAIN fills' \subseteq Keys
         /\ fills' \in [DOMAIN fills' -> Requests]
         /\ pending' = pending - 1
<1> DEFINE W == Woken({r}, IF stored THEN "wokenStored" ELSE "wokenEmpty")
<1>1. /\ W \in [Requests -> Places]
      /\ \A s \in Requests \ {r} :
           W[s] = IF pc[s] = "waiting" /\ leader[s] = r
                  THEN IF stored THEN "wokenStored" ELSE "wokenEmpty"
                  ELSE pc[s]
  BY DEF Woken, TypeOK, Places
<1>2. pc' = [W EXCEPT ![r] = status]
  BY DEF FinishFill
<1> HIDE DEF W
<1>3. /\ pc' \in [Requests -> Places] /\ pc'[r] = status
      /\ \A s \in Requests \ {r} : pc'[s] = W[s]
  BY <1>1, <1>2 DEF Places
<1>4. /\ DOMAIN fills' = {k \in DOMAIN fills : fills[k] # r}
      /\ \A k \in DOMAIN fills' : fills'[k] = fills[k]
      /\ fills' \in [DOMAIN fills' -> Requests]
      /\ pending' = pending - 1
  BY DEF FinishFill, TypeOK
<1>5. QED
  BY <1>1, <1>3, <1>4 DEF TypeOK

\* Every step keeps the state well formed and the suspensions counted.
LEMMA TypeStep == TypeInv /\ [Next]_vars => TypeInv'
<1> SUFFICES ASSUME TypeInv, [Next]_vars PROVE TypeInv'
  OBVIOUS
<1> USE DEF TypeInv
<1> DEFINE StoreOK == /\ DOMAIN entries \subseteq Keys
                      /\ entries \in [DOMAIN entries -> Entry]
                      /\ older \subseteq (DOMAIN entries) \X (DOMAIN entries)
<1>0. TypeOK /\ SuspendedExact /\ HoldersHaveKeys
  OBVIOUS
<1>1. ASSUME NEW r \in Requests, Arrive(r)
      PROVE  TypeInv'
  BY <1>1 DEF TypeOK, SuspendedExact, HoldersHaveKeys, Arrive, Goto, requestData,
              storeVars, updateVars, Places
<1>2. ASSUME NEW r \in Requests, Abort(r)
      PROVE  TypeInv'
  BY <1>2 DEF TypeOK, SuspendedExact, HoldersHaveKeys, Abort, Goto, requestData,
              storeVars, updateVars, Places
<1>3. ASSUME NEW r \in Requests, NEW s \in Selections, SelectRoute(r, s[1], s[2])
      PROVE  TypeInv'
  <2>1. s[1] \in Keys \cup {NoKey}
    BY ConfigAssumption
  <2>2. QED
    BY <1>3, <2>1 DEF TypeOK, SuspendedExact, HoldersHaveKeys, SelectRoute, Goto,
                      storeVars, updateVars, Places
<1>4. ASSUME NEW r \in Requests, ExecuteRefused(r)
      PROVE  TypeInv'
  BY <1>4 DEF TypeOK, SuspendedExact, HoldersHaveKeys, ExecuteRefused, Goto, Bypass, requestData,
              storeVars, updateVars, Places
<1>5. ASSUME NEW r \in Requests, ExecuteHit(r)
      PROVE  TypeInv'
  <2>1. entries' = entries /\ older' \subseteq (DOMAIN entries') \X (DOMAIN entries')
    BY <1>5, TouchType DEF ExecuteHit, Fresh
  <2>2. QED
    BY <1>5, <2>1 DEF TypeOK, SuspendedExact, HoldersHaveKeys, ExecuteHit, Goto,
                      requestData, updateVars, Places
<1>6. ASSUME NEW r \in Requests, ExecuteUncoordinated(r)
      PROVE  TypeInv'
  <2>1. StoreOK'
    BY <1>6, DropStaleType DEF ExecuteUncoordinated
  <2>2. key[r] \in Keys
    BY <1>6 DEF ExecuteUncoordinated, Admitted, TypeOK
  <2>3. QED
    BY <1>6, <2>1, <2>2 DEF TypeOK, SuspendedExact, HoldersHaveKeys, ExecuteUncoordinated, Goto, Bypass,
                      requestData, updateVars, Places
<1>7. ASSUME NEW r \in Requests, ExecuteCoalesce(r)
      PROVE  TypeInv'
  <2>1. StoreOK'
    BY <1>7, DropStaleType DEF ExecuteCoalesce
  <2>2. key[r] \in Keys
    BY <1>7 DEF ExecuteCoalesce, Admitted, TypeOK
  <2>3. QED
    BY <1>7, <2>1, <2>2 DEF TypeOK, SuspendedExact, HoldersHaveKeys, ExecuteCoalesce, Filling, Goto, Bypass,
                      requestData, updateVars, Places
<1>8. ASSUME NEW r \in Requests, ExecuteLead(r)
      PROVE  TypeInv'
  <2>1. StoreOK'
    BY <1>8, DropStaleType DEF ExecuteLead
  <2>2. key[r] \in Keys
    BY <1>8 DEF ExecuteLead, Admitted, TypeOK
  <2>3. QED
    BY <1>8, <2>1, <2>2 DEF TypeOK, SuspendedExact, HoldersHaveKeys, ExecuteLead, Goto, Bypass,
                      requestData, updateVars, Places
<1>9. ASSUME NEW r \in Requests, NEW a \in Responses, FillStores(r, a)
      PROVE  TypeInv'
  <2>1. key[r] \in Keys
    BY <1>9 DEF FillStores, HoldersHaveKeys
  <2>2. StoreOK'
    BY <1>9, <2>1, StoreType DEF FillStores
  <2>3. /\ pc' \in [Requests -> Places]
        /\ \A s \in Requests : pc'[s] \in Holding => pc[s] \in Holding
        /\ DOMAIN fills' \subseteq Keys /\ fills' \in [DOMAIN fills' -> Requests]
        /\ pending' = pending - 1
    BY <1>9, FinishFillType DEF FillStores
  <2>4. QED
    BY <1>9, <2>2, <2>3 DEF TypeOK, SuspendedExact, HoldersHaveKeys, FillStores,
                            requestData, updateVars
<1>10. ASSUME NEW r \in Requests, NEW a \in Responses, FillDiscards(r, a)
      PROVE  TypeInv'
  <2>1. /\ pc' \in [Requests -> Places]
        /\ \A s \in Requests : pc'[s] \in Holding => pc[s] \in Holding
        /\ DOMAIN fills' \subseteq Keys /\ fills' \in [DOMAIN fills' -> Requests]
        /\ pending' = pending - 1
    BY <1>10, FinishFillType DEF FillDiscards
  <2>2. QED
    BY <1>10, <2>1 DEF TypeOK, SuspendedExact, HoldersHaveKeys, FillDiscards,
                      requestData, storeVars, updateVars
<1>11. ASSUME NEW r \in Requests, FillFails(r)
      PROVE  TypeInv'
  <2>1. /\ pc' \in [Requests -> Places]
        /\ \A s \in Requests : pc'[s] \in Holding => pc[s] \in Holding
        /\ DOMAIN fills' \subseteq Keys /\ fills' \in [DOMAIN fills' -> Requests]
        /\ pending' = pending - 1
    BY <1>11, FinishFillType DEF FillFails
  <2>2. QED
    BY <1>11, <2>1 DEF TypeOK, SuspendedExact, HoldersHaveKeys, FillFails,
                      requestData, storeVars, updateVars
<1>12. ASSUME NEW r \in Requests, WakeHit(r)
      PROVE  TypeInv'
  <2>1. entries' = entries /\ older' \subseteq (DOMAIN entries') \X (DOMAIN entries')
    BY <1>12, TouchType DEF WakeHit, Fresh
  <2>2. QED
    BY <1>12, <2>1 DEF TypeOK, SuspendedExact, HoldersHaveKeys, WakeHit, Goto,
                      requestData, updateVars, Places
<1>13. ASSUME NEW r \in Requests, WakeMiss(r)
      PROVE  TypeInv'
  <2>1. StoreOK'
    BY <1>13, DropStaleType DEF WakeMiss
  <2>2. QED
    BY <1>13, <2>1 DEF TypeOK, SuspendedExact, HoldersHaveKeys, WakeMiss, Goto, Bypass,
                      requestData, updateVars, Places
<1>14. ASSUME NEW r \in Requests, WakeFenced(r)
      PROVE  TypeInv'
  BY <1>14 DEF TypeOK, SuspendedExact, HoldersHaveKeys, WakeFenced, Goto, Bypass, requestData,
              storeVars, updateVars, Places
<1>15. ASSUME NEW r \in Requests, Detach(r)
      PROVE  TypeInv'
  BY <1>15 DEF TypeOK, SuspendedExact, HoldersHaveKeys, Detach, Goto, Bypass, requestData,
              storeVars, updateVars, Places
<1>16. ASSUME NEW r \in Requests, BypassSettles(r)
      PROVE  TypeInv'
  BY <1>16 DEF TypeOK, SuspendedExact, HoldersHaveKeys, BypassSettles, Goto, Bypass, requestData,
              storeVars, updateVars, Places
<1>17. ASSUME NEW u \in Updates, SnapshotPut(u)
      PROVE  TypeInv'
  <2>1. StoreOK' /\ pc' \in [Requests -> Places] /\ generation' \in Nat
        /\ DOMAIN fills' \subseteq Keys /\ fills' \in [DOMAIN fills' -> Requests]
        /\ purgedAt' \in [Keys -> Nat]
    BY <1>17, PurgeType DEF SnapshotPut
  <2>2. SuspendedExact' /\ suspended' \in Nat
    BY <1>17, SuspensionCount DEF SnapshotPut
  <2>3. \A r \in Requests : pc'[r] \in Holding => pc[r] \in Holding
    BY <1>17 DEF SnapshotPut, PurgeWith, Woken, TypeOK
  <2>4. QED
    BY <1>17, <2>1, <2>2, <2>3 DEF TypeOK, HoldersHaveKeys, SnapshotPut, requestData
<1>18. ASSUME NEW u \in Updates, SnapshotDone(u)
      PROVE  TypeInv'
  <2>1. StoreOK' /\ pc' \in [Requests -> Places] /\ generation' \in Nat
        /\ DOMAIN fills' \subseteq Keys /\ fills' \in [DOMAIN fills' -> Requests]
        /\ purgedAt' \in [Keys -> Nat]
    BY <1>18, PurgeType DEF SnapshotDone
  <2>2. SuspendedExact' /\ suspended' \in Nat
    BY <1>18, SuspensionCount DEF SnapshotDone
  <2>3. \A r \in Requests : pc'[r] \in Holding => pc[r] \in Holding
    BY <1>18 DEF SnapshotDone, PurgeWith, Woken, TypeOK
  <2>4. QED
    BY <1>18, <2>1, <2>2, <2>3 DEF TypeOK, HoldersHaveKeys, SnapshotDone, requestData
<1>19. ASSUME NEW scope \in Scope, Purge(scope)
      PROVE  TypeInv'
  <2>1. StoreOK' /\ pc' \in [Requests -> Places] /\ generation' \in Nat
        /\ DOMAIN fills' \subseteq Keys /\ fills' \in [DOMAIN fills' -> Requests]
        /\ purgedAt' \in [Keys -> Nat]
    BY <1>19, PurgeType DEF Purge
  <2>2. \A r \in Requests : pc'[r] \in Holding => pc[r] \in Holding
    BY <1>19 DEF Purge, PurgeWith, Woken, TypeOK
  <2>3. QED
    BY <1>19, <2>1, <2>2 DEF TypeOK, SuspendedExact, HoldersHaveKeys, Purge, requestData
<1>20. CASE Tick
  BY <1>20 DEF TypeOK, SuspendedExact, HoldersHaveKeys, Tick, requestData, storeVars, updateVars
<1>21. CASE UNCHANGED vars
  BY <1>21 DEF TypeOK, SuspendedExact, HoldersHaveKeys, vars, requestData, storeVars, updateVars
<1>22. QED
  BY <1>1, <1>2, <1>3, <1>4, <1>5, <1>6, <1>7, <1>8, <1>9, <1>10, <1>11, <1>12, <1>13, <1>14, <1>15, <1>16, <1>17, <1>18, <1>19, <1>20, <1>21
  DEF Next, Continue, Quiet

\* The state keeps its shape, and the suspension count is exact, in every
\* behaviour of the cache.
THEOREM TypeCorrect == Spec => []TypeOK
<1>1. Init => TypeInv
  BY TypeInit
<1>2. TypeInv /\ [Next]_vars => TypeInv'
  BY TypeStep
<1>3. TypeInv => TypeOK
  BY DEF TypeInv
<1>4. QED
  BY <1>1, <1>2, <1>3, PTL DEF Spec

-----------------------------------------------------------------------------
(* The fence: nothing stale is ever stored.                                *)

InFlight == {"selected"} \cup Holding

\* A step that moves no revision, route or fence, lets no request in, and
\* only drops entries, preserves the fence.
LEMMA FenceFrame ==
  ASSUME TypeInv, FenceInv,
         UNCHANGED <<rev, route, generation, suspended, installed, purgedAt>>,
         \A r \in Requests : pc'[r] \in InFlight => pc[r] \in InFlight,
         DOMAIN entries' \subseteq DOMAIN entries,
         \A k \in DOMAIN entries' : entries'[k] = entries[k],
         suspended = 0 \/ DOMAIN fills' \subseteq DOMAIN fills
  PROVE  FenceInv'
<1>1. NothingAhead' /\ RevisionPinsTable'
  BY DEF FenceInv, NothingAhead, RevisionPinsTable, InFlight
<1>2. EntriesFromInstalledTable' /\ EntriesNewerThanPurge' /\ ExpiryWithinLifetime'
  BY DEF FenceInv, EntriesFromInstalledTable, EntriesNewerThanPurge, ExpiryWithinLifetime
<1>3. SuspendedMeansEmpty'
  <2>1. SUFFICES ASSUME suspended > 0
                 PROVE  DOMAIN entries' = {} /\ DOMAIN fills' = {}
    BY DEF SuspendedMeansEmpty
  <2>2. DOMAIN entries = {} /\ DOMAIN fills = {} /\ suspended # 0
    BY <2>1 DEF FenceInv, SuspendedMeansEmpty
  <2>3. DOMAIN fills' \subseteq DOMAIN fills
    BY <2>2
  <2>4. QED
    BY <2>2, <2>3
<1>4. QED
  BY <1>1, <1>2, <1>3 DEF FenceInv

\* A purge opens a generation that no request has captured yet.
LEMMA FencePurge ==
  ASSUME TypeInv, FenceInv, NEW scope, PurgeWith(scope), UNCHANGED <<rev, route>>
  PROVE  /\ NothingAhead'
         /\ RevisionPinsTable'
         /\ EntriesNewerThanPurge'
         /\ ExpiryWithinLifetime'
         /\ UNCHANGED installed => EntriesFromInstalledTable'
         /\ UNCHANGED suspended => SuspendedMeansEmpty'
         /\ scope = Everything => EntriesFromInstalledTable' /\ SuspendedMeansEmpty'
<1>1. /\ generation' = generation + 1
      /\ DOMAIN entries' = {k \in DOMAIN entries : ~Matches(k, scope)}
      /\ \A k \in DOMAIN entries' : entries'[k] = entries[k]
      /\ DOMAIN fills' = {}
  BY PurgeType DEF TypeInv
<1>2. purgedAt' = [k \in Keys |-> IF Matches(k, scope) THEN generation + 1 ELSE purgedAt[k]]
  BY DEF PurgeWith
<1>3. NothingAhead'
  BY <1>1, <1>2 DEF FenceInv, NothingAhead, TypeInv, TypeOK
<1>4. RevisionPinsTable'
  BY <1>1 DEF FenceInv, NothingAhead, RevisionPinsTable, TypeInv, TypeOK
<1>5. EntriesNewerThanPurge' /\ ExpiryWithinLifetime'
  BY <1>1, <1>2 DEF FenceInv, EntriesNewerThanPurge, ExpiryWithinLifetime, TypeInv, TypeOK
<1>6. UNCHANGED installed => EntriesFromInstalledTable'
  BY <1>1 DEF FenceInv, EntriesFromInstalledTable
<1>7. UNCHANGED suspended => SuspendedMeansEmpty'
  BY <1>1 DEF FenceInv, SuspendedMeansEmpty
<1>8. ASSUME scope = Everything
      PROVE  EntriesFromInstalledTable' /\ SuspendedMeansEmpty'
  <2>1. DOMAIN entries' = {}
    BY <1>1, <1>8 DEF Matches, Everything
  <2>2. QED
    BY <1>1, <2>1 DEF EntriesFromInstalledTable, SuspendedMeansEmpty
<1>9. QED
  BY <1>3, <1>4, <1>5, <1>6, <1>7, <1>8

\* Every step preserves the fence.
LEMMA FenceStep == TypeInv /\ FenceInv /\ [Next]_vars => FenceInv'
<1> SUFFICES ASSUME TypeInv, FenceInv, [Next]_vars PROVE FenceInv'
  OBVIOUS
<1>0. TypeOK
  BY DEF TypeInv
<1>1. ASSUME NEW r \in Requests, Arrive(r)
      PROVE  FenceInv'
  <2>1. NothingAhead' /\ RevisionPinsTable'
    BY <1>0, <1>1 DEF FenceInv, NothingAhead, RevisionPinsTable, Arrive, Goto, TypeOK, updateVars
  <2>2. QED
    BY <1>1, <2>1 DEF FenceInv, EntriesFromInstalledTable, EntriesNewerThanPurge,
       ExpiryWithinLifetime, SuspendedMeansEmpty, Arrive, storeVars, updateVars
<1>2. ASSUME NEW r \in Requests, NEW s \in Selections, SelectRoute(r, s[1], s[2])
      PROVE  FenceInv'
  <2>1. NothingAhead' /\ RevisionPinsTable'
    BY <1>0, <1>2 DEF FenceInv, NothingAhead, RevisionPinsTable, SelectRoute, Goto, TypeOK, updateVars
  <2>2. QED
    BY <1>2, <2>1 DEF FenceInv, EntriesFromInstalledTable, EntriesNewerThanPurge,
       ExpiryWithinLifetime, SuspendedMeansEmpty, SelectRoute, storeVars, updateVars
<1>3. ASSUME NEW r \in Requests, NEW a \in Responses, FillStores(r, a)
      PROVE  FenceInv'
  <2>1. key[r] \in Keys
    BY <1>3 DEF FillStores, TypeInv, HoldersHaveKeys
  <2>2. /\ DOMAIN entries' \subseteq DOMAIN entries \cup {key[r]}
        /\ entries'[key[r]] = EntryFor(r, a)
        /\ \A k \in DOMAIN entries' : k # key[r] => entries'[k] = entries[k]
    BY <1>0, <1>3, <2>1, StoreType DEF FillStores
  <2>3. /\ EntryFor(r, a).rev = generation
        /\ EntryFor(r, a).route = installed
        /\ EntryFor(r, a).expiresAt <= EntryFor(r, a).freshUntil
    BY <1>0, <1>3, EntryForProps DEF FillStores, MayStore, EntryFor, FenceInv, RevisionPinsTable
  <2>4. /\ UNCHANGED <<rev, route, generation, suspended, installed, purgedAt>>
        /\ suspended = 0
    BY <1>3 DEF FillStores, MayStore, requestData, updateVars
  <2>5. \A s \in Requests : pc'[s] \in InFlight => pc[s] \in InFlight
    BY <1>0, <1>3, FinishFillType DEF FillStores, InFlight
  <2>6. NothingAhead' /\ RevisionPinsTable'
    BY <2>4, <2>5 DEF FenceInv, NothingAhead, RevisionPinsTable, InFlight
  <2>7. EntriesFromInstalledTable' /\ EntriesNewerThanPurge' /\ ExpiryWithinLifetime'
    BY <2>1, <2>2, <2>3, <2>4 DEF FenceInv, NothingAhead, EntriesFromInstalledTable,
       EntriesNewerThanPurge, ExpiryWithinLifetime
  <2>8. SuspendedMeansEmpty'
    BY <2>4 DEF SuspendedMeansEmpty
  <2>9. QED
    BY <2>6, <2>7, <2>8 DEF FenceInv
<1>4. ASSUME NEW r \in Requests, Abort(r)
      PROVE  FenceInv'
  <2>1. /\ DOMAIN entries' \subseteq DOMAIN entries
        /\ \A k \in DOMAIN entries' : entries'[k] = entries[k]
    BY <1>4 DEF Abort, storeVars
  <2>2. \A s \in Requests : pc'[s] \in InFlight => pc[s] \in InFlight
    BY <1>0, <1>4 DEF Abort, Goto, Bypass, InFlight, TypeOK
  <2>3. suspended = 0 \/ DOMAIN fills' \subseteq DOMAIN fills
    BY <1>4 DEF Abort
  <2>4. UNCHANGED <<rev, route, generation, suspended, installed, purgedAt>>
    BY <1>4 DEF Abort, requestData, updateVars
  <2>5. QED
    BY <2>1, <2>2, <2>3, <2>4, FenceFrame
<1>5. ASSUME NEW r \in Requests, ExecuteRefused(r)
      PROVE  FenceInv'
  <2>1. /\ DOMAIN entries' \subseteq DOMAIN entries
        /\ \A k \in DOMAIN entries' : entries'[k] = entries[k]
    BY <1>5 DEF ExecuteRefused, storeVars
  <2>2. \A s \in Requests : pc'[s] \in InFlight => pc[s] \in InFlight
    BY <1>0, <1>5 DEF ExecuteRefused, Goto, Bypass, InFlight, TypeOK
  <2>3. suspended = 0 \/ DOMAIN fills' \subseteq DOMAIN fills
    BY <1>5 DEF ExecuteRefused
  <2>4. UNCHANGED <<rev, route, generation, suspended, installed, purgedAt>>
    BY <1>5 DEF ExecuteRefused, requestData, updateVars
  <2>5. QED
    BY <2>1, <2>2, <2>3, <2>4, FenceFrame
<1>6. ASSUME NEW r \in Requests, ExecuteHit(r)
      PROVE  FenceInv'
  <2>1. /\ DOMAIN entries' \subseteq DOMAIN entries
        /\ \A k \in DOMAIN entries' : entries'[k] = entries[k]
    BY <1>6 DEF ExecuteHit, Touch
  <2>2. \A s \in Requests : pc'[s] \in InFlight => pc[s] \in InFlight
    BY <1>0, <1>6 DEF ExecuteHit, Goto, Bypass, InFlight, TypeOK
  <2>3. suspended = 0 \/ DOMAIN fills' \subseteq DOMAIN fills
    BY <1>6 DEF ExecuteHit
  <2>4. UNCHANGED <<rev, route, generation, suspended, installed, purgedAt>>
    BY <1>6 DEF ExecuteHit, requestData, updateVars
  <2>5. QED
    BY <2>1, <2>2, <2>3, <2>4, FenceFrame
<1>7. ASSUME NEW r \in Requests, ExecuteUncoordinated(r)
      PROVE  FenceInv'
  <2>1. /\ DOMAIN entries' \subseteq DOMAIN entries
        /\ \A k \in DOMAIN entries' : entries'[k] = entries[k]
    BY <1>0, <1>7, DropStaleType DEF ExecuteUncoordinated
  <2>2. \A s \in Requests : pc'[s] \in InFlight => pc[s] \in InFlight
    BY <1>0, <1>7 DEF ExecuteUncoordinated, Goto, Bypass, InFlight, TypeOK
  <2>3. suspended = 0 \/ DOMAIN fills' \subseteq DOMAIN fills
    BY <1>7 DEF ExecuteUncoordinated
  <2>4. UNCHANGED <<rev, route, generation, suspended, installed, purgedAt>>
    BY <1>7 DEF ExecuteUncoordinated, requestData, updateVars
  <2>5. QED
    BY <2>1, <2>2, <2>3, <2>4, FenceFrame
<1>8. ASSUME NEW r \in Requests, ExecuteCoalesce(r)
      PROVE  FenceInv'
  <2>1. /\ DOMAIN entries' \subseteq DOMAIN entries
        /\ \A k \in DOMAIN entries' : entries'[k] = entries[k]
    BY <1>0, <1>8, DropStaleType DEF ExecuteCoalesce
  <2>2. \A s \in Requests : pc'[s] \in InFlight => pc[s] \in InFlight
    BY <1>0, <1>8 DEF ExecuteCoalesce, Goto, Bypass, InFlight, TypeOK
  <2>3. suspended = 0 \/ DOMAIN fills' \subseteq DOMAIN fills
    BY <1>8 DEF ExecuteCoalesce
  <2>4. UNCHANGED <<rev, route, generation, suspended, installed, purgedAt>>
    BY <1>8 DEF ExecuteCoalesce, requestData, updateVars
  <2>5. QED
    BY <2>1, <2>2, <2>3, <2>4, FenceFrame
<1>9. ASSUME NEW r \in Requests, ExecuteLead(r)
      PROVE  FenceInv'
  <2>1. /\ DOMAIN entries' \subseteq DOMAIN entries
        /\ \A k \in DOMAIN entries' : entries'[k] = entries[k]
    BY <1>0, <1>9, DropStaleType DEF ExecuteLead
  <2>2. \A s \in Requests : pc'[s] \in InFlight => pc[s] \in InFlight
    BY <1>0, <1>9 DEF ExecuteLead, Goto, Bypass, InFlight, TypeOK
  <2>3. suspended = 0 \/ DOMAIN fills' \subseteq DOMAIN fills
    BY <1>9 DEF ExecuteLead, Admitted
  <2>4. UNCHANGED <<rev, route, generation, suspended, installed, purgedAt>>
    BY <1>9 DEF ExecuteLead, requestData, updateVars
  <2>5. QED
    BY <2>1, <2>2, <2>3, <2>4, FenceFrame
<1>10. ASSUME NEW r \in Requests, NEW a \in Responses, FillDiscards(r, a)
      PROVE  FenceInv'
  <2>1. /\ DOMAIN entries' \subseteq DOMAIN entries
        /\ \A k \in DOMAIN entries' : entries'[k] = entries[k]
    BY <1>10 DEF FillDiscards, storeVars
  <2>2. \A s \in Requests : pc'[s] \in InFlight => pc[s] \in InFlight
    BY <1>0, <1>10, FinishFillType DEF FillDiscards, InFlight
  <2>3. suspended = 0 \/ DOMAIN fills' \subseteq DOMAIN fills
    BY <1>0, <1>10, FinishFillType DEF FillDiscards
  <2>4. UNCHANGED <<rev, route, generation, suspended, installed, purgedAt>>
    BY <1>10 DEF FillDiscards, requestData, updateVars
  <2>5. QED
    BY <2>1, <2>2, <2>3, <2>4, FenceFrame
<1>11. ASSUME NEW r \in Requests, FillFails(r)
      PROVE  FenceInv'
  <2>1. /\ DOMAIN entries' \subseteq DOMAIN entries
        /\ \A k \in DOMAIN entries' : entries'[k] = entries[k]
    BY <1>11 DEF FillFails, storeVars
  <2>2. \A s \in Requests : pc'[s] \in InFlight => pc[s] \in InFlight
    BY <1>0, <1>11, FinishFillType DEF FillFails, InFlight
  <2>3. suspended = 0 \/ DOMAIN fills' \subseteq DOMAIN fills
    BY <1>0, <1>11, FinishFillType DEF FillFails
  <2>4. UNCHANGED <<rev, route, generation, suspended, installed, purgedAt>>
    BY <1>11 DEF FillFails, requestData, updateVars
  <2>5. QED
    BY <2>1, <2>2, <2>3, <2>4, FenceFrame
<1>12. ASSUME NEW r \in Requests, WakeHit(r)
      PROVE  FenceInv'
  <2>1. /\ DOMAIN entries' \subseteq DOMAIN entries
        /\ \A k \in DOMAIN entries' : entries'[k] = entries[k]
    BY <1>12 DEF WakeHit, Touch
  <2>2. \A s \in Requests : pc'[s] \in InFlight => pc[s] \in InFlight
    BY <1>0, <1>12 DEF WakeHit, Goto, Bypass, InFlight, TypeOK
  <2>3. suspended = 0 \/ DOMAIN fills' \subseteq DOMAIN fills
    BY <1>12 DEF WakeHit
  <2>4. UNCHANGED <<rev, route, generation, suspended, installed, purgedAt>>
    BY <1>12 DEF WakeHit, requestData, updateVars
  <2>5. QED
    BY <2>1, <2>2, <2>3, <2>4, FenceFrame
<1>13. ASSUME NEW r \in Requests, WakeMiss(r)
      PROVE  FenceInv'
  <2>1. /\ DOMAIN entries' \subseteq DOMAIN entries
        /\ \A k \in DOMAIN entries' : entries'[k] = entries[k]
    BY <1>0, <1>13, DropStaleType DEF WakeMiss
  <2>2. \A s \in Requests : pc'[s] \in InFlight => pc[s] \in InFlight
    BY <1>0, <1>13 DEF WakeMiss, Goto, Bypass, InFlight, TypeOK
  <2>3. suspended = 0 \/ DOMAIN fills' \subseteq DOMAIN fills
    BY <1>13 DEF WakeMiss
  <2>4. UNCHANGED <<rev, route, generation, suspended, installed, purgedAt>>
    BY <1>13 DEF WakeMiss, requestData, updateVars
  <2>5. QED
    BY <2>1, <2>2, <2>3, <2>4, FenceFrame
<1>14. ASSUME NEW r \in Requests, WakeFenced(r)
      PROVE  FenceInv'
  <2>1. /\ DOMAIN entries' \subseteq DOMAIN entries
        /\ \A k \in DOMAIN entries' : entries'[k] = entries[k]
    BY <1>14 DEF WakeFenced, storeVars
  <2>2. \A s \in Requests : pc'[s] \in InFlight => pc[s] \in InFlight
    BY <1>0, <1>14 DEF WakeFenced, Goto, Bypass, InFlight, TypeOK
  <2>3. suspended = 0 \/ DOMAIN fills' \subseteq DOMAIN fills
    BY <1>14 DEF WakeFenced
  <2>4. UNCHANGED <<rev, route, generation, suspended, installed, purgedAt>>
    BY <1>14 DEF WakeFenced, requestData, updateVars
  <2>5. QED
    BY <2>1, <2>2, <2>3, <2>4, FenceFrame
<1>15. ASSUME NEW r \in Requests, Detach(r)
      PROVE  FenceInv'
  <2>1. /\ DOMAIN entries' \subseteq DOMAIN entries
        /\ \A k \in DOMAIN entries' : entries'[k] = entries[k]
    BY <1>15 DEF Detach, storeVars
  <2>2. \A s \in Requests : pc'[s] \in InFlight => pc[s] \in InFlight
    BY <1>0, <1>15 DEF Detach, Goto, Bypass, InFlight, TypeOK
  <2>3. suspended = 0 \/ DOMAIN fills' \subseteq DOMAIN fills
    BY <1>15 DEF Detach
  <2>4. UNCHANGED <<rev, route, generation, suspended, installed, purgedAt>>
    BY <1>15 DEF Detach, requestData, updateVars
  <2>5. QED
    BY <2>1, <2>2, <2>3, <2>4, FenceFrame
<1>16. ASSUME NEW r \in Requests, BypassSettles(r)
      PROVE  FenceInv'
  <2>1. /\ DOMAIN entries' \subseteq DOMAIN entries
        /\ \A k \in DOMAIN entries' : entries'[k] = entries[k]
    BY <1>16 DEF BypassSettles, storeVars
  <2>2. \A s \in Requests : pc'[s] \in InFlight => pc[s] \in InFlight
    BY <1>0, <1>16 DEF BypassSettles, Goto, Bypass, InFlight, TypeOK
  <2>3. suspended = 0 \/ DOMAIN fills' \subseteq DOMAIN fills
    BY <1>16 DEF BypassSettles
  <2>4. UNCHANGED <<rev, route, generation, suspended, installed, purgedAt>>
    BY <1>16 DEF BypassSettles, requestData, updateVars
  <2>5. QED
    BY <2>1, <2>2, <2>3, <2>4, FenceFrame
<1>17. ASSUME NEW u \in Updates, SnapshotPut(u)
      PROVE  FenceInv'
  <2>1. PurgeWith(Everything) /\ UNCHANGED <<rev, route>>
    BY <1>17 DEF SnapshotPut, requestData
  <2>2. QED
    BY <2>1, FencePurge DEF FenceInv
<1>18. ASSUME NEW u \in Updates, SnapshotDone(u)
      PROVE  FenceInv'
  <2>1. PurgeWith(Everything) /\ UNCHANGED <<rev, route>>
    BY <1>18 DEF SnapshotDone, requestData
  <2>2. QED
    BY <2>1, FencePurge DEF FenceInv
<1>19. ASSUME NEW scope \in Scope, Purge(scope)
      PROVE  FenceInv'
  <2>1. PurgeWith(scope) /\ UNCHANGED <<rev, route>>
    BY <1>19 DEF Purge, requestData
  <2>2. UNCHANGED <<installed, suspended>>
    BY <1>19 DEF Purge
  <2>3. QED
    BY <2>1, <2>2, FencePurge DEF FenceInv
<1>20. CASE Tick
  BY <1>20, FenceFrame DEF Tick, InFlight, requestData, storeVars, updateVars
<1>21. CASE UNCHANGED vars
  BY <1>21, FenceFrame DEF vars, InFlight, requestData, storeVars, updateVars
<1>22. QED
  BY <1>1, <1>2, <1>3, <1>4, <1>5, <1>6, <1>7, <1>8, <1>9, <1>10, <1>11, <1>12, <1>13, <1>14, <1>15, <1>16, <1>17, <1>18, <1>19, <1>20, <1>21
  DEF Next, Continue, Quiet

-----------------------------------------------------------------------------
(* Coalescing: fills, their leaders and their waiters.                     *)

\* A step that starts or ends no fill and lets no request wait preserves the
\* bookkeeping of fills.
LEMMA FillFrame ==
  ASSUME TypeInv, FillInv,
         UNCHANGED <<fills, generation>>,
         \A r \in Requests : (pc'[r] = "filling") <=> (pc[r] = "filling"),
         \A r \in Requests : pc'[r] = "waiting" => pc[r] = "waiting",
         \A r \in Requests : pc[r] \in {"filling", "waiting"} =>
            key'[r] = key[r] /\ rev'[r] = rev[r] /\ leader'[r] = leader[r]
  PROVE  FillInv'
<1>1. \A k \in DOMAIN fills : fills[k] \in Requests
  BY DEF TypeInv, TypeOK
<1>2. \A r \in Requests : leader[r] \in Requests
  BY DEF TypeInv, TypeOK
<1>3. FillsAreCurrent'
  BY <1>1 DEF FillInv, FillsAreCurrent
<1>4. WaitersAttached'
  BY <1>2 DEF FillInv, WaitersAttached
<1>5. SingleFlight'
  BY DEF FillInv, SingleFlight
<1>6. QED
  BY <1>3, <1>4, <1>5 DEF FillInv

\* A purge settles every registered fill, so nobody is left waiting.
LEMMA FillPurge ==
  ASSUME TypeInv, FenceInv, FillInv, NEW scope, PurgeWith(scope),
         UNCHANGED <<rev, key, leader>>
  PROVE  FillInv'
<1>1. generation' = generation + 1 /\ DOMAIN fills' = {} /\ generation \in Nat
  BY PurgeType DEF TypeInv, TypeOK
<1>2. \A r \in Requests : pc'[r] = IF pc[r] = "waiting" /\ leader[r] \in {fills[k] : k \in DOMAIN fills}
                                  THEN "wokenEmpty" ELSE pc[r]
  BY DEF PurgeWith, Woken
<1>3. \A r \in Requests : pc'[r] # "waiting"
  BY <1>2 DEF FillInv, WaitersAttached
<1>4. \A r \in Requests : (pc'[r] = "filling") <=> (pc[r] = "filling")
  BY <1>2
<1>5. \A r \in Requests : rev'[r] # generation'
  BY <1>1 DEF FenceInv, NothingAhead, TypeInv, TypeOK
<1>6. FillsAreCurrent' /\ WaitersAttached' /\ SingleFlight'
  BY <1>1, <1>3, <1>4, <1>5 DEF FillInv, FillsAreCurrent, WaitersAttached, SingleFlight
<1>7. QED
  BY <1>6 DEF FillInv

\* A leader that ends takes exactly its own waiters with it.
LEMMA FillFinish ==
  ASSUME TypeInv, FillInv, NEW r \in Requests, NEW stored \in BOOLEAN,
         NEW status \in Answered, pc[r] = "filling", FinishFill(r, stored, status),
         UNCHANGED <<rev, key, leader, generation>>
  PROVE  FillInv'
<1>1. /\ pc'[r] = status
      /\ \A s \in Requests \ {r} :
           pc'[s] = IF pc[s] = "waiting" /\ leader[s] = r
                    THEN IF stored THEN "wokenStored" ELSE "wokenEmpty"
                    ELSE pc[s]
      /\ DOMAIN fills' = {k \in DOMAIN fills : fills[k] # r}
      /\ \A k \in DOMAIN fills' : fills'[k] = fills[k]
  BY FinishFillType DEF TypeInv
<1>2. /\ \A k \in DOMAIN fills : fills[k] \in Requests
      /\ \A s \in Requests : leader[s] \in Requests
  BY DEF TypeInv, TypeOK
<1>3. \A s \in Requests : (pc'[s] = "filling") <=> (pc[s] = "filling" /\ s # r)
  BY <1>1
<1>4. \A s \in Requests : pc'[s] = "waiting" => pc[s] = "waiting" /\ leader[s] # r
  BY <1>1
<1>5. FillsAreCurrent'
  BY <1>1, <1>2, <1>3 DEF FillInv, FillsAreCurrent
<1>6. WaitersAttached'
  BY <1>1, <1>2, <1>3, <1>4 DEF FillInv, WaitersAttached
<1>7. SingleFlight'
  BY <1>3 DEF FillInv, SingleFlight
<1>8. QED
  BY <1>5, <1>6, <1>7 DEF FillInv

\* Every step preserves the bookkeeping of fills.
LEMMA FillStep == TypeInv /\ FenceInv /\ FillInv /\ [Next]_vars => FillInv'
<1> SUFFICES ASSUME TypeInv, FenceInv, FillInv, [Next]_vars PROVE FillInv'
  OBVIOUS
<1>0. TypeOK
  BY DEF TypeInv
<1>1. ASSUME NEW r \in Requests, Arrive(r)
      PROVE  FillInv'
  <2>1. \A q \in Requests :
          /\ (pc'[q] = "filling") <=> (pc[q] = "filling")
          /\ pc'[q] = "waiting" => pc[q] = "waiting"
          /\ pc[q] \in {"filling", "waiting"} =>
               key'[q] = key[q] /\ rev'[q] = rev[q] /\ leader'[q] = leader[q]
    BY <1>0, <1>1 DEF Arrive, Goto, Bypass, TypeOK, requestData
  <2>2. UNCHANGED <<fills, generation>>
    BY <1>1 DEF Arrive, updateVars
  <2>3. QED
    BY <2>1, <2>2, FillFrame
<1>2. ASSUME NEW r \in Requests, NEW s \in Selections, SelectRoute(r, s[1], s[2])
      PROVE  FillInv'
  <2>1. \A q \in Requests :
          /\ (pc'[q] = "filling") <=> (pc[q] = "filling")
          /\ pc'[q] = "waiting" => pc[q] = "waiting"
          /\ pc[q] \in {"filling", "waiting"} =>
               key'[q] = key[q] /\ rev'[q] = rev[q] /\ leader'[q] = leader[q]
    BY <1>0, <1>2 DEF SelectRoute, Goto, Bypass, TypeOK, requestData
  <2>2. UNCHANGED <<fills, generation>>
    BY <1>2 DEF SelectRoute, updateVars
  <2>3. QED
    BY <2>1, <2>2, FillFrame
<1>3. ASSUME NEW r \in Requests, Abort(r)
      PROVE  FillInv'
  <2>1. \A q \in Requests :
          /\ (pc'[q] = "filling") <=> (pc[q] = "filling")
          /\ pc'[q] = "waiting" => pc[q] = "waiting"
          /\ pc[q] \in {"filling", "waiting"} =>
               key'[q] = key[q] /\ rev'[q] = rev[q] /\ leader'[q] = leader[q]
    BY <1>0, <1>3 DEF Abort, Goto, Bypass, TypeOK, requestData
  <2>2. UNCHANGED <<fills, generation>>
    BY <1>3 DEF Abort, updateVars
  <2>3. QED
    BY <2>1, <2>2, FillFrame
<1>4. ASSUME NEW r \in Requests, ExecuteRefused(r)
      PROVE  FillInv'
  <2>1. \A q \in Requests :
          /\ (pc'[q] = "filling") <=> (pc[q] = "filling")
          /\ pc'[q] = "waiting" => pc[q] = "waiting"
          /\ pc[q] \in {"filling", "waiting"} =>
               key'[q] = key[q] /\ rev'[q] = rev[q] /\ leader'[q] = leader[q]
    BY <1>0, <1>4 DEF ExecuteRefused, Goto, Bypass, TypeOK, requestData
  <2>2. UNCHANGED <<fills, generation>>
    BY <1>4 DEF ExecuteRefused, updateVars
  <2>3. QED
    BY <2>1, <2>2, FillFrame
<1>5. ASSUME NEW r \in Requests, ExecuteHit(r)
      PROVE  FillInv'
  <2>1. \A q \in Requests :
          /\ (pc'[q] = "filling") <=> (pc[q] = "filling")
          /\ pc'[q] = "waiting" => pc[q] = "waiting"
          /\ pc[q] \in {"filling", "waiting"} =>
               key'[q] = key[q] /\ rev'[q] = rev[q] /\ leader'[q] = leader[q]
    BY <1>0, <1>5 DEF ExecuteHit, Goto, Bypass, TypeOK, requestData
  <2>2. UNCHANGED <<fills, generation>>
    BY <1>5 DEF ExecuteHit, updateVars
  <2>3. QED
    BY <2>1, <2>2, FillFrame
<1>6. ASSUME NEW r \in Requests, ExecuteUncoordinated(r)
      PROVE  FillInv'
  <2>1. \A q \in Requests :
          /\ (pc'[q] = "filling") <=> (pc[q] = "filling")
          /\ pc'[q] = "waiting" => pc[q] = "waiting"
          /\ pc[q] \in {"filling", "waiting"} =>
               key'[q] = key[q] /\ rev'[q] = rev[q] /\ leader'[q] = leader[q]
    BY <1>0, <1>6 DEF ExecuteUncoordinated, Goto, Bypass, TypeOK, requestData
  <2>2. UNCHANGED <<fills, generation>>
    BY <1>6 DEF ExecuteUncoordinated, updateVars
  <2>3. QED
    BY <2>1, <2>2, FillFrame
<1>7. ASSUME NEW r \in Requests, WakeHit(r)
      PROVE  FillInv'
  <2>1. \A q \in Requests :
          /\ (pc'[q] = "filling") <=> (pc[q] = "filling")
          /\ pc'[q] = "waiting" => pc[q] = "waiting"
          /\ pc[q] \in {"filling", "waiting"} =>
               key'[q] = key[q] /\ rev'[q] = rev[q] /\ leader'[q] = leader[q]
    BY <1>0, <1>7 DEF WakeHit, Goto, Bypass, TypeOK, requestData
  <2>2. UNCHANGED <<fills, generation>>
    BY <1>7 DEF WakeHit, updateVars
  <2>3. QED
    BY <2>1, <2>2, FillFrame
<1>8. ASSUME NEW r \in Requests, WakeMiss(r)
      PROVE  FillInv'
  <2>1. \A q \in Requests :
          /\ (pc'[q] = "filling") <=> (pc[q] = "filling")
          /\ pc'[q] = "waiting" => pc[q] = "waiting"
          /\ pc[q] \in {"filling", "waiting"} =>
               key'[q] = key[q] /\ rev'[q] = rev[q] /\ leader'[q] = leader[q]
    BY <1>0, <1>8 DEF WakeMiss, Goto, Bypass, TypeOK, requestData
  <2>2. UNCHANGED <<fills, generation>>
    BY <1>8 DEF WakeMiss, updateVars
  <2>3. QED
    BY <2>1, <2>2, FillFrame
<1>9. ASSUME NEW r \in Requests, WakeFenced(r)
      PROVE  FillInv'
  <2>1. \A q \in Requests :
          /\ (pc'[q] = "filling") <=> (pc[q] = "filling")
          /\ pc'[q] = "waiting" => pc[q] = "waiting"
          /\ pc[q] \in {"filling", "waiting"} =>
               key'[q] = key[q] /\ rev'[q] = rev[q] /\ leader'[q] = leader[q]
    BY <1>0, <1>9 DEF WakeFenced, Goto, Bypass, TypeOK, requestData
  <2>2. UNCHANGED <<fills, generation>>
    BY <1>9 DEF WakeFenced, updateVars
  <2>3. QED
    BY <2>1, <2>2, FillFrame
<1>10. ASSUME NEW r \in Requests, Detach(r)
      PROVE  FillInv'
  <2>1. \A q \in Requests :
          /\ (pc'[q] = "filling") <=> (pc[q] = "filling")
          /\ pc'[q] = "waiting" => pc[q] = "waiting"
          /\ pc[q] \in {"filling", "waiting"} =>
               key'[q] = key[q] /\ rev'[q] = rev[q] /\ leader'[q] = leader[q]
    BY <1>0, <1>10 DEF Detach, Goto, Bypass, TypeOK, requestData
  <2>2. UNCHANGED <<fills, generation>>
    BY <1>10 DEF Detach, updateVars
  <2>3. QED
    BY <2>1, <2>2, FillFrame
<1>11. ASSUME NEW r \in Requests, BypassSettles(r)
      PROVE  FillInv'
  <2>1. \A q \in Requests :
          /\ (pc'[q] = "filling") <=> (pc[q] = "filling")
          /\ pc'[q] = "waiting" => pc[q] = "waiting"
          /\ pc[q] \in {"filling", "waiting"} =>
               key'[q] = key[q] /\ rev'[q] = rev[q] /\ leader'[q] = leader[q]
    BY <1>0, <1>11 DEF BypassSettles, Goto, Bypass, TypeOK, requestData
  <2>2. UNCHANGED <<fills, generation>>
    BY <1>11 DEF BypassSettles, updateVars
  <2>3. QED
    BY <2>1, <2>2, FillFrame
<1>12. ASSUME NEW r \in Requests, ExecuteCoalesce(r)
      PROVE  FillInv'
  <2>1. /\ pc' = [pc EXCEPT ![r] = "waiting"] /\ pc[r] = "selected"
        /\ leader' = [leader EXCEPT ![r] = fills[key[r]]]
        /\ key[r] \in DOMAIN fills
        /\ UNCHANGED <<fills, generation, key, rev>>
    BY <1>12 DEF ExecuteCoalesce, Filling, Goto, updateVars
  <2>2. /\ \A k \in DOMAIN fills : fills[k] \in Requests
        /\ \A q \in Requests : leader[q] \in Requests
        /\ pc \in [Requests -> Places] /\ leader \in [Requests -> Requests]
    BY <1>0 DEF TypeOK
  <2>3. \A q \in Requests : (pc'[q] = "filling") <=> (pc[q] = "filling")
    BY <2>1, <2>2
  <2>4. FillsAreCurrent' /\ SingleFlight'
    BY <2>1, <2>2, <2>3 DEF FillInv, FillsAreCurrent, SingleFlight
  <2>5. WaitersAttached'
    <3> SUFFICES ASSUME NEW q \in Requests, pc'[q] = "waiting"
                 PROVE  /\ key'[q] \in DOMAIN fills'
                        /\ fills'[key'[q]] = leader'[q]
                        /\ pc'[leader'[q]] = "filling"
      BY DEF WaitersAttached
    <3>1. CASE q = r
      BY <2>1, <2>2, <2>3, <3>1 DEF FillInv, FillsAreCurrent
    <3>2. CASE q # r
      BY <2>1, <2>2, <2>3, <3>2 DEF FillInv, WaitersAttached
    <3>3. QED
      BY <3>1, <3>2
  <2>6. QED
    BY <2>4, <2>5 DEF FillInv
<1>13. ASSUME NEW r \in Requests, ExecuteLead(r)
      PROVE  FillInv'
  <2>1. /\ pc' = [pc EXCEPT ![r] = "filling"] /\ pc[r] = "selected"
        /\ key[r] \notin DOMAIN fills
        /\ rev[r] = generation
        /\ fills' = [k \in DOMAIN fills \cup {key[r]} |-> IF k = key[r] THEN r ELSE fills[k]]
        /\ UNCHANGED <<generation, key, rev, leader>>
    BY <1>13 DEF ExecuteLead, Admitted, Filling, Goto, updateVars
  <2>2. /\ \A k \in DOMAIN fills : fills[k] \in Requests
        /\ \A q \in Requests : leader[q] \in Requests
        /\ pc \in [Requests -> Places]
    BY <1>0 DEF TypeOK
  <2>3. \A q \in Requests : (pc'[q] = "filling") <=> (pc[q] = "filling" \/ q = r)
    BY <2>1, <2>2
  <2>4. \A q \in Requests : pc'[q] = "waiting" => pc[q] = "waiting" /\ q # r
    BY <2>1, <2>2
  <2>5. FillsAreCurrent'
    BY <2>1, <2>2, <2>3 DEF FillInv, FillsAreCurrent
  <2>6. WaitersAttached'
    BY <2>1, <2>2, <2>3, <2>4 DEF FillInv, WaitersAttached
  <2>7. SingleFlight'
    BY <2>1, <2>2, <2>3 DEF FillInv, FillsAreCurrent, SingleFlight
  <2>8. QED
    BY <2>5, <2>6, <2>7 DEF FillInv
<1>14. ASSUME NEW r \in Requests, NEW a \in Responses, FillStores(r, a)
      PROVE  FillInv'
  <2>1. /\ pc[r] = "filling" /\ FinishFill(r, TRUE, "MISS")
        /\ UNCHANGED <<rev, key, leader, generation>>
    BY <1>14 DEF FillStores, requestData, updateVars
  <2>2. QED
    BY <2>1, FillFinish
<1>15. ASSUME NEW r \in Requests, NEW a \in Responses, FillDiscards(r, a)
      PROVE  FillInv'
  <2>1. /\ pc[r] = "filling" /\ FinishFill(r, FALSE, "MISS")
        /\ UNCHANGED <<rev, key, leader, generation>>
    BY <1>15 DEF FillDiscards, requestData, updateVars
  <2>2. QED
    BY <2>1, FillFinish
<1>16. ASSUME NEW r \in Requests, FillFails(r)
      PROVE  FillInv'
  <2>1. /\ pc[r] = "filling" /\ FinishFill(r, FALSE, "error")
        /\ UNCHANGED <<rev, key, leader, generation>>
    BY <1>16 DEF FillFails, requestData, updateVars
  <2>2. QED
    BY <2>1, FillFinish
<1>17. ASSUME NEW u \in Updates, SnapshotPut(u)
      PROVE  FillInv'
  <2>1. PurgeWith(Everything) /\ UNCHANGED <<rev, key, leader>>
    BY <1>17 DEF SnapshotPut, requestData
  <2>2. QED
    BY <2>1, FillPurge
<1>18. ASSUME NEW u \in Updates, SnapshotDone(u)
      PROVE  FillInv'
  <2>1. PurgeWith(Everything) /\ UNCHANGED <<rev, key, leader>>
    BY <1>18 DEF SnapshotDone, requestData
  <2>2. QED
    BY <2>1, FillPurge
<1>19. ASSUME NEW scope \in Scope, Purge(scope)
      PROVE  FillInv'
  <2>1. PurgeWith(scope) /\ UNCHANGED <<rev, key, leader>>
    BY <1>19 DEF Purge, requestData
  <2>2. QED
    BY <2>1, FillPurge
<1>20. CASE Tick
  BY <1>20, FillFrame DEF Tick, requestData, updateVars
<1>21. CASE UNCHANGED vars
  BY <1>21, FillFrame DEF vars, requestData, updateVars
<1>22. QED
  BY <1>1, <1>2, <1>3, <1>4, <1>5, <1>6, <1>7, <1>8, <1>9, <1>10, <1>11, <1>12, <1>13, <1>14, <1>15, <1>16, <1>17, <1>18, <1>19, <1>20, <1>21
  DEF Next, Continue, Quiet

-----------------------------------------------------------------------------
(* The pending budget.                                                     *)

Holders == {r \in Requests : pc[r] \in Holding}

\* The budget follows the set of holders: unchanged, one more, one less.
LEMMA PendingCount ==
  ASSUME TypeInv, PendingExact
  PROVE  /\ Holders' = Holders /\ pending' = pending => PendingExact'
         /\ \A r \in Requests :
              /\ pc[r] \notin Holding /\ Holders' = Holders \cup {r}
              /\ pending < MaxPending /\ pending' = pending + 1
              => PendingExact'
         /\ \A r \in Requests :
              /\ pc[r] \in Holding /\ Holders' = Holders \ {r}
              /\ pending' = pending - 1
              => PendingExact'
<1>1. /\ IsFiniteSet(Holders) /\ Cardinality(Holders) \in Nat
      /\ pending = Cardinality(Holders) /\ pending <= MaxPending
  BY ConfigAssumption, FS_Subset, FS_CardinalityType DEF Holders, PendingExact
<1>2. PendingExact' <=> pending' = Cardinality(Holders') /\ pending' <= MaxPending
  BY DEF PendingExact, Holders
<1>3. MaxPending \in Nat
  BY ConfigAssumption
<1>4. \A r \in Requests : r \in Holders <=> pc[r] \in Holding
  BY DEF Holders
<1>5. Holders' = Holders /\ pending' = pending => PendingExact'
  BY <1>1, <1>2
<1>6. ASSUME NEW r \in Requests, pc[r] \notin Holding, Holders' = Holders \cup {r},
             pending < MaxPending, pending' = pending + 1
      PROVE  PendingExact'
  <2>1. Cardinality(Holders \cup {r}) = Cardinality(Holders) + 1
    BY <1>1, <1>4, <1>6, FS_AddElement
  <2>2. QED
    BY <1>1, <1>2, <1>3, <1>6, <2>1
<1>7. ASSUME NEW r \in Requests, pc[r] \in Holding, Holders' = Holders \ {r},
             pending' = pending - 1
      PROVE  PendingExact'
  <2>1. Cardinality(Holders \ {r}) = Cardinality(Holders) - 1
    BY <1>1, <1>4, <1>7, FS_RemoveElement
  <2>2. QED
    BY <1>1, <1>2, <1>3, <1>7, <2>1
<1>8. QED
  BY <1>5, <1>6, <1>7

\* A purge moves waiters, it does not let them go.
LEMMA PendingPurge ==
  ASSUME TypeInv, PendingExact, NEW scope, PurgeWith(scope), UNCHANGED pending
  PROVE  PendingExact'
<1>1. Holders' = Holders
  BY DEF PurgeWith, Woken, Holders
<1>2. QED
  BY <1>1, PendingCount

\* A leader that ends gives back its own unit and no other.
LEMMA PendingFinish ==
  ASSUME TypeInv, PendingExact, NEW r \in Requests, NEW stored \in BOOLEAN,
         NEW status \in Answered, pc[r] = "filling", FinishFill(r, stored, status)
  PROVE  PendingExact'
<1>1. /\ pc'[r] = status
      /\ \A s \in Requests \ {r} :
           pc'[s] = IF pc[s] = "waiting" /\ leader[s] = r
                    THEN IF stored THEN "wokenStored" ELSE "wokenEmpty"
                    ELSE pc[s]
      /\ pending' = pending - 1
  BY FinishFillType DEF TypeInv
<1>2. Holders' = Holders \ {r}
  BY <1>1 DEF Holders
<1>3. QED
  BY <1>1, <1>2, PendingCount

\* Every step keeps the budget exact.
LEMMA PendingStep == TypeInv /\ PendingExact /\ [Next]_vars => PendingExact'
<1> SUFFICES ASSUME TypeInv, PendingExact, [Next]_vars PROVE PendingExact'
  OBVIOUS
<1>0. TypeOK
  BY DEF TypeInv
<1>1. ASSUME NEW r \in Requests, Arrive(r)
      PROVE  PendingExact'
  <2>1. Holders' = Holders /\ pending' = pending
    BY <1>0, <1>1 DEF Arrive, Goto, Bypass, Holders, TypeOK
  <2>2. QED
    BY <2>1, PendingCount
<1>2. ASSUME NEW r \in Requests, NEW s \in Selections, SelectRoute(r, s[1], s[2])
      PROVE  PendingExact'
  <2>1. Holders' = Holders /\ pending' = pending
    BY <1>0, <1>2 DEF SelectRoute, Goto, Bypass, Holders, TypeOK
  <2>2. QED
    BY <2>1, PendingCount
<1>3. ASSUME NEW r \in Requests, Abort(r)
      PROVE  PendingExact'
  <2>1. Holders' = Holders /\ pending' = pending
    BY <1>0, <1>3 DEF Abort, Goto, Bypass, Holders, TypeOK
  <2>2. QED
    BY <2>1, PendingCount
<1>4. ASSUME NEW r \in Requests, ExecuteRefused(r)
      PROVE  PendingExact'
  <2>1. Holders' = Holders /\ pending' = pending
    BY <1>0, <1>4 DEF ExecuteRefused, Goto, Bypass, Holders, TypeOK
  <2>2. QED
    BY <2>1, PendingCount
<1>5. ASSUME NEW r \in Requests, ExecuteHit(r)
      PROVE  PendingExact'
  <2>1. Holders' = Holders /\ pending' = pending
    BY <1>0, <1>5 DEF ExecuteHit, Goto, Bypass, Holders, TypeOK
  <2>2. QED
    BY <2>1, PendingCount
<1>6. ASSUME NEW r \in Requests, ExecuteUncoordinated(r)
      PROVE  PendingExact'
  <2>1. Holders' = Holders /\ pending' = pending
    BY <1>0, <1>6 DEF ExecuteUncoordinated, Goto, Bypass, Holders, TypeOK
  <2>2. QED
    BY <2>1, PendingCount
<1>7. ASSUME NEW r \in Requests, BypassSettles(r)
      PROVE  PendingExact'
  <2>1. Holders' = Holders /\ pending' = pending
    BY <1>0, <1>7 DEF BypassSettles, Goto, Bypass, Holders, TypeOK
  <2>2. QED
    BY <2>1, PendingCount
<1>8. ASSUME NEW r \in Requests, ExecuteCoalesce(r)
      PROVE  PendingExact'
  <2>1. /\ pc[r] \notin Holding /\ Holders' = Holders \cup {r}
        /\ pending < MaxPending /\ pending' = pending + 1
    BY <1>0, <1>8 DEF ExecuteCoalesce, Goto, Bypass, Holders, TypeOK
  <2>2. QED
    BY <2>1, PendingCount
<1>9. ASSUME NEW r \in Requests, ExecuteLead(r)
      PROVE  PendingExact'
  <2>1. /\ pc[r] \notin Holding /\ Holders' = Holders \cup {r}
        /\ pending < MaxPending /\ pending' = pending + 1
    BY <1>0, <1>9 DEF ExecuteLead, Goto, Bypass, Holders, TypeOK
  <2>2. QED
    BY <2>1, PendingCount
<1>10. ASSUME NEW r \in Requests, WakeHit(r)
      PROVE  PendingExact'
  <2>1. /\ pc[r] \in Holding /\ Holders' = Holders \ {r}
        /\ pending' = pending - 1
    BY <1>0, <1>10 DEF WakeHit, Goto, Bypass, Holders, TypeOK
  <2>2. QED
    BY <2>1, PendingCount
<1>11. ASSUME NEW r \in Requests, WakeMiss(r)
      PROVE  PendingExact'
  <2>1. /\ pc[r] \in Holding /\ Holders' = Holders \ {r}
        /\ pending' = pending - 1
    BY <1>0, <1>11 DEF WakeMiss, Goto, Bypass, Holders, TypeOK
  <2>2. QED
    BY <2>1, PendingCount
<1>12. ASSUME NEW r \in Requests, WakeFenced(r)
      PROVE  PendingExact'
  <2>1. /\ pc[r] \in Holding /\ Holders' = Holders \ {r}
        /\ pending' = pending - 1
    BY <1>0, <1>12 DEF WakeFenced, Goto, Bypass, Holders, TypeOK
  <2>2. QED
    BY <2>1, PendingCount
<1>13. ASSUME NEW r \in Requests, Detach(r)
      PROVE  PendingExact'
  <2>1. /\ pc[r] \in Holding /\ Holders' = Holders \ {r}
        /\ pending' = pending - 1
    BY <1>0, <1>13 DEF Detach, Goto, Bypass, Holders, TypeOK
  <2>2. QED
    BY <2>1, PendingCount
<1>14. ASSUME NEW r \in Requests, NEW a \in Responses, FillStores(r, a)
      PROVE  PendingExact'
  <2>1. pc[r] = "filling" /\ FinishFill(r, TRUE, "MISS")
    BY <1>14 DEF FillStores
  <2>2. QED
    BY <2>1, PendingFinish
<1>15. ASSUME NEW r \in Requests, NEW a \in Responses, FillDiscards(r, a)
      PROVE  PendingExact'
  <2>1. pc[r] = "filling" /\ FinishFill(r, FALSE, "MISS")
    BY <1>15 DEF FillDiscards
  <2>2. QED
    BY <2>1, PendingFinish
<1>16. ASSUME NEW r \in Requests, FillFails(r)
      PROVE  PendingExact'
  <2>1. pc[r] = "filling" /\ FinishFill(r, FALSE, "error")
    BY <1>16 DEF FillFails
  <2>2. QED
    BY <2>1, PendingFinish
<1>17. ASSUME NEW u \in Updates, SnapshotPut(u)
      PROVE  PendingExact'
  BY <1>17, PendingPurge DEF SnapshotPut
<1>18. ASSUME NEW u \in Updates, SnapshotDone(u)
      PROVE  PendingExact'
  BY <1>18, PendingPurge DEF SnapshotDone
<1>19. ASSUME NEW scope \in Scope, Purge(scope)
      PROVE  PendingExact'
  BY <1>19, PendingPurge DEF Purge
<1>20. CASE Tick
  BY <1>20, PendingCount DEF Tick, Holders
<1>21. CASE UNCHANGED vars
  BY <1>21, PendingCount DEF vars, Holders
<1>22. QED
  BY <1>1, <1>2, <1>3, <1>4, <1>5, <1>6, <1>7, <1>8, <1>9, <1>10, <1>11, <1>12, <1>13, <1>14, <1>15, <1>16, <1>17, <1>18, <1>19, <1>20, <1>21
  DEF Next, Continue, Quiet

-----------------------------------------------------------------------------
(* The theorems.                                                           *)

\* The inductive invariant holds in every reachable state.
LEMMA Invariance == Spec => []IInv
<1>1. Init => IInv
  <2> SUFFICES ASSUME Init PROVE IInv
    OBVIOUS
  <2>1. TypeInv
    BY TypeInit
  <2>2. FenceInv
    BY DEF Init, FenceInv, NothingAhead, RevisionPinsTable, EntriesFromInstalledTable,
           EntriesNewerThanPurge, ExpiryWithinLifetime, SuspendedMeansEmpty
  <2>3. FillInv
    BY DEF Init, FillInv, FillsAreCurrent, WaitersAttached, SingleFlight
  <2>4. PendingExact
    <3>1. {r \in Requests : pc[r] \in Holding} = {}
      BY DEF Init
    <3>2. pending = 0 /\ 0 <= MaxPending
      BY ConfigAssumption DEF Init
    <3>3. QED
      BY <3>1, <3>2, FS_EmptySet DEF PendingExact
  <2>5. QED
    BY <2>1, <2>2, <2>3, <2>4 DEF IInv
<1>2. IInv /\ [Next]_vars => IInv'
  BY TypeStep, FenceStep, FillStep, PendingStep DEF IInv
<1>3. QED
  BY <1>1, <1>2, PTL DEF Spec

\* However requests, purges and snapshot updates interleave, the cache holds
\* only responses produced under the installed route table and requested after
\* the last purge of their key, and nothing at all during an update.
THEOREM CacheIsFenced == Spec => []CacheFenced
<1>1. IInv => CacheFenced
  BY DEF IInv, FenceInv, CacheFenced
<1>2. QED
  BY <1>1, Invariance, PTL

\* Coalescing loses no wake-up, starts no second invocation of a key in a
\* generation, and the pending budget counts its leaders and waiters exactly.
THEOREM CoalescingIsSound == Spec => []CoalescingExact
<1>1. IInv => CoalescingExact
  BY DEF IInv, FillInv, CoalescingExact
<1>2. QED
  BY <1>1, Invariance, PTL

\* A step that answers a request from the store uses a current response.
LEMMA HitStep ==
  ASSUME IInv, [Next]_vars, NEW r \in Requests, ServedFromStore(r)
  PROVE  /\ key[r] \in DOMAIN entries
         /\ entries[key[r]].route = route[r]
         /\ entries[key[r]].rev >= purgedAt[key[r]]
         /\ now < entries[key[r]].freshUntil
<1>0. TypeOK /\ TypeInv
  BY DEF IInv, TypeInv
<1>1. ExecuteHit(r) \/ WakeHit(r)
  <2>1. ASSUME NEW q \in Requests,
               \/ Arrive(q) \/ Abort(q)
               \/ \E s \in Selections : SelectRoute(q, s[1], s[2])
               \/ ExecuteRefused(q) \/ ExecuteUncoordinated(q) \/ ExecuteCoalesce(q)
               \/ ExecuteLead(q) \/ WakeMiss(q) \/ WakeFenced(q) \/ Detach(q)
               \/ BypassSettles(q)
        PROVE  FALSE
    BY <1>0, <2>1 DEF ServedFromStore, TypeOK, Arrive, Abort, SelectRoute, ExecuteRefused,
       ExecuteUncoordinated, ExecuteCoalesce, ExecuteLead, WakeMiss, WakeFenced, Detach,
       BypassSettles, Goto, Bypass
  <2>2. ASSUME NEW q \in Requests, NEW stored \in BOOLEAN, NEW status \in {"MISS", "error"},
               FinishFill(q, stored, status)
        PROVE  FALSE
    <3>1. status \in Answered
      BY <2>2
    <3>2. /\ pc'[q] = status
          /\ \A s \in Requests \ {q} :
               pc'[s] = IF pc[s] = "waiting" /\ leader[s] = q
                        THEN IF stored THEN "wokenStored" ELSE "wokenEmpty"
                        ELSE pc[s]
      BY <1>0, <2>2, <3>1, FinishFillType
    <3>3. pc'[r] # "HIT" \/ pc[r] = "HIT"
      BY <2>2, <3>2
    <3>4. QED
      BY <3>3 DEF ServedFromStore
  <2>3. ASSUME NEW q \in Requests,
               FillFails(q) \/ \E a \in Responses : FillStores(q, a) \/ FillDiscards(q, a)
        PROVE  FALSE
    BY <2>2, <2>3 DEF FillFails, FillStores, FillDiscards
  <2>4. ASSUME NEW scope, PurgeWith(scope) PROVE FALSE
    BY <2>4 DEF PurgeWith, Woken, ServedFromStore
  <2>5. ASSUME NEW u \in Updates, SnapshotPut(u) \/ SnapshotDone(u) PROVE FALSE
    BY <2>4, <2>5 DEF SnapshotPut, SnapshotDone
  <2>6. ASSUME NEW scope \in Scope, Purge(scope) PROVE FALSE
    BY <2>4, <2>6 DEF Purge
  <2>7. ASSUME Tick \/ UNCHANGED vars PROVE FALSE
    BY <2>7 DEF Tick, vars, ServedFromStore
  <2>8. ASSUME NEW q \in Requests, ExecuteHit(q) \/ WakeHit(q)
        PROVE  ExecuteHit(r) \/ WakeHit(r)
    BY <1>0, <2>8 DEF ServedFromStore, TypeOK, ExecuteHit, WakeHit, Goto
  <2>9. QED
    BY <2>1, <2>3, <2>5, <2>6, <2>7, <2>8 DEF Next, Continue, Quiet
<1>2. /\ key[r] \in DOMAIN entries
      /\ now < entries[key[r]].expiresAt
      /\ suspended = 0 /\ rev[r] = generation
      /\ pc[r] \in {"selected"} \cup Holding
  BY <1>1 DEF ExecuteHit, WakeHit, Admitted, Fresh
<1>3. entries[key[r]].expiresAt <= entries[key[r]].freshUntil
  BY <1>2 DEF IInv, FenceInv, ExpiryWithinLifetime
<1>4. entries[key[r]] \in Entry /\ now \in Nat
  BY <1>0, <1>2 DEF TypeOK
<1>5. now < entries[key[r]].freshUntil
  BY <1>2, <1>3, <1>4 DEF Entry
<1>6. QED
  BY <1>2, <1>5 DEF IInv, FenceInv, RevisionPinsTable, EntriesFromInstalledTable,
                    EntriesNewerThanPurge

\* Every response served from the store belongs to the route table the request
\* was routed by, was requested after the last purge of its key and is within
\* the lifetime it had when it was requested.
THEOREM HitsAreCurrent == Spec => HitIsCurrent
<1>1. IInv /\ [Next]_vars =>
        [\A r \in Requests : ServedFromStore(r) =>
           /\ key[r] \in DOMAIN entries
           /\ entries[key[r]].route = route[r]
           /\ entries[key[r]].rev >= purgedAt[key[r]]
           /\ now < entries[key[r]].freshUntil]_vars
  BY HitStep
<1>2. QED
  BY <1>1, Invariance, PTL DEF Spec, HitIsCurrent
-----------------------------------------------------------------------------
(* The store stays within its limits.                                      *)

\* The Map orders its entries: of two of them one precedes the other.
OrderIsTotal ==
  \A i, j \in DOMAIN entries : i # j => <<i, j>> \in older \/ <<j, i>> \in older

StoreInv == StoreWithinLimits /\ OrderIsTotal

\* What each entry is charged.
Charges == [k \in DOMAIN entries |-> entries[k].size]

\* The entries are finitely many, each charged a number of bytes.
LEMMA ChargesType ==
  ASSUME TypeOK
  PROVE  /\ IsFiniteSet(DOMAIN entries)
         /\ \A k \in DOMAIN entries : Charges[k] = entries[k].size /\ Charges[k] \in Nat
<1>1. IsFiniteSet(DOMAIN entries)
  BY ConfigAssumption, FS_Subset DEF TypeOK
<1>2. \A k \in DOMAIN entries : entries[k].size \in Nat
  BY DEF TypeOK, Entry
<1> QED
  BY <1>1, <1>2 DEF Charges

\* What is charged for some of the entries, and for the rest, is charged for all.
LEMMA ChargesSplit ==
  ASSUME TypeOK, NEW K \in SUBSET DOMAIN entries
  PROVE  /\ IsFiniteSet(K) /\ Cardinality(K) \in Nat /\ Cardinality(K) <= Cardinality(DOMAIN entries)
         /\ SizeOf(K) \in Nat /\ SizeOf(DOMAIN entries \ K) \in Nat
         /\ SizeOf(DOMAIN entries) = SizeOf(K) + SizeOf(DOMAIN entries \ K)
<1> DEFINE D == DOMAIN entries
           f == Charges
<1>1. IsFiniteSet(D) /\ \A k \in D : f[k] \in Nat
  BY ChargesType
<1>2. SizeOf(K) = SumFunctionOnSet(f, K) /\ SizeOf(D) = SumFunctionOnSet(f, D)
      /\ SizeOf(D \ K) = SumFunctionOnSet(f, D \ K)
  BY DEF SizeOf, Charges
<1>3. K \in SUBSET D
  OBVIOUS
<1> HIDE DEF D, f
<1>4. /\ IsFiniteSet(K) /\ IsFiniteSet(D \ K)
      /\ (\A k \in K : f[k] \in Nat) /\ (\A k \in D \ K : f[k] \in Nat)
  BY <1>1, <1>3, FS_Subset
<1>5. Cardinality(K) \in Nat /\ Cardinality(K) <= Cardinality(D)
  BY <1>1, <1>3, <1>4, FS_Subset, FS_CardinalityType
<1>6. SumFunctionOnSet(f, K) \in Nat /\ SumFunctionOnSet(f, D \ K) \in Nat
  BY <1>4, SumInNat
<1>7. SumFunctionOnSet(f, D) = SumFunctionOnSet(f, K) + SumFunctionOnSet(f, D \ K)
  BY <1>1, <1>3, SumSplits
<1> QED
  BY <1>2, <1>4, <1>5, <1>6, <1>7 DEF D

\* Entries that a step keeps are charged what they were.
LEMMA ChargesKept ==
  ASSUME TypeOK, NEW K \in SUBSET DOMAIN entries, K \subseteq DOMAIN entries',
         \A k \in K : entries'[k] = entries[k]
  PROVE  SizeOf(K)' = SizeOf(K)
<1> DEFINE f == Charges
           w == Charges'
<1>1. IsFiniteSet(K) /\ \A k \in K : f[k] = w[k]
  BY ChargesSplit DEF Charges
<1>2. SizeOf(K) = SumFunctionOnSet(f, K) /\ SizeOf(K)' = SumFunctionOnSet(w, K)
  BY DEF SizeOf, Charges
<1> HIDE DEF f, w
<1> QED
  BY <1>1, <1>2, SumSame

\* remove() of any set of entries takes off what they were charged.
LEMMA KeepWithinLimits ==
  ASSUME TypeOK, StoreInv, NEW K \in SUBSET DOMAIN entries, Keep(K)
  PROVE  StoreInv'
<1>1. DOMAIN entries' = K /\ \A k \in K : entries'[k] = entries[k]
  BY KeepType
<1>2. /\ IsFiniteSet(K) /\ Cardinality(K) \in Nat /\ Cardinality(K) <= Cardinality(DOMAIN entries)
      /\ SizeOf(K) \in Nat /\ SizeOf(DOMAIN entries \ K) \in Nat
      /\ SizeOf(DOMAIN entries) = SizeOf(K) + SizeOf(DOMAIN entries \ K)
  BY ChargesSplit
<1>3. SizeOf(K)' = SizeOf(K)
  BY <1>1, ChargesKept
<1>4. Cardinality(DOMAIN entries) \in Nat /\ MaxBytes \in Nat /\ MaxEntries \in Nat
  BY ChargesType, FS_CardinalityType, ConfigAssumption
<1>5. bytes' = SizeOf(K)
  BY <1>2 DEF Keep, StoreInv, StoreWithinLimits
<1>6. StoreWithinLimits'
  BY <1>1, <1>2, <1>3, <1>4, <1>5 DEF StoreInv, StoreWithinLimits
<1>7. OrderIsTotal'
  BY <1>1 DEF Keep, OrderOf, StoreInv, OrderIsTotal
<1> QED
  BY <1>6, <1>7 DEF StoreInv

\* A hit moves its entry to the end of the Map and keeps every other in its place.
LEMMA TouchWithinLimits ==
  ASSUME TypeOK, StoreInv, NEW k \in DOMAIN entries, Touch(k)
  PROVE  StoreInv'
<1>1. entries' = entries /\ bytes' = bytes
  BY DEF Touch
<1>2. SizeOf(DOMAIN entries)' = SizeOf(DOMAIN entries)
  BY <1>1 DEF SizeOf
<1>3. OrderIsTotal'
  BY <1>1 DEF Touch, SetLast, OrderOf, StoreInv, OrderIsTotal
<1> QED
  BY <1>1, <1>2, <1>3 DEF StoreInv, StoreWithinLimits

\* Tails of a total order are nested, so the union of those that fit is one of them.
LEMMA SurvivorsFit ==
  ASSUME TypeOK, StoreInv, NEW k, NEW size \in Nat, size <= MaxBytes
  PROVE  /\ Survivors(k, size) \in SUBSET (DOMAIN entries \ {k})
         /\ Cardinality(Survivors(k, size)) < MaxEntries
         /\ SizeOf(Survivors(k, size)) + size <= MaxBytes
<1> DEFINE live == Unexpired(k)
           Tail(K) == \A i \in K, j \in live : <<i, j>> \in older => j \in K
           Fits(K) == Cardinality(K) < MaxEntries /\ bytes - SizeOf(DOMAIN entries \ K) + size <= MaxBytes
           Fitting == {K \in SUBSET live : Tail(K) /\ Fits(K)}
           Room(K) == Cardinality(live) - Cardinality(K)
<1>1. live \in SUBSET (DOMAIN entries \ {k})
  BY DEF Unexpired
<1>2. Survivors(k, size) = UNION Fitting
  BY DEF Survivors
<1>3. \A K \in SUBSET live : K \in SUBSET DOMAIN entries /\ K \in SUBSET (DOMAIN entries \ {k})
  BY <1>1
<1>4. MaxBytes \in Nat /\ MaxEntries \in Nat \ {0} /\ IsFiniteSet(DOMAIN entries) /\ bytes = SizeOf(DOMAIN entries)
  BY ConfigAssumption, ChargesType DEF StoreInv, StoreWithinLimits
<1>5. {} \in Fitting
  <2>1. SizeOf(DOMAIN entries \ {}) = bytes /\ bytes \in Nat
    <3>1. DOMAIN entries \ {} = DOMAIN entries /\ DOMAIN entries \in SUBSET DOMAIN entries
      OBVIOUS
    <3>2. SizeOf(DOMAIN entries) \in Nat
      BY <3>1, ChargesSplit
    <3> QED
      BY <1>4, <3>1, <3>2
  <2>2. Cardinality({}) = 0
    BY FS_EmptySet
  <2> QED
    BY <1>4, <2>1, <2>2
<1>6. IsFiniteSet(live) /\ \A K \in SUBSET live : IsFiniteSet(K) /\ Room(K) \in Nat
  <2>1. IsFiniteSet(live)
    BY <1>1, <1>4, FS_Subset
  <2>2. ASSUME NEW K \in SUBSET live PROVE IsFiniteSet(K) /\ Room(K) \in Nat
    BY <2>1, FS_Subset, FS_CardinalityType
  <2> QED
    BY <2>1, <2>2
<1>7. PICK K \in Fitting : \A L \in Fitting : Room(K) <= Room(L)
  <2> DEFINE N == {Room(K) : K \in Fitting}
  <2>1. N \in SUBSET Nat /\ N # {}
    BY <1>5, <1>6
  <2>2. \E m \in N : \A n \in N : m <= n
    <3> HIDE DEF N
    <3> QED
      BY <2>1, LeastNat
  <2> QED
    BY <2>2
<1>8. ASSUME NEW L \in Fitting PROVE L \subseteq K
  <2>1. L \subseteq K \/ K \subseteq L
    BY <1>3 DEF StoreInv, OrderIsTotal
  <2>2. CASE K \subseteq L
    <3>1. IsFiniteSet(L) /\ Cardinality(L) \in Nat /\ Cardinality(K) \in Nat /\ Cardinality(live) \in Nat
      BY <1>6, FS_CardinalityType
    <3>2. Cardinality(L) <= Cardinality(K)
      BY <1>7, <3>1
    <3>3. Cardinality(K) = Cardinality(L) => K = L
      BY <2>2, <3>1, FS_Subset
    <3>4. Cardinality(K) <= Cardinality(L)
      BY <2>2, <3>1, FS_Subset
    <3> QED
      BY <3>1, <3>2, <3>3, <3>4
  <2> QED
    BY <2>1, <2>2
<1>9. UNION Fitting = K
  BY <1>8
<1>10. bytes - SizeOf(DOMAIN entries \ K) = SizeOf(K)
  BY <1>3, <1>4, ChargesSplit
<1> QED
  BY <1>2, <1>3, <1>9, <1>10

\* A response that is stored takes the place of what was evicted for it.
LEMMA StoreKeepsLimits ==
  ASSUME TypeOK, StoreInv, NEW r \in Requests, NEW a \in Responses, key[r] \in Keys,
         Cacheable(a, requestedAt[r]), Store(r, a)
  PROVE  StoreInv'
<1>0. PICK k, K : k = key[r] /\ K = Survivors(k, a.size)
  OBVIOUS
<1>1. a.size \in Nat /\ a.size <= MaxBytes /\ MaxBytes \in Nat /\ MaxEntries \in Nat
  BY ResponseAssumption, ConfigAssumption DEF Cacheable
<1>2. /\ K \in SUBSET (DOMAIN entries \ {k})
      /\ Cardinality(K) < MaxEntries
      /\ SizeOf(K) + a.size <= MaxBytes
  BY <1>0, <1>1, SurvivorsFit
<1>3. /\ entries' = [j \in K \cup {k} |-> IF j = k THEN EntryFor(r, a) ELSE entries[j]]
      /\ older' = OrderOf(K) \cup {<<j, k>> : j \in K}
      /\ bytes' = bytes - SizeOf(DOMAIN entries \ K) + a.size
  BY <1>0 DEF Store
<1>4. EntryFor(r, a).size = a.size
  BY DEF EntryFor
<1>5. DOMAIN entries' = K \cup {k} /\ k \notin K /\ K \in SUBSET DOMAIN entries
      /\ (\A j \in K : entries'[j] = entries[j]) /\ entries'[k].size = a.size
  BY <1>2, <1>3, <1>4
<1>6. /\ IsFiniteSet(K) /\ Cardinality(K) \in Nat
      /\ SizeOf(K) \in Nat /\ SizeOf(DOMAIN entries \ K) \in Nat
      /\ SizeOf(DOMAIN entries) = SizeOf(K) + SizeOf(DOMAIN entries \ K)
  BY <1>5, ChargesSplit
<1>7. SizeOf(K)' = SizeOf(K)
  BY <1>5, ChargesKept
<1>8. SizeOf(DOMAIN entries)' = a.size + SizeOf(K)
  <2> DEFINE w == Charges'
             f == Charges
  <2>1. w[k] = a.size /\ \A j \in K : w[j] = f[j]
    BY <1>5 DEF Charges
  <2>2. \A j \in K : f[j] \in Nat
    BY <1>5, ChargesType
  <2>3. SizeOf(DOMAIN entries)' = SumFunctionOnSet(w, K \cup {k}) /\ SizeOf(K)' = SumFunctionOnSet(w, K)
    BY <1>5 DEF SizeOf, Charges
  <2> HIDE DEF w, f
  <2>4. \A j \in K \cup {k} : w[j] \in Nat
    BY <1>1, <2>1, <2>2
  <2>5. SumFunctionOnSet(w, K \cup {k}) = w[k] + SumFunctionOnSet(w, K)
    BY <1>5, <1>6, <2>4, SumWith
  <2> QED
    BY <1>7, <2>1, <2>3, <2>5
<1>9. Cardinality(DOMAIN entries') = Cardinality(K) + 1
  BY <1>5, <1>6, FS_AddElement
<1>10. bytes' = SizeOf(DOMAIN entries)'
  BY <1>1, <1>3, <1>6, <1>8 DEF StoreInv, StoreWithinLimits
<1>11. StoreWithinLimits'
  BY <1>1, <1>2, <1>6, <1>8, <1>9, <1>10 DEF StoreWithinLimits
<1>12. OrderIsTotal'
  BY <1>2, <1>3, <1>5 DEF OrderOf, StoreInv, OrderIsTotal
<1> QED
  BY <1>11, <1>12 DEF StoreInv

\* A step that leaves the store alone leaves it within its limits.
LEMMA StoreUntouched == ASSUME StoreInv, UNCHANGED storeVars PROVE StoreInv'
<1>1. entries' = entries /\ older' = older /\ bytes' = bytes
  BY DEF storeVars
<1> QED
  BY <1>1 DEF StoreInv, StoreWithinLimits, OrderIsTotal, SizeOf

\* A purge removes the entries of its scope.
LEMMA PurgeWithinLimits ==
  ASSUME TypeOK, StoreInv, NEW scope, PurgeWith(scope)
  PROVE  StoreInv'
<1>1. {k \in DOMAIN entries : ~Matches(k, scope)} \in SUBSET DOMAIN entries
  OBVIOUS
<1> QED
  BY <1>1, KeepWithinLimits DEF PurgeWith

\* Every step keeps the store within its limits.
LEMMA StoreStep == TypeInv /\ StoreInv /\ [Next]_vars => StoreInv'
<1> SUFFICES ASSUME TypeInv, StoreInv, [Next]_vars PROVE StoreInv'
  OBVIOUS
<1>0. TypeOK
  BY DEF TypeInv
<1>1. ASSUME NEW r \in Requests,
             \/ Arrive(r) \/ Abort(r)
             \/ \E s \in Selections : SelectRoute(r, s[1], s[2])
             \/ ExecuteRefused(r)
             \/ \E a \in Responses : FillDiscards(r, a)
             \/ FillFails(r) \/ WakeFenced(r) \/ Detach(r) \/ BypassSettles(r)
      PROVE  StoreInv'
  <2>1. UNCHANGED storeVars
    BY <1>1 DEF Arrive, Abort, SelectRoute, ExecuteRefused, FillDiscards, FillFails, WakeFenced,
                Detach, BypassSettles
  <2> QED
    BY <2>1, StoreUntouched
<1>2. ASSUME NEW r \in Requests, ExecuteHit(r) \/ WakeHit(r) PROVE StoreInv'
  <2>1. Touch(key[r]) /\ key[r] \in DOMAIN entries
    BY <1>2 DEF ExecuteHit, WakeHit, Fresh
  <2> QED
    BY <1>0, <2>1, TouchWithinLimits
<1>3. ASSUME NEW r \in Requests,
             ExecuteUncoordinated(r) \/ ExecuteCoalesce(r) \/ ExecuteLead(r) \/ WakeMiss(r)
      PROVE  StoreInv'
  <2>1. DropStale(key[r])
    BY <1>3 DEF ExecuteUncoordinated, ExecuteCoalesce, ExecuteLead, WakeMiss
  <2>2. DOMAIN entries \ {key[r]} \in SUBSET DOMAIN entries
    OBVIOUS
  <2> QED
    BY <1>0, <2>1, <2>2, KeepWithinLimits DEF DropStale
<1>4. ASSUME NEW r \in Requests, NEW a \in Responses, FillStores(r, a) PROVE StoreInv'
  <2>1. Store(r, a) /\ Cacheable(a, requestedAt[r]) /\ key[r] \in Keys
    BY <1>4 DEF FillStores, TypeInv, HoldersHaveKeys
  <2> QED
    BY <1>0, <2>1, StoreKeepsLimits
<1>5. ASSUME NEW scope, PurgeWith(scope) PROVE StoreInv'
  BY <1>0, <1>5, PurgeWithinLimits
<1>6. ASSUME NEW u \in Updates, SnapshotPut(u) \/ SnapshotDone(u) PROVE StoreInv'
  BY <1>5, <1>6 DEF SnapshotPut, SnapshotDone
<1>7. ASSUME NEW scope \in Scope, Purge(scope) PROVE StoreInv'
  BY <1>5, <1>7 DEF Purge
<1>8. ASSUME Tick \/ UNCHANGED vars PROVE StoreInv'
  <2>1. UNCHANGED storeVars
    BY <1>8 DEF Tick, vars
  <2> QED
    BY <2>1, StoreUntouched
<1> QED
  BY <1>1, <1>2, <1>3, <1>4, <1>6, <1>7, <1>8 DEF Next, Continue, Quiet

\* After any sequence of fills, hits, expiries, evictions and purges the byte count is the sum over the
\* stored entries, and neither the bytes nor the entries exceed their limits, for every configuration
\* and every response: a response larger than the whole store is never stored, and eviction from the
\* front of the Map always makes room for any other.
THEOREM CacheWithinLimits == Spec => []StoreWithinLimits
<1>1. Init => StoreInv
  <2> SUFFICES ASSUME Init PROVE StoreInv
    OBVIOUS
  <2>1. DOMAIN entries = {} /\ bytes = 0
    BY DEF Init
  <2>2. SizeOf({}) = 0
    <3> DEFINE f == Charges
    <3>1. SizeOf({}) = SumFunctionOnSet(f, {})
      BY DEF SizeOf, Charges
    <3>2. IsFiniteSet({}) /\ \A x \in {} : f[x] \in Nat
      BY FS_EmptySet
    <3> HIDE DEF f
    <3> QED
      BY <3>1, <3>2, SumInNat
  <2>3. Cardinality({}) = 0 /\ MaxBytes \in Nat /\ MaxEntries \in Nat
    BY FS_EmptySet, ConfigAssumption
  <2> QED
    BY <2>1, <2>2, <2>3 DEF StoreInv, StoreWithinLimits, OrderIsTotal
<1>2. TypeInv /\ StoreInv /\ [Next]_vars => StoreInv'
  BY StoreStep
<1>3. IInv => TypeInv
  BY DEF IInv
<1>4. StoreInv => StoreWithinLimits
  BY DEF StoreInv
<1> QED
  BY <1>1, <1>2, <1>3, <1>4, Invariance, PTL DEF Spec
=============================================================================
