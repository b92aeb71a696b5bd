----------------------------- MODULE FiniteFacts -----------------------------
(***************************************************************************)
(* What the proofs of several components use of finite sets: a least       *)
(* number, one element more, induction over the subsets of a finite set,   *)
(* and the sums that caches and meters keep (SumFunctionOnSet of the       *)
(* community modules, a fold that takes the elements in a fixed order).    *)
(***************************************************************************)
EXTENDS Integers, FiniteSets, FiniteSetsExt, FiniteSetTheorems, TLAPS

\* A set of natural numbers has a least one.
LEMMA LeastNat ==
  ASSUME NEW N \in SUBSET Nat, N # {}
  PROVE  \E m \in N : \A n \in N : m <= n
<1> DEFINE Less == OpToRel(<, Nat)
<1>1. \A m, n \in Nat : n < m => <<n, m>> \in Less
  BY DEF OpToRel
<1>2. IsWellFoundedOn(Less, Nat)
  BY NatLessThanWellFounded
<1> HIDE DEF Less
<1>3. PICK m \in N : \A n \in N : ~(<<n, m>> \in Less)
  BY <1>2, WFMin
<1>4. ASSUME NEW n \in N PROVE m <= n
  <2>1. m \in Nat /\ n \in Nat
    OBVIOUS
  <2>2. ~(n < m)
    BY <2>1, <1>1, <1>3
  <2> QED
    BY <2>1, <2>2
<1> QED
  BY <1>4

\* One element more, or the same set.
LEMMA OneMore ==
  ASSUME NEW R, IsFiniteSet(R), NEW k
  PROVE  IsFiniteSet(R \union {k}) /\ Cardinality(R \union {k}) <= Cardinality(R) + 1
<1>1. Cardinality(R) \in Nat
  BY FS_CardinalityType
<1>2. /\ IsFiniteSet(R \union {k})
      /\ Cardinality(R \union {k}) = IF k \in R THEN Cardinality(R) ELSE Cardinality(R) + 1
  BY FS_AddElement, Zenon
<1> QED
  BY <1>1, <1>2

\* Induction over the subsets of a finite set, one element at a time.
LEMMA FiniteInduction ==
  ASSUME NEW S, IsFiniteSet(S), NEW Good, \A T \in SUBSET S : (\A x \in T : T \ {x} \in Good) => T \in Good
  PROVE  SUBSET S \subseteq Good
<1> SUFFICES ASSUME (SUBSET S) \ Good # {} PROVE FALSE
  OBVIOUS
<1>1. IsWellFoundedOn(StrictSubsetOrdering(S), SUBSET S)
  <2>1. FiniteSubsetsOf(S) = SUBSET S
    BY FS_FiniteSubsetsOfFinite
  <2>2. IsWellFoundedOn(StrictSubsetOrdering(S), FiniteSubsetsOf(S))
    BY FS_StrictSubsetOrderingWellFounded
  <2> QED
    BY <2>1, <2>2, Zenon
<1>2. PICK T \in (SUBSET S) \ Good : \A U \in (SUBSET S) \ Good : <<U, T>> \notin StrictSubsetOrdering(S)
  BY <1>1, WFMin
<1>3. ASSUME NEW x \in T PROVE T \ {x} \in Good
  <2>1. T \ {x} \in SUBSET S /\ T \ {x} \subseteq T /\ T \ {x} # T
    BY <1>2
  <2>2. <<T \ {x}, T>> \in StrictSubsetOrdering(S)
    BY <1>2, <2>1 DEF StrictSubsetOrdering
  <2> QED
    BY <1>2, <2>1, <2>2
<1> QED
  BY <1>2, <1>3

-----------------------------------------------------------------------------
(* Sums.  g sums f over every subset of S, as SumFunctionOnSet() does.     *)

Pick(s) == CHOOSE x \in s : TRUE
SumBy(g, f, s) == IF s = {} THEN 0 ELSE f[Pick(s)] + g[s \ {Pick(s)}]
Sums(g, f, S) == g = [s \in SUBSET S |-> SumBy(g, f, s)]

\* A sum over its elements.
LEMMA SumOf ==
  ASSUME NEW g, NEW f, NEW S, Sums(g, f, S), NEW s \in SUBSET S
  PROVE  /\ g[s] = SumBy(g, f, s)
         /\ s = {} => g[s] = 0
         /\ s # {} => Pick(s) \in s /\ g[s] = f[Pick(s)] + g[s \ {Pick(s)}]
<1>1. g[s] = SumBy(g, f, s)
  BY DEF Sums
<1>2. s # {} => Pick(s) \in s
  BY DEF Pick
<1> QED
  BY <1>1, <1>2 DEF SumBy

\* A function that sums so is the sum.
LEMMA IsTheSum ==
  ASSUME NEW e, NEW f, NEW S, e = [s \in SUBSET S |-> e[s]], \A s \in SUBSET S : e[s] = SumBy(e, f, s)
  PROVE  Sums(e, f, S)
<1> DEFINE k == [s \in SUBSET S |-> SumBy(e, f, s)]
<1>1. \A s \in SUBSET S : e[s] = k[s]
  OBVIOUS
<1>2. e = k
  BY <1>1
<1> QED
  BY <1>2 DEF Sums

\* Two sums agree on the elements that both have.
LEMMA SumsAgree ==
  ASSUME NEW S, NEW T, NEW R, R \subseteq S, R \subseteq T, IsFiniteSet(R),
         NEW f, NEW w, \A x \in R : f[x] = w[x],
         NEW g, NEW h, Sums(g, f, S), Sums(h, w, T)
  PROVE  \A s \in SUBSET R : g[s] = h[s]
<1> DEFINE Good == {s \in SUBSET R : g[s] = h[s]}
<1>0. (\A s \in SUBSET S : g[s] = SumBy(g, f, s)) /\ (\A s \in SUBSET T : h[s] = SumBy(h, w, s))
  BY DEF Sums
<1>1. ASSUME NEW s \in SUBSET R, \A x \in s : s \ {x} \in Good PROVE s \in Good
  <2>1. s \in SUBSET S /\ s \in SUBSET T
    OBVIOUS
  <2>2. g[s] = SumBy(g, f, s) /\ h[s] = SumBy(h, w, s)
    BY <1>0, <2>1
  <2>3. CASE s = {}
    BY <2>2, <2>3 DEF SumBy
  <2>4. CASE s # {}
    <3> DEFINE x == Pick(s)
    <3>1. x \in s
      BY <2>4 DEF Pick
    <3>2. g[s \ {x}] = h[s \ {x}] /\ f[x] = w[x]
      BY <1>1, <3>1
    <3> QED
      BY <2>2, <2>4, <3>2 DEF SumBy
  <2> QED
    BY <2>3, <2>4
<1> HIDE DEF Good
<1>2. SUBSET R \subseteq Good
  BY <1>1, FiniteInduction
<1> QED
  BY <1>2 DEF Good

\* There is such a sum.
LEMMA SumExists == ASSUME NEW f, NEW S, IsFiniteSet(S) PROVE \E g : Sums(g, f, S)
<1> DEFINE Good == {T \in SUBSET S : \E g : Sums(g, f, T)}
           Of(s) == CHOOSE g : Sums(g, f, s)
<1>1. ASSUME NEW T \in SUBSET S, \A x \in T : T \ {x} \in Good PROVE T \in Good
  <2>1. ASSUME NEW s \in SUBSET T, s # T PROVE \E g : Sums(g, f, s)
    <3>1. PICK x \in T : s \in SUBSET (T \ {x})
      BY <2>1
    <3>2. PICK g : Sums(g, f, T \ {x})
      BY <1>1
    <3> DEFINE h == [r \in SUBSET s |-> g[r]]
    <3>3. ASSUME NEW r \in SUBSET s PROVE h[r] = SumBy(h, f, r)
      <4>1. h[r] = g[r] /\ h[r \ {Pick(r)}] = g[r \ {Pick(r)}]
        OBVIOUS
      <4>2. r \in SUBSET (T \ {x})
        BY <3>1
      <4>3. g[r] = SumBy(g, f, r)
        BY <3>2, <4>2, SumOf
      <4> HIDE DEF h
      <4> QED
        BY <4>1, <4>3 DEF SumBy
    <3>4. h = [r \in SUBSET s |-> h[r]]
      OBVIOUS
    <3> HIDE DEF h
    <3>5. Sums(h, f, s)
      BY <3>3, <3>4, IsTheSum
    <3> QED
      BY <3>5
  <2>2. \A s \in SUBSET T : s # T => Sums(Of(s), f, s)
    BY <2>1
  <2> HIDE DEF Of
  <2> DEFINE x0 == Pick(T)
             top == IF T = {} THEN 0 ELSE f[x0] + Of(T \ {x0})[T \ {x0}]
             e == [s \in SUBSET T |-> IF s = T THEN top ELSE Of(s)[s]]
  <2>3. e = [s \in SUBSET T |-> e[s]]
    OBVIOUS
  <2>4. e[T] = top /\ \A s \in SUBSET T : s # T => e[s] = Of(s)[s]
    OBVIOUS
  <2>5. T # {} => x0 \in T
    BY DEF Pick
  <2>6. e[T] = SumBy(e, f, T)
    <3>1. T # {} => e[T \ {x0}] = Of(T \ {x0})[T \ {x0}]
      BY <2>4, <2>5
    <3> HIDE DEF e
    <3> QED
      BY <2>4, <3>1 DEF SumBy
  <2> HIDE DEF e
  <2>7. ASSUME NEW s \in SUBSET T, s # T PROVE e[s] = SumBy(e, f, s)
    <3>1. Sums(Of(s), f, s) /\ e[s] = Of(s)[s]
      BY <2>2, <2>4, <2>7
    <3>2. CASE s = {}
      <4>1. Of(s)[s] = 0
        BY <3>1, <3>2, SumOf
      <4> QED
        BY <3>1, <3>2, <4>1 DEF SumBy
    <3>3. CASE s # {}
      <4> DEFINE y == Pick(s)
                 r == s \ {y}
      <4>1. y \in s /\ Of(s)[s] = f[y] + Of(s)[r]
        BY <3>1, <3>3, SumOf
      <4>2. r \in SUBSET T /\ r # T /\ r \subseteq s /\ r \in SUBSET S
        BY <2>7, <4>1
      <4> HIDE DEF y, r
      <4>3. Sums(Of(r), f, r) /\ e[r] = Of(r)[r] /\ IsFiniteSet(r)
        BY <2>2, <2>4, <4>2, FS_Subset
      <4>4. \A z \in SUBSET r : Of(s)[z] = Of(r)[z]
        BY <3>1, <4>2, <4>3, SumsAgree
      <4>5. Of(s)[r] = e[r]
        BY <4>3, <4>4
      <4> QED
        BY <3>1, <3>3, <4>1, <4>5 DEF SumBy, y, r
    <3> QED
      BY <3>2, <3>3
  <2>8. \A s \in SUBSET T : e[s] = SumBy(e, f, s)
    BY <2>6, <2>7
  <2>9. Sums(e, f, T)
    BY <2>3, <2>8, IsTheSum
  <2> QED
    BY <2>9
<1> HIDE DEF Good
<1>2. SUBSET S \subseteq Good
  BY <1>1, FiniteInduction
<1>3. S \in Good
  BY <1>2
<1> QED
  BY <1>3 DEF Good

\* A sum of numbers is a number.
LEMMA SumType ==
  ASSUME NEW f, NEW S, IsFiniteSet(S), \A x \in S : f[x] \in Nat, NEW g, Sums(g, f, S)
  PROVE  \A s \in SUBSET S : g[s] \in Nat
<1> DEFINE Good == {s \in SUBSET S : g[s] \in Nat}
<1>1. ASSUME NEW s \in SUBSET S, \A x \in s : s \ {x} \in Good PROVE s \in Good
  <2>1. s = {} => g[s] = 0
    BY SumOf
  <2>2. s # {} => Pick(s) \in s /\ g[s] = f[Pick(s)] + g[s \ {Pick(s)}]
    <3>1. g[s] = SumBy(g, f, s)
      BY DEF Sums
    <3>2. s # {} => Pick(s) \in s
      BY DEF Pick
    <3> QED
      BY <3>1, <3>2 DEF SumBy
  <2>3. s # {} => f[Pick(s)] \in Nat /\ g[s \ {Pick(s)}] \in Nat
    BY <1>1, <2>2
  <2> QED
    BY <2>1, <2>2, <2>3
<1> HIDE DEF Good
<1>2. SUBSET S \subseteq Good
  BY <1>1, FiniteInduction
<1> QED
  BY <1>2 DEF Good

\* Any element may be taken from a sum of numbers.
LEMMA SumTakes ==
  ASSUME NEW f, NEW S, IsFiniteSet(S), \A x \in S : f[x] \in Nat, NEW g, Sums(g, f, S), NEW k \in S
  PROVE  g[S] = f[k] + g[S \ {k}]
<1> DEFINE Good == {s \in SUBSET S : \A x \in s : g[s] = f[x] + g[s \ {x}]}
<1>0. \A s \in SUBSET S : g[s] \in Nat
  BY SumType
<1>1. ASSUME NEW s \in SUBSET S, \A x \in s : s \ {x} \in Good PROVE s \in Good
  <2> SUFFICES ASSUME NEW x \in s PROVE g[s] = f[x] + g[s \ {x}]
    OBVIOUS
  <2> DEFINE x0 == Pick(s)
             r == (s \ {x0}) \ {x}
  <2>1. x0 \in s /\ g[s] = f[x0] + g[s \ {x0}]
    BY SumOf
  <2>2. r \in SUBSET S /\ (s \ {x}) \ {x0} = r
    OBVIOUS
  <2> HIDE DEF x0
  <2>3. CASE x = x0
    BY <2>1, <2>3
  <2>4. CASE x # x0
    <3>1. g[s \ {x}] = f[x0] + g[r]
      <4>1. g[s \ {x}] = f[x0] + g[(s \ {x}) \ {x0}]
        BY <1>1, <2>1, <2>4
      <4> HIDE DEF r
      <4> QED
        BY <2>2, <4>1
    <3>2. g[s \ {x0}] = f[x] + g[r]
      BY <1>1, <2>1, <2>4
    <3>3. g[r] \in Nat /\ f[x] \in Nat /\ f[x0] \in Nat
      BY <1>0, <2>1, <2>2
    <3> HIDE DEF r
    <3> QED
      BY <2>1, <2>2, <3>1, <3>2, <3>3
  <2> QED
    BY <2>3, <2>4
<1> HIDE DEF Good
<1>2. SUBSET S \subseteq Good
  BY <1>1, FiniteInduction
<1>3. S \in Good
  BY <1>2
<1> QED
  BY <1>3 DEF Good

\* Two sums of the same numbers are the same.
LEMMA SameSums ==
  ASSUME NEW S, IsFiniteSet(S), NEW T, S \subseteq T, NEW f, NEW w, \A x \in S : f[x] = w[x],
         NEW g, NEW h, Sums(g, f, S), Sums(h, w, T)
  PROVE  g[S] = h[S]
<1> DEFINE R == S
<1>1. R \subseteq S /\ R \subseteq T /\ IsFiniteSet(R) /\ \A x \in R : f[x] = w[x]
  OBVIOUS
<1>2. S \in SUBSET R
  OBVIOUS
<1> HIDE DEF R
<1>3. \A s \in SUBSET R : g[s] = h[s]
  BY <1>1, SumsAgree
<1> QED
  BY <1>2, <1>3

\* The fold of the community modules is such a sum.
LEMMA SumIsChosen ==
  ASSUME NEW f, NEW S
  PROVE  SumFunctionOnSet(f, S) = (CHOOSE g : Sums(g, f, S))[S]
BY DEF SumFunctionOnSet, FoldFunctionOnSet, MapThenFoldSet, Sums, SumBy, Pick

\* A sum of numbers is a number.
LEMMA SumInNat ==
  ASSUME NEW f, NEW S, IsFiniteSet(S), \A x \in S : f[x] \in Nat
  PROVE  SumFunctionOnSet(f, S) \in Nat /\ (S = {} => SumFunctionOnSet(f, S) = 0)
<1> DEFINE g == CHOOSE e : Sums(e, f, S)
<1>1. \E e : Sums(e, f, S)
  BY SumExists
<1>2. Sums(g, f, S)
  BY <1>1
<1>3. SumFunctionOnSet(f, S) = g[S]
  BY SumIsChosen
<1> HIDE DEF g
<1>4. g[S] \in Nat
  BY <1>2, SumType
<1>5. S = {} => g[S] = 0
  BY <1>2, SumOf
<1> QED
  BY <1>3, <1>4, <1>5

\* It is the sum of functions that agree.
LEMMA SumSame ==
  ASSUME NEW S, IsFiniteSet(S), NEW f, NEW w, \A x \in S : f[x] = w[x]
  PROVE  SumFunctionOnSet(f, S) = SumFunctionOnSet(w, S)
<1> DEFINE g == CHOOSE e : Sums(e, f, S)
           h == CHOOSE e : Sums(e, w, S)
<1>1. (\E e : Sums(e, f, S)) /\ (\E e : Sums(e, w, S))
  BY SumExists
<1>2. Sums(g, f, S) /\ Sums(h, w, S)
  BY <1>1
<1>3. SumFunctionOnSet(f, S) = g[S] /\ SumFunctionOnSet(w, S) = h[S]
  BY SumIsChosen
<1> HIDE DEF g, h
<1> QED
  BY <1>2, <1>3, SameSums

\* Any element may be taken out of it.
LEMMA SumWithout ==
  ASSUME NEW f, NEW S, IsFiniteSet(S), \A x \in S : f[x] \in Nat, NEW k \in S
  PROVE  SumFunctionOnSet(f, S) = f[k] + SumFunctionOnSet(f, S \ {k})
<1> DEFINE T == S \ {k}
           g == CHOOSE e : Sums(e, f, S)
           h == CHOOSE e : Sums(e, f, T)
<1>1. T \subseteq S /\ IsFiniteSet(T)
  BY FS_Subset
<1>2. SumFunctionOnSet(f, S) = g[S] /\ SumFunctionOnSet(f, S \ {k}) = h[T]
  BY SumIsChosen
<1>3. (\E e : Sums(e, f, S)) /\ (\E e : Sums(e, f, T))
  BY <1>1, SumExists
<1>4. Sums(g, f, S) /\ Sums(h, f, T)
  BY <1>3
<1> HIDE DEF g, h
<1>5. g[S] = f[k] + g[T]
  BY <1>4, SumTakes
<1> DEFINE R == T
<1>6. R \subseteq S /\ R \subseteq T /\ IsFiniteSet(R) /\ T \in SUBSET R
  BY <1>1
<1> HIDE DEF T, R
<1>7. \A s \in SUBSET R : g[s] = h[s]
  BY <1>4, <1>6, SumsAgree
<1>8. g[T] = h[T]
  BY <1>6, <1>7
<1> QED
  BY <1>2, <1>5, <1>8 DEF T

\* One element more adds its number.
LEMMA SumWith ==
  ASSUME NEW f, NEW S, IsFiniteSet(S), NEW k, k \notin S, \A x \in S \union {k} : f[x] \in Nat
  PROVE  SumFunctionOnSet(f, S \union {k}) = f[k] + SumFunctionOnSet(f, S)
<1> DEFINE T == S \union {k}
<1>1. IsFiniteSet(T) /\ k \in T /\ T \ {k} = S /\ \A x \in T : f[x] \in Nat
  BY OneMore
<1> HIDE DEF T
<1>2. SumFunctionOnSet(f, T) = f[k] + SumFunctionOnSet(f, T \ {k})
  BY <1>1, SumWithout
<1> QED
  BY <1>1, <1>2 DEF T

\* A sum is that of a part and that of the rest.
LEMMA SumSplits ==
  ASSUME NEW f, NEW S, IsFiniteSet(S), \A x \in S : f[x] \in Nat, NEW R \in SUBSET S
  PROVE  SumFunctionOnSet(f, S) = SumFunctionOnSet(f, R) + SumFunctionOnSet(f, S \ R)
<1> DEFINE Total(s) == SumFunctionOnSet(f, s)
           Good == {s \in SUBSET S : Total(S) = Total(s) + Total(S \ s)}
<1>0. \A s \in SUBSET S : IsFiniteSet(s) /\ Total(s) \in Nat /\ (s = {} => Total(s) = 0)
  <2> SUFFICES ASSUME NEW s \in SUBSET S PROVE IsFiniteSet(s) /\ Total(s) \in Nat /\ (s = {} => Total(s) = 0)
    OBVIOUS
  <2>1. IsFiniteSet(s) /\ \A x \in s : f[x] \in Nat
    BY FS_Subset
  <2> QED
    BY <2>1, SumInNat
<1>1. ASSUME NEW s \in SUBSET S, NEW x \in s PROVE Total(s) = f[x] + Total(s \ {x})
  <2>1. IsFiniteSet(s) /\ \A y \in s : f[y] \in Nat
    BY FS_Subset
  <2> QED
    BY <2>1, SumWithout
<1> HIDE DEF Total
<1>2. ASSUME NEW s \in SUBSET S, \A x \in s : s \ {x} \in Good PROVE s \in Good
  <2>1. CASE s = {}
    <3>1. S \ s = S
      BY <2>1
    <3> QED
      BY <1>0, <2>1, <3>1
  <2>2. CASE s # {}
    <3>1. PICK x \in s : TRUE
      BY <2>2
    <3> DEFINE r == s \ {x}
               q == S \ r
    <3>2. Total(S) = Total(r) + Total(q)
      BY <1>2, <3>1
    <3>3. Total(s) = f[x] + Total(r)
      BY <1>1
    <3>4. q \in SUBSET S /\ x \in q /\ q \ {x} = S \ s
      OBVIOUS
    <3>5. r \in SUBSET S /\ S \ s \in SUBSET S /\ f[x] \in Nat
      OBVIOUS
    <3> HIDE DEF q, r
    <3>6. Total(q) = f[x] + Total(S \ s)
      BY <1>1, <3>4
    <3>7. Total(r) \in Nat /\ Total(S \ s) \in Nat
      BY <1>0, <3>5
    <3> QED
      BY <3>2, <3>3, <3>5, <3>6, <3>7
  <2> QED
    BY <2>1, <2>2
<1> HIDE DEF Good
<1>3. SUBSET S \subseteq Good
  BY <1>2, FiniteInduction
<1>4. R \in Good
  BY <1>3
<1> QED
  BY <1>4 DEF Good, Total

\* A part of a sum is no more than the sum.
LEMMA SumGrows ==
  ASSUME NEW f, NEW S, IsFiniteSet(S), \A x \in S : f[x] \in Nat, NEW R \in SUBSET S
  PROVE  SumFunctionOnSet(f, R) <= SumFunctionOnSet(f, S)
<1>1. /\ IsFiniteSet(R) /\ IsFiniteSet(S \ R)
      /\ (\A x \in R : f[x] \in Nat) /\ (\A x \in S \ R : f[x] \in Nat)
  BY FS_Subset
<1>2. SumFunctionOnSet(f, R) \in Nat /\ SumFunctionOnSet(f, S \ R) \in Nat
  BY <1>1, SumInNat
<1> QED
  BY <1>2, SumSplits
=============================================================================
