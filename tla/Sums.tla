-------------------------------- MODULE Sums --------------------------------
(***************************************************************************)
(* Lemmas about sums over finite sets: what MapThenSumSet of the community *)
(* modules computes, whatever order it takes the elements in.              *)
(***************************************************************************)
EXTENDS Integers, FiniteSets, FiniteSetTheorems, WellFoundedInduction, TLAPS

Pick(s) == CHOOSE x \in s : TRUE

\* g is the sum of f over the subsets of S, one picked element at a time.
IsSum(f, g, S) ==
    g = [s \in SUBSET S |-> IF s = {} THEN 0 ELSE f[Pick(s)] + g[s \ {Pick(s)}]]

Sum(f, S) == (CHOOSE g : IsSum(f, g, S))[S]

\* A set of subsets of a finite set has a smallest member.
LEMMA SmallestSet ==
  ASSUME NEW S, IsFiniteSet(S), NEW B, B \subseteq SUBSET S, B # {}
  PROVE  \E t \in B : \A u \in B : u \subseteq t => u = t
<1> DEFINE R == StrictSubsetOrdering(S)
<1>1. IsWellFoundedOn(R, FiniteSubsetsOf(S))
  BY FS_StrictSubsetOrderingWellFounded
<1>2. FiniteSubsetsOf(S) = SUBSET S
  BY FS_FiniteSubsetsOfFinite
<1> HIDE DEF R
<1>3. PICK t \in B : \A u \in B : ~ (<<u, t>> \in R)
  BY <1>1, <1>2, WFMin
<1>4. ASSUME NEW u \in B, u \subseteq t PROVE u = t
  <2>1. u \in SUBSET S /\ t \in SUBSET S
    OBVIOUS
  <2>2. u # t => <<u, t>> \in R
    BY <1>4, <2>1 DEF R, StrictSubsetOrdering
  <2> QED
    BY <1>3, <2>2
<1> QED
  BY <1>4

LEMMA PickIn == \A s : s # {} => Pick(s) \in s
BY DEF Pick

LEMMA SumUnfold ==
  ASSUME NEW f, NEW g, NEW S, IsSum(f, g, S), NEW s \in SUBSET S
  PROVE  g[s] = IF s = {} THEN 0 ELSE f[Pick(s)] + g[s \ {Pick(s)}]
BY DEF IsSum

\* Two solutions agree on the sets both of them cover.
LEMMA SumUnique ==
  ASSUME NEW f, NEW S, IsFiniteSet(S), NEW T, NEW g, NEW h,
         IsSum(f, g, S), IsSum(f, h, T), S \subseteq T
  PROVE  \A s \in SUBSET S : g[s] = h[s]
<1> DEFINE B == {s \in SUBSET S : g[s] # h[s]}
<1> SUFFICES ASSUME B # {} PROVE FALSE
  OBVIOUS
<1>1. PICK t \in B : \A u \in B : u \subseteq t => u = t
  <2>1. B \subseteq SUBSET S
    OBVIOUS
  <2> HIDE DEF B
  <2> QED
    BY <2>1, SmallestSet
<1>2. t \in SUBSET S /\ t \in SUBSET T /\ g[t] # h[t]
  OBVIOUS
<1>3. CASE t = {}
  BY <1>2, <1>3, SumUnfold
<1>4. CASE t # {}
  <2>1. Pick(t) \in t
    BY <1>4, PickIn
  <2>2. t \ {Pick(t)} \in SUBSET S /\ t \ {Pick(t)} \notin B
    BY <1>1, <1>2, <2>1
  <2>3. g[t \ {Pick(t)}] = h[t \ {Pick(t)}]
    BY <2>2
  <2> QED
    BY <1>2, <1>4, <2>3, SumUnfold
<1> QED
  BY <1>3, <1>4

\* The recursive definition has a solution.
LEMMA SumExists ==
  ASSUME NEW f, NEW S, IsFiniteSet(S)
  PROVE  \E g : IsSum(f, g, S)
<1> DEFINE B == {s \in SUBSET S : ~ \E g : IsSum(f, g, s)}
<1>1. ASSUME B # {} PROVE FALSE
  <2>1. PICK t \in B : \A u \in B : u \subseteq t => u = t
    <3>1. B \subseteq SUBSET S
      OBVIOUS
    <3> HIDE DEF B
    <3> QED
      BY <1>1, <3>1, SmallestSet
  <2>2. t \in SUBSET S /\ ~ \E g : IsSum(f, g, t)
    OBVIOUS
  <2>3. \A u \in SUBSET t : u # t => \E g : IsSum(f, g, u)
    BY <2>1, <2>2
  <2> DEFINE G(u) == CHOOSE g : IsSum(f, g, u)
             k == [s \in SUBSET t |-> IF s = {} THEN 0
                                      ELSE f[Pick(s)] + G(s \ {Pick(s)})[s \ {Pick(s)}]]
  <2>4. \A u \in SUBSET t : u # t => IsSum(f, G(u), u)
    BY <2>3
  <2> HIDE DEF G
  <2>5. ASSUME NEW s \in SUBSET t, s # t PROVE k[s] = G(s)[s]
    <3>1. IsSum(f, G(s), s)
      BY <2>4, <2>5
    <3>2. G(s)[s] = IF s = {} THEN 0 ELSE f[Pick(s)] + G(s)[s \ {Pick(s)}]
      BY <3>1, SumUnfold
    <3>3. CASE s # {}
      <4> DEFINE u == s \ {Pick(s)}
      <4>1. u \in SUBSET t /\ u # t /\ u \subseteq s
        BY <2>5, <3>3, PickIn
      <4>2. IsFiniteSet(u)
        BY <2>2, <4>1, FS_Subset
      <4>3. IsSum(f, G(u), u)
        BY <2>4, <4>1
      <4> HIDE DEF u
      <4>4. G(u)[u] = G(s)[u]
        BY <3>1, <4>1, <4>2, <4>3, SumUnique
      <4> QED
        BY <3>2, <3>3, <4>4 DEF u
    <3> QED
      BY <3>2, <3>3
  <2>6. ASSUME NEW s \in SUBSET t
        PROVE  k[s] = IF s = {} THEN 0 ELSE f[Pick(s)] + k[s \ {Pick(s)}]
    <3>1. CASE s # {}
      <4> DEFINE u == s \ {Pick(s)}
      <4>1. u \in SUBSET t /\ u # t
        BY <3>1, PickIn
      <4>2. k[u] = G(u)[u]
        BY <2>5, <4>1
      <4> QED
        BY <3>1, <4>2
    <3> QED
      BY <3>1
  <2>7. IsSum(f, k, t)
    <3>1. k = [s \in SUBSET t |-> k[s]]
      OBVIOUS
    <3> HIDE DEF k
    <3> QED
      BY <2>6, <3>1 DEF IsSum
  <2> QED
    BY <2>2, <2>7
<1> QED
  BY <1>1

---------------------------------------------------------------------------
(* The sum of a finite set *)

LEMMA SumStep ==
  ASSUME NEW f, NEW S, IsFiniteSet(S), S # {}
  PROVE  Sum(f, S) = f[Pick(S)] + Sum(f, S \ {Pick(S)})
<1> DEFINE G(s) == CHOOSE g : IsSum(f, g, s)
           u == S \ {Pick(S)}
<1>1. IsFiniteSet(u) /\ u \subseteq S
  BY FS_Subset
<1>2. IsSum(f, G(S), S) /\ IsSum(f, G(u), u)
  BY <1>1, SumExists
<1>3. Sum(f, S) = G(S)[S] /\ Sum(f, u) = G(u)[u]
  BY DEF Sum
<1> HIDE DEF G
<1>4. G(S)[S] = f[Pick(S)] + G(S)[u]
  BY <1>2, SumUnfold
<1> HIDE DEF u
<1>5. G(u)[u] = G(S)[u]
  BY <1>1, <1>2, SumUnique
<1> QED
  BY <1>3, <1>4, <1>5 DEF u

LEMMA SumEmpty == \A f : Sum(f, {}) = 0
<1> SUFFICES ASSUME NEW f PROVE Sum(f, {}) = 0
  OBVIOUS
<1>1. IsSum(f, CHOOSE g : IsSum(f, g, {}), {})
  BY SumExists, FS_EmptySet
<1> QED
  BY <1>1, SumUnfold DEF Sum

LEMMA SumNat ==
  ASSUME NEW f, NEW S, IsFiniteSet(S), \A x \in S : f[x] \in Nat
  PROVE  Sum(f, S) \in Nat
<1> DEFINE B == {s \in SUBSET S : Sum(f, s) \notin Nat}
<1> SUFFICES ASSUME B # {} PROVE FALSE
  OBVIOUS
<1>1. PICK t \in B : \A u \in B : u \subseteq t => u = t
  <2>1. B \subseteq SUBSET S
    OBVIOUS
  <2> HIDE DEF B
  <2> QED
    BY <2>1, SmallestSet
<1>2. t \in SUBSET S /\ Sum(f, t) \notin Nat /\ IsFiniteSet(t)
  BY FS_Subset
<1>3. t # {}
  BY <1>2, SumEmpty
<1>4. Pick(t) \in t /\ t \ {Pick(t)} \notin B /\ t \ {Pick(t)} \in SUBSET S
  BY <1>1, <1>2, <1>3, PickIn
<1>5. Sum(f, t) = f[Pick(t)] + Sum(f, t \ {Pick(t)})
  BY <1>2, <1>3, SumStep
<1> QED
  BY <1>2, <1>4, <1>5

\* The order does not matter: any element may be taken off first.
LEMMA SumTake ==
  ASSUME NEW f, NEW S, IsFiniteSet(S), \A x \in S : f[x] \in Nat, NEW x \in S
  PROVE  Sum(f, S) = f[x] + Sum(f, S \ {x})
<1> DEFINE B == {s \in SUBSET S : ~ \A y \in s : Sum(f, s) = f[y] + Sum(f, s \ {y})}
<1>1. ASSUME B # {} PROVE FALSE
  <2>1. PICK t \in B : \A u \in B : u \subseteq t => u = t
    <3>1. B \subseteq SUBSET S
      OBVIOUS
    <3> HIDE DEF B
    <3> QED
      BY <1>1, <3>1, SmallestSet
  <2>2. t \in SUBSET S /\ IsFiniteSet(t) /\ \E y \in t : Sum(f, t) # f[y] + Sum(f, t \ {y})
    BY FS_Subset
  <2>3. PICK y \in t : Sum(f, t) # f[y] + Sum(f, t \ {y})
    BY <2>2
  <2> DEFINE p == Pick(t)
  <2>4. p \in t /\ Sum(f, t) = f[p] + Sum(f, t \ {p})
    BY <2>2, <2>3, PickIn, SumStep
  <2> HIDE DEF p
  <2>5. p # y
    BY <2>3, <2>4
  <2>6. \A z \in t : t \ {z} \in SUBSET S /\ IsFiniteSet(t \ {z}) /\ t \ {z} \notin B
    BY <2>1, <2>2, FS_Subset
  <2>7. Sum(f, t \ {p}) = f[y] + Sum(f, t \ {p, y})
    <3>1. (t \ {p}) \ {y} = t \ {p, y} /\ y \in t \ {p}
      BY <2>5
    <3> QED
      BY <2>4, <2>6, <3>1
  <2>8. Sum(f, t \ {y}) = f[p] + Sum(f, t \ {p, y})
    <3>1. (t \ {y}) \ {p} = t \ {p, y} /\ p \in t \ {y}
      BY <2>4, <2>5
    <3> QED
      BY <2>6, <3>1
  <2>9. f[p] \in Nat /\ f[y] \in Nat /\ Sum(f, t \ {p, y}) \in Nat
    <3>1. IsFiniteSet(t \ {p, y})
      BY <2>2, FS_Subset
    <3> QED
      BY <2>2, <2>4, <3>1, SumNat
  <2> QED
    BY <2>3, <2>4, <2>7, <2>8, <2>9
<1> QED
  BY <1>1

LEMMA SumAdd ==
  ASSUME NEW f, NEW S, IsFiniteSet(S), NEW x, x \notin S,
         \A y \in S \union {x} : f[y] \in Nat
  PROVE  Sum(f, S \union {x}) = Sum(f, S) + f[x]
<1>1. IsFiniteSet(S \union {x}) /\ (S \union {x}) \ {x} = S
  BY FS_AddElement
<1>2. Sum(f, S \union {x}) = f[x] + Sum(f, (S \union {x}) \ {x})
  BY <1>1, SumTake
<1>3. Sum(f, S) \in Nat /\ f[x] \in Nat
  BY SumNat
<1>4. Sum(f, S \union {x}) = f[x] + Sum(f, S)
  BY <1>1, <1>2
<1> QED
  BY <1>3, <1>4

\* A part of a set, charged no more for any element, sums up to no more.
LEMMA SumLeq ==
  ASSUME NEW f, NEW g, NEW S, IsFiniteSet(S), NEW T, T \subseteq S,
         \A x \in T : f[x] \in Nat /\ f[x] <= g[x], \A x \in S : g[x] \in Nat
  PROVE  Sum(f, T) <= Sum(g, S)
<1> DEFINE B == {s \in SUBSET S : ~ Sum(f, s \intersect T) <= Sum(g, s)}
<1>1. ASSUME B # {} PROVE FALSE
  <2>1. PICK t \in B : \A u \in B : u \subseteq t => u = t
    <3>1. B \subseteq SUBSET S
      OBVIOUS
    <3> HIDE DEF B
    <3> QED
      BY <1>1, <3>1, SmallestSet
  <2>2. /\ t \in SUBSET S /\ IsFiniteSet(t) /\ ~ Sum(f, t \intersect T) <= Sum(g, t)
    BY FS_Subset
  <2>3. t # {}
    <3>1. Sum(f, {}) = 0 /\ Sum(g, {}) = 0 /\ {} \intersect T = {}
      BY SumEmpty
    <3> QED
      BY <2>2, <3>1
  <2>4. PICK x \in t : TRUE
    BY <2>3
  <2> DEFINE u == t \ {x}
  <2>5. u \in SUBSET S /\ u \notin B /\ IsFiniteSet(u) /\ IsFiniteSet(u \intersect T)
    BY <2>1, <2>2, FS_Subset
  <2>6. Sum(f, u \intersect T) <= Sum(g, u)
    BY <2>5
  <2>7. Sum(g, t) = g[x] + Sum(g, u)
    BY <2>2, SumTake
  <2>8. Sum(f, u \intersect T) \in Nat /\ Sum(g, u) \in Nat /\ g[x] \in Nat
    BY <2>2, <2>5, SumNat
  <2>9. CASE x \in T
    <3>1. IsFiniteSet(t \intersect T) /\ (t \intersect T) \ {x} = u \intersect T
      BY <2>2, FS_Subset
    <3>2. Sum(f, t \intersect T) = f[x] + Sum(f, (t \intersect T) \ {x})
      BY <2>9, <3>1, SumTake
    <3>3. Sum(f, t \intersect T) = f[x] + Sum(f, u \intersect T)
      BY <3>1, <3>2
    <3>4. f[x] \in Nat /\ f[x] <= g[x]
      BY <2>9
    <3> HIDE DEF u
    <3> QED
      BY <2>2, <2>6, <2>7, <2>8, <3>3, <3>4
  <2>10. CASE x \notin T
    <3>1. t \intersect T = u \intersect T
      BY <2>10
    <3>2. Sum(f, t \intersect T) = Sum(f, u \intersect T)
      BY <3>1
    <3> HIDE DEF u
    <3> QED
      BY <2>2, <2>6, <2>7, <2>8, <3>2
  <2> QED
    BY <2>9, <2>10
<1>2. S \intersect T = T
  OBVIOUS
<1> QED
  BY <1>1, <1>2

\* A finite set of numbers that is not empty has a greatest member.
LEMMA Greatest ==
  ASSUME NEW f, NEW S, IsFiniteSet(S), S # {}, \A x \in S : f[x] \in Nat
  PROVE  \E x \in S : \A y \in S : f[y] <= f[x]
<1> DEFINE B == {s \in SUBSET S : s # {} /\ ~ \E x \in s : \A y \in s : f[y] <= f[x]}
<1>1. ASSUME B # {} PROVE FALSE
  <2>1. PICK t \in B : \A u \in B : u \subseteq t => u = t
    <3>1. B \subseteq SUBSET S
      OBVIOUS
    <3> HIDE DEF B
    <3> QED
      BY <1>1, <3>1, SmallestSet
  <2>2. t \in SUBSET S /\ t # {} /\ ~ \E x \in t : \A y \in t : f[y] <= f[x]
    OBVIOUS
  <2>3. PICK z \in t : TRUE
    BY <2>2
  <2>4. t \ {z} \in SUBSET S /\ t \ {z} \notin B
    BY <2>1, <2>2, <2>3
  <2>5. CASE t \ {z} = {}
    <3>1. \A y \in t : y = z
      BY <2>5
    <3> QED
      BY <2>2, <3>1
  <2>6. CASE t \ {z} # {}
    <3>1. PICK x \in t \ {z} : \A y \in t \ {z} : f[y] <= f[x]
      BY <2>4, <2>6
    <3>2. \A y \in t : f[y] \in Nat
      BY <2>2
    <3>3. f[x] <= f[z] => \A y \in t : f[y] <= f[z]
      BY <3>1, <3>2
    <3>4. ~(f[x] <= f[z]) => \A y \in t : f[y] <= f[x]
      BY <3>1, <3>2
    <3> QED
      BY <2>2, <3>3, <3>4
  <2> QED
    BY <2>5, <2>6
<1> QED
  BY <1>1
=============================================================================
