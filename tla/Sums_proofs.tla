----------------------------- MODULE Sums_proofs -----------------------------
(***************************************************************************)
(* The sums the status of a Water and of a Stone is made of: a sum of      *)
(* finitely many natural numbers is a natural number.                      *)
(*                                                                         *)
(* SumFunction is a recursive function on the subsets of a domain.  That   *)
(* it exists is shown by induction on their size; the induction is one on  *)
(* sets of numbers (Induction), from the least number that is missing.     *)
(***************************************************************************)
EXTENDS Integers, Functions, FiniteSetTheorems, WellFoundedInduction, TLAPS

\* A set of numbers with 0 and every successor has all numbers.
LEMMA Induction ==
  ASSUME NEW N \in SUBSET Nat, 0 \in N, \A n \in N : n + 1 \in N
  PROVE  N = Nat
<1> SUFFICES ASSUME Nat \ N # {} PROVE FALSE
  OBVIOUS
<1> DEFINE T == Nat \ N
           R == OpToRel(<, Nat)
<1>1. \A x, y \in Nat : x < y => <<x, y>> \in R
  BY DEF OpToRel
<1>2. IsWellFoundedOn(R, Nat)
  BY NatLessThanWellFounded
<1> HIDE DEF R
<1>3. PICK x \in T : \A y \in T : ~(<<y, x>> \in R)
  BY <1>2, WFMin
<1>4. x \in Nat \ {0}
  BY <1>3
<1>5. x - 1 \in Nat /\ x - 1 < x /\ (x - 1) + 1 = x
  BY <1>4
<1>6. x - 1 \in N
  BY <1>1, <1>3, <1>4, <1>5
<1>7. (x - 1) + 1 \in N
  BY <1>6
<1> QED
  BY <1>3, <1>5, <1>7

\* One element of a set, and what a sum of F over a set is in terms of a
\* smaller set.
Some(s) == CHOOSE x \in s : TRUE
Step(F, g, s) == IF s = {} THEN 0 ELSE F[Some(s)] + g[s \ {Some(s)}]

\* The subsets of D with at most n elements.
UpTo(D, n) == {s \in SUBSET D : Cardinality(s) <= n}

\* Taking an element away.
LEMMA Smaller ==
  ASSUME NEW D, IsFiniteSet(D), NEW n \in Nat, NEW s \in UpTo(D, n + 1), s # {}
  PROVE  Some(s) \in D /\ s \ {Some(s)} \in UpTo(D, n)
<1>1. Some(s) \in s
  BY DEF Some
<1>2. s \in SUBSET D /\ Cardinality(s) <= n + 1
  BY DEF UpTo
<1>3. IsFiniteSet(s)
  BY <1>2, FS_Subset
<1>4. Cardinality(s \ {Some(s)}) = Cardinality(s) - 1 /\ Cardinality(s) \in Nat
  BY <1>1, <1>3, FS_RemoveElement, FS_CardinalityType
<1> QED
  BY <1>1, <1>2, <1>4 DEF UpTo

\* The sums over all subsets exist.
LEMMA SumsExist ==
  ASSUME NEW D, IsFiniteSet(D), NEW F \in [D -> Nat]
  PROVE  \E g \in [SUBSET D -> Nat] : \A s \in SUBSET D : g[s] = Step(F, g, s)
<1> DEFINE Sums(n, g) == /\ g \in [UpTo(D, n) -> Nat]
                         /\ \A s \in UpTo(D, n) : g[s] = Step(F, g, s)
           N == {n \in Nat : \E g : Sums(n, g)}
<1>1. 0 \in N
  <2> DEFINE g == [s \in UpTo(D, 0) |-> 0]
  <2>1. \A s \in UpTo(D, 0) : s = {}
    <3> SUFFICES ASSUME NEW s \in UpTo(D, 0), s # {} PROVE FALSE
      OBVIOUS
    <3>1. IsFiniteSet(s) /\ Cardinality(s) <= 0
      BY FS_Subset DEF UpTo
    <3> QED
      BY <3>1, FS_EmptySet, FS_CardinalityType
  <2>2. Sums(0, g)
    BY <2>1 DEF Step
  <2> HIDE DEF g
  <2> QED
    BY <2>2
<1>2. ASSUME NEW n \in N PROVE n + 1 \in N
  <2>1. PICK g : Sums(n, g)
    OBVIOUS
  <2> DEFINE h == [s \in UpTo(D, n + 1) |-> Step(F, g, s)]
  <2>2. UpTo(D, n) \subseteq UpTo(D, n + 1)
    <3> SUFFICES ASSUME NEW s \in UpTo(D, n) PROVE s \in UpTo(D, n + 1)
      OBVIOUS
    <3>1. IsFiniteSet(s) /\ s \in SUBSET D /\ Cardinality(s) <= n
      BY FS_Subset DEF UpTo
    <3>2. Cardinality(s) \in Nat
      BY <3>1, FS_CardinalityType
    <3> QED
      BY <3>1, <3>2 DEF UpTo
  <2>3. \A s \in UpTo(D, n) : h[s] = g[s]
    BY <2>1, <2>2
  <2>4. ASSUME NEW s \in UpTo(D, n + 1)
        PROVE  Step(F, g, s) \in Nat /\ Step(F, h, s) = Step(F, g, s)
    <3>1. CASE s = {}
      BY <3>1 DEF Step
    <3>2. CASE s # {}
      <4>1. Some(s) \in D /\ s \ {Some(s)} \in UpTo(D, n)
        BY <3>2, Smaller
      <4> HIDE DEF h
      <4>2. F[Some(s)] \in Nat /\ g[s \ {Some(s)}] \in Nat
        BY <2>1, <4>1
      <4> QED
        BY <2>3, <3>2, <4>1, <4>2 DEF Step
    <3> QED
      BY <3>1, <3>2
  <2>5. h \in [UpTo(D, n + 1) -> Nat]
    BY <2>4
  <2>6. \A s \in UpTo(D, n + 1) : h[s] = Step(F, h, s)
    BY <2>4
  <2> HIDE DEF h
  <2>7. Sums(n + 1, h)
    BY <2>5, <2>6
  <2> QED
    BY <2>7
<1>3. N = Nat
  <2> HIDE DEF Sums
  <2>1. N \in SUBSET Nat
    OBVIOUS
  <2> HIDE DEF N
  <2> QED
    BY <1>1, <1>2, <2>1, Induction
<1>4. Cardinality(D) \in Nat
  BY FS_CardinalityType
<1>5. UpTo(D, Cardinality(D)) = SUBSET D
  BY FS_Subset DEF UpTo
<1>6. PICK g : Sums(Cardinality(D), g)
  BY <1>3, <1>4
<1> QED
  BY <1>5, <1>6

\* A sum of finitely many natural numbers is a natural number.
THEOREM SumIsNat ==
  ASSUME NEW F, IsFiniteSet(DOMAIN F), F \in [DOMAIN F -> Nat]
  PROVE  SumFunction(F) \in Nat
<1> DEFINE D == DOMAIN F
           sum == CHOOSE g : g = [s \in SUBSET D |-> Step(F, g, s)]
<1>1. SumFunction(F) = sum[D]
  BY Zenon DEF SumFunction, SumFunctionOnSet, FoldFunctionOnSet,
     MapThenFoldSet, Step, Some
<1>2. PICK g \in [SUBSET D -> Nat] : \A s \in SUBSET D : g[s] = Step(F, g, s)
  BY SumsExist
<1>3. g = [s \in SUBSET D |-> Step(F, g, s)]
  BY <1>2
<1>4. sum = [s \in SUBSET D |-> Step(F, sum, s)]
  BY <1>3, Zenon
<1> HIDE DEF sum
<1> DEFINE N == {n \in Nat : \A s \in UpTo(D, n) : sum[s] \in Nat}
<1>5. \A s \in SUBSET D : sum[s] = Step(F, sum, s)
  BY <1>4
<1>6. 0 \in N
  <2> SUFFICES ASSUME NEW s \in UpTo(D, 0) PROVE sum[s] \in Nat
    OBVIOUS
  <2>1. s \in SUBSET D /\ Cardinality(s) <= 0 /\ IsFiniteSet(s)
    BY FS_Subset DEF UpTo
  <2>2. s = {}
    BY <2>1, FS_EmptySet, FS_CardinalityType
  <2> QED
    BY <1>5, <2>1, <2>2 DEF Step
<1>7. ASSUME NEW n \in N PROVE n + 1 \in N
  <2> SUFFICES ASSUME NEW s \in UpTo(D, n + 1) PROVE sum[s] \in Nat
    OBVIOUS
  <2>1. s \in SUBSET D
    BY DEF UpTo
  <2>2. sum[s] = Step(F, sum, s)
    BY <1>5, <2>1
  <2>3. CASE s = {}
    <3>1. Step(F, sum, s) = 0
      BY <2>3, Zenon DEF Step
    <3> QED
      BY <2>2, <3>1
  <2>4. CASE s # {}
    <3>1. Some(s) \in D /\ s \ {Some(s)} \in UpTo(D, n)
      BY <2>4, Smaller
    <3>2. F[Some(s)] \in Nat /\ sum[s \ {Some(s)}] \in Nat
      BY <3>1
    <3>3. Step(F, sum, s) = F[Some(s)] + sum[s \ {Some(s)}]
      BY <2>4, Zenon DEF Step
    <3> HIDE DEF N
    <3> QED
      BY <2>2, <3>2, <3>3
  <2> QED
    BY <2>3, <2>4
<1>8. N = Nat
  <2>1. N \in SUBSET Nat
    OBVIOUS
  <2> HIDE DEF N
  <2> QED
    BY <1>6, <1>7, <2>1, Induction
<1>9. D \in UpTo(D, Cardinality(D)) /\ Cardinality(D) \in Nat
  BY FS_CardinalityType DEF UpTo
<1>10. sum[D] \in Nat
  BY <1>8, <1>9
<1> QED
  BY <1>1, <1>10
=============================================================================
