---------------------- MODULE InjectorController_proofs ----------------------
(***************************************************************************)
(* The admission webhooks and the controller of Injectors, for every       *)
(* namespace, set of nodes, workloads and Injectors: pods run where the    *)
(* limit of their namespace says, sidecars stand around the containers of  *)
(* a pod, children are made as their owners ask, and writing back what was *)
(* read undoes nothing.                                                    *)
(***************************************************************************)
EXTENDS InjectorController, FiniteSetTheorems, SequenceTheorems,
        WellFoundedInduction, TLAPS

-----------------------------------------------------------------------------
(* Repeated elements.                                                       *)

\* Numbers that are bounded have a largest one.
LEMMA Largest ==
  ASSUME NEW n \in Nat, NEW S \in SUBSET (1 .. n), S # {}
  PROVE  \E m \in S : \A k \in S : k <= m
<1> DEFINE T == {n - k : k \in S}
           R == OpToRel(<, Nat)
<1>0. \A k \in S : k \in Nat /\ n - k \in Nat
  OBVIOUS
<1>1. T \subseteq Nat /\ T # {}
  BY <1>0
<1>2. \A x, y \in Nat : x < y => <<x, y>> \in R
  BY DEF OpToRel
<1>3. IsWellFoundedOn(R, Nat)
  BY NatLessThanWellFounded
<1> HIDE DEF R
<1>4. PICK x \in T : \A y \in T : ~(<<y, x>> \in R)
  BY <1>1, <1>3, WFMin
<1>5. PICK m \in S : x = n - m
  BY <1>4
<1>6. \A k \in S : ~(n - k < n - m)
  BY <1>0, <1>2, <1>4, <1>5
<1> QED
  BY <1>0, <1>6

\* The position of a position among others: they are counted in their order,
\* and every number up to theirs is reached.
LEMMA Ranks ==
  ASSUME NEW n \in Nat, NEW P \in SUBSET (1 .. n)
  PROVE  /\ Cardinality(P) \in Nat
         /\ \A i \in P : Rank(P, i) \in 1 .. Cardinality(P)
         /\ \A i, j \in P : i < j => Rank(P, i) < Rank(P, j)
         /\ \A k \in 1 .. Cardinality(P) : \E i \in P : Rank(P, i) = k
<1> DEFINE Below(i) == {j \in P : j <= i}
           c == Cardinality(P)
<1>0. \A i \in P : i \in Nat
  OBVIOUS
<1>1. IsFiniteSet(1 .. n)
  BY FS_Interval
<1>2. IsFiniteSet(P) /\ c \in Nat
  BY <1>1, FS_Subset, FS_CardinalityType
<1>3. ASSUME NEW i \in P
      PROVE  /\ IsFiniteSet(Below(i)) /\ Rank(P, i) \in Nat
             /\ Rank(P, i) <= c /\ Rank(P, i) >= 1
  <2>1. IsFiniteSet(Below(i)) /\ Cardinality(Below(i)) <= c
    BY <1>2, FS_Subset
  <2>2. i \in Below(i)
    BY <1>0
  <2>3. Cardinality(Below(i)) \in Nat /\ Cardinality(Below(i)) # 0
    BY <2>1, <2>2, FS_CardinalityType, FS_EmptySet
  <2> QED
    BY <2>1, <2>3 DEF Rank
<1>4. ASSUME NEW i \in P, NEW j \in P, i < j
      PROVE  Rank(P, i) < Rank(P, j)
  <2>0. i \in Nat /\ j \in Nat /\ \A x \in Nat : x <= i => x <= j
    BY <1>0, <1>4
  <2>1. Below(i) \subseteq Below(j) /\ j \in Below(j) /\ j \notin Below(i)
    <3>1. \A x \in P : x <= i => x <= j
      BY <1>0, <2>0
    <3>2. j <= j /\ ~(j <= i)
      BY <1>4, <2>0
    <3> QED
      BY <3>1, <3>2
  <2>2. Cardinality(Below(i)) <= Cardinality(Below(j))
        /\ Cardinality(Below(i)) # Cardinality(Below(j))
    BY <1>3, <2>1, FS_Subset
  <2> QED
    BY <1>3, <2>2 DEF Rank
<1>5. ASSUME NEW i \in P PROVE Rank(P, i) \in 1 .. c
  <2>1. Rank(P, i) \in Nat /\ Rank(P, i) <= c /\ Rank(P, i) >= 1
    BY <1>3
  <2> HIDE DEF c
  <2> QED
    BY <1>2, <2>1
<1>6. ASSUME NEW k \in 1 .. c PROVE \E i \in P : Rank(P, i) = k
  <2> DEFINE f == [i \in P |-> Rank(P, i)]
  <2>1. f \in [P -> 1 .. c]
    BY <1>5
  <2>2. \A i, j \in P : f[i] = f[j] => i = j
    <3>1. \A i, j \in P : i < j \/ j < i \/ i = j
      BY <1>0
    <3>2. \A i, j \in P : Rank(P, i) < Rank(P, j) => Rank(P, i) # Rank(P, j)
      BY <1>5
    <3> QED
      BY <1>4, <3>1, <3>2
  <2>3. f \in Injection(P, 1 .. c)
    BY <2>1, <2>2 DEF Injection, IsInjective
  <2>4. IsFiniteSet(1 .. c) /\ Cardinality(1 .. c) = c
    BY <1>2, FS_Interval
  <2>5. f \in Surjection(P, 1 .. c)
    BY <2>3, <2>4, FS_Injection
  <2> QED
    BY <2>5 DEF Surjection
<1> QED
  BY <1>2, <1>4, <1>5, <1>6

\* Pick takes what stands at the positions, in their order.
LEMMA Picked ==
  ASSUME NEW S, NEW arr \in Seq(S), NEW P \in SUBSET DOMAIN arr
  PROVE  /\ Pick(arr, P) \in Seq(S) /\ Len(Pick(arr, P)) = Cardinality(P)
         /\ DOMAIN Pick(arr, P) = 1 .. Cardinality(P)
         /\ \A i \in P : Rank(P, i) \in 1 .. Cardinality(P)
                         /\ Pick(arr, P)[Rank(P, i)] = arr[i]
         /\ \A k \in 1 .. Cardinality(P) : \E i \in P :
              Rank(P, i) = k /\ Pick(arr, P)[k] = arr[i]
<1> DEFINE c == Cardinality(P)
           At(k) == CHOOSE i \in P : Rank(P, i) = k
<1>0. Len(arr) \in Nat /\ DOMAIN arr = 1 .. Len(arr)
  BY LenProperties
<1>1. /\ c \in Nat
      /\ \A i \in P : Rank(P, i) \in 1 .. c
      /\ \A i, j \in P : i < j => Rank(P, i) < Rank(P, j)
      /\ \A k \in 1 .. c : \E i \in P : Rank(P, i) = k
  BY <1>0, Ranks
<1>2. \A k \in 1 .. c : At(k) \in P /\ Rank(P, At(k)) = k
  BY <1>1
<1>3. \A i, j \in P : Rank(P, i) = Rank(P, j) => i = j
  BY <1>0, <1>1
<1>4. Pick(arr, P) = [k \in 1 .. c |-> arr[At(k)]]
  BY DEF Pick
<1> HIDE DEF At
<1>5. \A k \in 1 .. c : arr[At(k)] \in S
  BY <1>0, <1>2
<1>6. Pick(arr, P) \in Seq(S) /\ Len(Pick(arr, P)) = c
  BY <1>1, <1>4, <1>5
<1> QED
  BY <1>1, <1>2, <1>3, <1>4, <1>6

\* removeRepeatedElement loses no element and leaves none twice.
THEOREM RepeatedRemoved ==
  ASSUME NEW S, NEW arr \in Seq(S)
  PROVE  /\ removeRepeatedElement(arr) \in Seq(S)
         /\ ToSet(removeRepeatedElement(arr)) = ToSet(arr)
         /\ IsInjective(removeRepeatedElement(arr))
<1> DEFINE P == LastOccurrences(arr)
           new == removeRepeatedElement(arr)
           n == Len(arr)
<1>0. n \in Nat /\ DOMAIN arr = 1 .. n
  BY LenProperties
<1>1. P \in SUBSET DOMAIN arr
  BY DEF LastOccurrences
<1>2. new = Pick(arr, P)
  BY DEF removeRepeatedElement
<1> DEFINE c == Cardinality(P)
<1>3. /\ new \in Seq(S) /\ DOMAIN new = 1 .. c
      /\ \A i \in P : Rank(P, i) \in 1 .. c /\ new[Rank(P, i)] = arr[i]
      /\ \A k \in 1 .. c : \E i \in P : Rank(P, i) = k /\ new[k] = arr[i]
  BY <1>1, <1>2, Picked
<1>4. ASSUME NEW i \in DOMAIN arr PROVE \E j \in P : arr[j] = arr[i]
  <2> DEFINE Q == {j \in 1 .. n : arr[j] = arr[i]}
  <2>1. Q \in SUBSET (1 .. n) /\ i \in Q
    BY <1>0
  <2>2. PICK m \in Q : \A k \in Q : k <= m
    BY <1>0, <2>1, Largest
  <2>3. \A k \in m + 1 .. n : k \notin Q
    BY <1>0, <2>2
  <2>4. \A k \in m + 1 .. n : arr[k] # arr[m]
    BY <1>0, <2>1, <2>2, <2>3
  <2> QED
    BY <1>0, <2>2, <2>4 DEF LastOccurrences
<1>5. ASSUME NEW i \in P, NEW j \in P, arr[i] = arr[j] PROVE i = j
  BY <1>0, <1>5 DEF LastOccurrences
<1> HIDE DEF P, new
<1>6. ToSet(new) = ToSet(arr)
  <2>1. \A x \in ToSet(new) : x \in ToSet(arr)
    BY <1>1, <1>3 DEF ToSet
  <2>2. \A x \in ToSet(arr) : x \in ToSet(new)
    BY <1>3, <1>4 DEF ToSet
  <2> QED
    BY <2>1, <2>2
<1>7. IsInjective(new)
  BY <1>3, <1>5 DEF IsInjective
<1> QED
  BY <1>3, <1>6, <1>7 DEF new

-----------------------------------------------------------------------------
(* Sidecars.                                                                *)

\* The arithmetic of OwnAt and SidecarAt.
LEMMA Arithmetic ==
  ASSUME NEW L \in Nat \ {0}
  PROVE  /\ \A x \in 0 .. L - 1 : x % L = x /\ x \div L = 0
         /\ L % L = 0 /\ L \div L = 1
         /\ \A n \in Nat : n >= 2 => n * L \in Nat /\ L + 1 <= n * L
<1>1. ASSUME NEW x \in 0 .. L - 1 PROVE x % L = x /\ x \div L = 0
  OBVIOUS
<1>2. L % L = 0 /\ L \div L = 1
  OBVIOUS
<1>3. ASSUME NEW n \in Nat, n >= 2 PROVE n * L \in Nat /\ L + 1 <= n * L
  BY <1>3
<1> QED
  BY <1>1, <1>2, <1>3

\* The containers of a pod.
Container == [name : STRING, copy : Nat]

\* The sidecars of a pod with one container: each of them once.
LEMMA SidecarsOnce ==
  ASSUME NEW own \in Seq(STRING), NEW side \in Seq(STRING), NEW base \in Nat,
         Len(own) = 1 \/ side = <<>>
  PROVE  LET s == Sidecars(own, side, base)
         IN  /\ s \in Seq(Container) /\ Len(s) = Len(side)
             /\ \A m \in 1 .. Len(side) : s[m].name = side[m]
<1> DEFINE L == Len(side)
           n == Len(own)
           C(i, k) == [name |-> side[k],
                       copy |-> IF side[k] = own[i] THEN base + i ELSE 0]
           s == Sidecars(own, side, base)
<1>1. s = [m \in 1 .. n * L |-> C((m - 1) \div L + 1, ((m - 1) % L) + 1)]
  BY DEF Sidecars, OwnAt, SidecarAt
<1>2. L \in Nat /\ n \in Nat /\ (side = <<>> => L = 0)
  OBVIOUS
<1>3. n * L = L
  <2>1. \A x \in Nat : 1 * x = x /\ x * 0 = 0
    OBVIOUS
  <2>2. n = 1 \/ L = 0
    BY <1>2
  <2> HIDE DEF n, L
  <2> QED
    BY <1>2, <2>1, <2>2
<1>4. ASSUME NEW m \in 1 .. L
      PROVE  ((m - 1) % L) + 1 = m /\ (m - 1) \div L + 1 = 1
  <2>1. L \in Nat \ {0} /\ m - 1 \in 0 .. L - 1
    BY <1>2
  <2>2. (m - 1) % L = m - 1 /\ (m - 1) \div L = 0
    BY <2>1, Arithmetic
  <2> QED
    BY <2>2
<1>5. \A m \in 1 .. L : C(1, m) \in Container /\ C(1, m).name = side[m]
  BY <1>2 DEF Container
<1>6. s = [m \in 1 .. L |-> C(1, m)]
  BY <1>1, <1>3, <1>4
<1> HIDE DEF C
<1> QED
  BY <1>2, <1>5, <1>6

\* The sidecars of a pod with several containers: the first one is there
\* again after the last one, and one of the two is not renamed.
LEMMA SidecarsTwice ==
  ASSUME NEW own \in Seq(STRING), NEW side \in Seq(STRING), NEW base \in Nat,
         Len(own) >= 2, side # <<>>
  PROVE  LET s == Sidecars(own, side, base)
             L == Len(side)
         IN  /\ s \in Seq(Container)
             /\ L \in Nat \ {0} /\ L + 1 <= Len(s)
             /\ s[1] = [name |-> side[1],
                        copy |-> IF side[1] = own[1] THEN base + 1 ELSE 0]
             /\ s[L + 1] = [name |-> side[1],
                            copy |-> IF side[1] = own[2] THEN base + 2 ELSE 0]
<1> DEFINE L == Len(side)
           n == Len(own)
           C(i, k) == [name |-> side[k],
                       copy |-> IF side[k] = own[i] THEN base + i ELSE 0]
           s == Sidecars(own, side, base)
           N == n * L
<1>1. s = [m \in 1 .. N |-> C((m - 1) \div L + 1, ((m - 1) % L) + 1)]
  BY DEF Sidecars, OwnAt, SidecarAt
<1>2. L \in Nat \ {0} /\ n \in Nat
  BY EmptySeq
<1>3. N \in Nat /\ L + 1 <= N
  BY <1>2, Arithmetic
<1>4. (L + 1 - 1) \div L + 1 = 2 /\ ((L + 1 - 1) % L) + 1 = 1
  BY <1>2, Arithmetic
<1>5. (1 - 1) \div L + 1 = 1 /\ ((1 - 1) % L) + 1 = 1
  BY <1>2, Arithmetic
<1>6. ASSUME NEW m \in 1 .. N
      PROVE  C((m - 1) \div L + 1, ((m - 1) % L) + 1) \in Container
  <2>1. (m - 1) % L \in 0 .. L - 1 /\ (m - 1) \div L \in Nat
    BY <1>2, <1>3
  <2>2. side[((m - 1) % L) + 1] \in STRING
    BY <1>2, <2>1
  <2> QED
    BY <2>1, <2>2 DEF Container
<1> HIDE DEF C, N
<1>7. s \in Seq(Container) /\ Len(s) = N
  BY <1>1, <1>3, <1>6
<1>8. s[1] = C(1, 1) /\ s[L + 1] = C(2, 1)
  BY <1>1, <1>2, <1>3, <1>4, <1>5
<1> QED
  BY <1>2, <1>3, <1>7, <1>8 DEF C

\* The containers of the pod itself.
LEMMA PlainContainers ==
  ASSUME NEW own \in Seq(STRING)
  PROVE  /\ Plain(own) \in Seq(Container) /\ Len(Plain(own)) = Len(own)
         /\ \A k \in 1 .. Len(own) : Plain(own)[k] = [name |-> own[k], copy |-> 0]
<1>1. DOMAIN own = 1 .. Len(own) /\ Len(own) \in Nat
  BY LenProperties
<1>2. Plain(own) = [k \in 1 .. Len(own) |-> [name |-> own[k], copy |-> 0]]
  BY <1>1 DEF Plain
<1>3. \A k \in 1 .. Len(own) : [name |-> own[k], copy |-> 0] \in Container
  BY <1>1 DEF Container
<1> QED
  BY <1>1, <1>2, <1>3

\* The concatenation of sequences.
LEMMA TwoParts ==
  ASSUME NEW S, NEW a \in Seq(S), NEW b \in Seq(S)
  PROVE  LET t == a \o b
         IN  /\ t \in Seq(S) /\ Len(t) = Len(a) + Len(b)
             /\ \A k \in 1 .. Len(a) : t[k] = a[k]
             /\ \A k \in 1 .. Len(b) : t[Len(a) + k] = b[k]
  OBVIOUS

\* The concatenation of three.
LEMMA ThreeParts ==
  ASSUME NEW S, NEW a \in Seq(S), NEW b \in Seq(S), NEW c \in Seq(S)
  PROVE  LET s == a \o b \o c
         IN  /\ s \in Seq(S) /\ Len(s) = Len(a) + Len(b) + Len(c)
             /\ \A k \in 1 .. Len(a) : s[k] = a[k]
             /\ \A k \in 1 .. Len(b) : s[Len(a) + k] = b[k]
             /\ \A k \in 1 .. Len(c) : s[Len(a) + Len(b) + k] = c[k]
<1> DEFINE t == a \o b
           s == t \o c
<1>1. Len(a) \in Nat /\ Len(b) \in Nat /\ Len(c) \in Nat
  OBVIOUS
<1>2. t \in Seq(S) /\ Len(t) = Len(a) + Len(b)
      /\ (\A k \in 1 .. Len(a) : t[k] = a[k])
      /\ (\A k \in 1 .. Len(b) : t[Len(a) + k] = b[k])
  BY TwoParts
<1> HIDE DEF t
<1>3. s \in Seq(S) /\ Len(s) = Len(t) + Len(c)
      /\ (\A k \in 1 .. Len(t) : s[k] = t[k])
      /\ (\A k \in 1 .. Len(c) : s[Len(t) + k] = c[k])
  <2>1. ASSUME NEW u \in Seq(S)
        PROVE  /\ u \o c \in Seq(S) /\ Len(u \o c) = Len(u) + Len(c)
               /\ \A k \in 1 .. Len(u) : (u \o c)[k] = u[k]
               /\ \A k \in 1 .. Len(c) : (u \o c)[Len(u) + k] = c[k]
    BY TwoParts
  <2>2. t \in Seq(S)
    BY <1>2
  <2> QED
    BY <2>1, <2>2, Zenon
<1> HIDE DEF s
<1>4. \A k \in 1 .. Len(a) : s[k] = a[k]
  BY <1>1, <1>2, <1>3
<1>5. \A k \in 1 .. Len(b) : s[Len(a) + k] = b[k]
  BY <1>1, <1>2, <1>3
<1> QED
  BY <1>2, <1>3, <1>4, <1>5 DEF s, t

\* A pod with several containers and a sidecar has a name twice.
LEMMA NameTwice ==
  ASSUME NEW own \in Seq(STRING), NEW side \in Seq(STRING), NEW base \in Nat,
         Len(own) >= 2, side # <<>>, IsInjective(own),
         NEW stored \in Seq(Container), NEW d \in Nat, NEW e \in Nat,
         LET s == Sidecars(own, side, base)
         IN  /\ d + Len(s) <= Len(stored) /\ e + Len(own) <= Len(stored)
             /\ d + Len(s) <= e \/ e + Len(own) <= d
             /\ \A k \in 1 .. Len(s) : stored[d + k] = s[k]
             /\ \A k \in 1 .. Len(own) : stored[e + k] = Plain(own)[k]
  PROVE  ~IsInjective(stored)
<1> DEFINE s == Sidecars(own, side, base)
           L == Len(side)
           n == Len(own)
           x == side[1]
<1>1. /\ s \in Seq(Container) /\ L \in Nat \ {0} /\ L + 1 <= Len(s)
      /\ s[1] = [name |-> x, copy |-> IF x = own[1] THEN base + 1 ELSE 0]
      /\ s[L + 1] = [name |-> x, copy |-> IF x = own[2] THEN base + 2 ELSE 0]
  BY SidecarsTwice
<1>2. n \in Nat /\ DOMAIN own = 1 .. n /\ Len(stored) \in Nat /\ Len(s) \in Nat
      /\ DOMAIN stored = 1 .. Len(stored)
  BY <1>1, LenProperties
<1>3. /\ Plain(own)[1] = [name |-> own[1], copy |-> 0]
      /\ Plain(own)[2] = [name |-> own[2], copy |-> 0]
  BY <1>2, PlainContainers
<1>4. own[1] # own[2]
  BY <1>2 DEF IsInjective
<1> HIDE DEF s, L, n, x
<1>5. /\ d + Len(s) <= Len(stored) /\ e + n <= Len(stored)
      /\ d + Len(s) <= e \/ e + n <= d
      /\ \A k \in 1 .. Len(s) : stored[d + k] = s[k]
      /\ \A k \in 1 .. n : stored[e + k] = Plain(own)[k]
  BY DEF s, n
<1>6. 2 <= n
  BY DEF n
<1>7. /\ {d + 1, d + (L + 1), e + 1, e + 2} \subseteq DOMAIN stored
      /\ d + 1 # d + (L + 1) /\ d + 1 # e + 2 /\ d + (L + 1) # e + 1
  <2>1. /\ d + Len(s) <= Len(stored) /\ e + n <= Len(stored)
        /\ d + Len(s) <= e \/ e + n <= d
        /\ L \in Nat \ {0} /\ L + 1 <= Len(s) /\ Len(s) \in Nat /\ n \in Nat
        /\ Len(stored) \in Nat
    BY <1>1, <1>2, <1>5
  <2>2. /\ d + 1 \in 1 .. Len(stored) /\ d + (L + 1) \in 1 .. Len(stored)
        /\ e + 1 \in 1 .. Len(stored) /\ e + 2 \in 1 .. Len(stored)
    BY <2>1, <1>6
  <2>3. d + 1 # d + (L + 1) /\ d + 1 # e + 2 /\ d + (L + 1) # e + 1
    BY <2>1, <1>6
  <2> QED
    BY <1>2, <2>2, <2>3
<1>8. /\ stored[d + 1] = s[1] /\ stored[d + (L + 1)] = s[L + 1]
      /\ stored[e + 1] = Plain(own)[1] /\ stored[e + 2] = Plain(own)[2]
  <2>1. 1 \in 1 .. Len(s) /\ L + 1 \in 1 .. Len(s) /\ 1 \in 1 .. n /\ 2 \in 1 .. n
    BY <1>1, <1>2, <1>6
  <2> QED
    BY <1>5, <2>1
<1>9. CASE x = own[1]
  <2>1. stored[d + (L + 1)] = stored[e + 1]
    BY <1>1, <1>3, <1>4, <1>8, <1>9
  <2> QED
    BY <1>7, <2>1 DEF IsInjective
<1>10. CASE x = own[2]
  <2>1. stored[d + 1] = stored[e + 2]
    BY <1>1, <1>3, <1>4, <1>8, <1>10
  <2> QED
    BY <1>7, <2>1 DEF IsInjective
<1>11. CASE x # own[1] /\ x # own[2]
  <2>1. stored[d + 1] = stored[d + (L + 1)]
    BY <1>1, <1>8, <1>11
  <2> QED
    BY <1>7, <2>1 DEF IsInjective
<1> QED
  BY <1>9, <1>10, <1>11

\* What the webhook makes of the containers of a pod, and the API server
\* takes, are the sidecars around the containers of the pod, each once.
LEMMA Around ==
  ASSUME NEW own \in Seq(STRING), own # <<>>, IsInjective(own),
         NEW inj, inj.pre \in Seq(STRING), inj.post \in Seq(STRING),
         IsInjective(InjectedContainers(own, inj))
  PROVE  LET stored == InjectedContainers(own, inj)
         IN  /\ [k \in DOMAIN stored |-> stored[k].name]
                  = inj.pre \o own \o inj.post
             /\ \A k \in DOMAIN own : stored[Len(inj.pre) + k].copy = 0
<1> DEFINE pre == inj.pre
           post == inj.post
           n == Len(own)
           A == Sidecars(own, pre, 0)
           B == Plain(own)
           C == Sidecars(own, post, n)
           stored == A \o B \o C
           names == pre \o own \o post
<1>0. stored = InjectedContainers(own, inj)
  BY DEF InjectedContainers
<1>c. ASSUME NEW x \in Seq(Container), NEW y \in Seq(Container),
             NEW z \in Seq(Container)
      PROVE  LET s == x \o y \o z
             IN  /\ s \in Seq(Container) /\ Len(s) = Len(x) + Len(y) + Len(z)
                 /\ \A k \in 1 .. Len(x) : s[k] = x[k]
                 /\ \A k \in 1 .. Len(y) : s[Len(x) + k] = y[k]
                 /\ \A k \in 1 .. Len(z) : s[Len(x) + Len(y) + k] = z[k]
  BY ThreeParts
<1>1. n \in Nat \ {0} /\ DOMAIN own = 1 .. n
  BY EmptySeq, LenProperties
<1>2. B \in Seq(Container) /\ Len(B) = n
      /\ \A k \in 1 .. n : B[k] = [name |-> own[k], copy |-> 0]
  BY PlainContainers
<1> HIDE DEF B
<1>3. n = 1 \/ (pre = <<>> /\ post = <<>>)
  <2> SUFFICES ASSUME n >= 2, pre # <<>> \/ post # <<>> PROVE FALSE
    BY <1>1
  <2>1. A \in Seq(Container) /\ C \in Seq(Container)
    <3>1. A \in Seq(Container)
      BY <1>1, SidecarsOnce, SidecarsTwice
    <3>2. C \in Seq(Container)
      BY <1>1, SidecarsOnce, SidecarsTwice
    <3> QED
      BY <3>1, <3>2
  <2> DEFINE a == Len(A)
             c == Len(C)
  <2>2. a \in Nat /\ c \in Nat
    BY <2>1, LenProperties
  <2>3. /\ stored \in Seq(Container) /\ Len(stored) = a + n + c
        /\ \A k \in 1 .. a : stored[k] = A[k]
        /\ \A k \in 1 .. n : stored[a + k] = B[k]
        /\ \A k \in 1 .. c : stored[a + n + k] = C[k]
    <3>1. /\ stored \in Seq(Container) /\ Len(stored) = Len(A) + Len(B) + Len(C)
          /\ \A k \in 1 .. Len(A) : stored[k] = A[k]
          /\ \A k \in 1 .. Len(B) : stored[Len(A) + k] = B[k]
          /\ \A k \in 1 .. Len(C) : stored[Len(A) + Len(B) + k] = C[k]
      <4> HIDE DEF A, C
      <4>1. A \in Seq(Container)
        BY <2>1
      <4>2. C \in Seq(Container)
        BY <2>1
      <4>3. B \in Seq(Container)
        BY <1>2
      <4> QED
        BY <1>c, <4>1, <4>2, <4>3, Zenon
    <3> HIDE DEF stored, A, C
    <3> QED
      BY <1>2, <3>1
  <2>4. IsInjective(stored)
    BY <1>0
  <2> HIDE DEF stored, a, c
  <2>5. CASE pre # <<>>
    <3>1. /\ 0 + a <= Len(stored) /\ a + n <= Len(stored) /\ 0 + a <= a
          /\ \A k \in 1 .. a : stored[0 + k] = A[k]
      BY <1>1, <2>2, <2>3
    <3> QED
      BY <1>1, <2>2, <2>3, <2>4, <2>5, <3>1, NameTwice DEF a, B
  <2>6. CASE post # <<>>
    <3>1. /\ (a + n) + c <= Len(stored) /\ a + n <= Len(stored)
          /\ a + n <= a + n /\ a + n \in Nat
      BY <1>1, <2>2, <2>3
    <3> QED
      BY <1>1, <2>2, <2>3, <2>4, <2>6, <3>1, NameTwice DEF c, B
  <2> QED
    BY <2>5, <2>6
<1>4. /\ A \in Seq(Container) /\ Len(A) = Len(pre)
      /\ \A m \in 1 .. Len(pre) : A[m].name = pre[m]
  BY <1>3, SidecarsOnce
<1>5. /\ C \in Seq(Container) /\ Len(C) = Len(post)
      /\ \A m \in 1 .. Len(post) : C[m].name = post[m]
  BY <1>1, <1>3, SidecarsOnce
<1> HIDE DEF A, C
<1> DEFINE a == Len(pre)
           c == Len(post)
<1>6. a \in Nat /\ c \in Nat
  BY LenProperties
<1>7. /\ stored \in Seq(Container) /\ Len(stored) = a + n + c
      /\ \A k \in 1 .. a : stored[k] = A[k]
      /\ \A k \in 1 .. n : stored[a + k] = B[k]
      /\ \A k \in 1 .. c : stored[a + n + k] = C[k]
  <2>1. /\ stored \in Seq(Container) /\ Len(stored) = Len(A) + Len(B) + Len(C)
        /\ \A k \in 1 .. Len(A) : stored[k] = A[k]
        /\ \A k \in 1 .. Len(B) : stored[Len(A) + k] = B[k]
        /\ \A k \in 1 .. Len(C) : stored[Len(A) + Len(B) + k] = C[k]
    <3>1. A \in Seq(Container)
      BY <1>4
    <3>2. C \in Seq(Container)
      BY <1>5
    <3>3. B \in Seq(Container)
      BY <1>2
    <3> QED
      BY <1>c, <3>1, <3>2, <3>3, Zenon
  <2> HIDE DEF stored
  <2> QED
    BY <1>2, <1>4, <1>5, <2>1
<1>8. /\ names \in Seq(STRING) /\ Len(names) = a + n + c
      /\ \A k \in 1 .. a : names[k] = pre[k]
      /\ \A k \in 1 .. n : names[a + k] = own[k]
      /\ \A k \in 1 .. c : names[a + n + k] = post[k]
  <2> DEFINE T == STRING
  <2>2. pre \in Seq(T)
    OBVIOUS
  <2>3. post \in Seq(T)
    OBVIOUS
  <2>4. own \in Seq(T)
    OBVIOUS
  <2> HIDE DEF pre, post, T
  <2>5. LET s == pre \o own \o post
        IN  /\ s \in Seq(T) /\ Len(s) = Len(pre) + Len(own) + Len(post)
            /\ \A k \in 1 .. Len(pre) : s[k] = pre[k]
            /\ \A k \in 1 .. Len(own) : s[Len(pre) + k] = own[k]
            /\ \A k \in 1 .. Len(post) : s[Len(pre) + Len(own) + k] = post[k]
    BY <2>2, <2>3, <2>4, ThreeParts
  <2> QED
    BY <2>5, Zenon DEF T
<1> HIDE DEF stored, names, a, c, n
<1>9. DOMAIN stored = 1 .. a + n + c /\ DOMAIN names = 1 .. a + n + c
  BY <1>7, <1>8, LenProperties
<1>10. ASSUME NEW m \in 1 .. a + n + c PROVE stored[m].name = names[m]
  <2>1. CASE m \in 1 .. a
    BY <1>4, <1>7, <1>8, <2>1 DEF a
  <2>2. CASE m \in a + 1 .. a + n
    <3>1. m - a \in 1 .. n /\ m = a + (m - a)
      BY <1>1, <1>6, <2>2
    <3> DEFINE k == m - a
    <3> HIDE DEF k
    <3>2. k \in 1 .. n /\ m = a + k
      BY <3>1 DEF k
    <3>3. stored[m] = B[k] /\ names[m] = own[k]
      BY <1>7, <1>8, <3>2
    <3>4. B[k].name = own[k]
      BY <1>2, <3>2
    <3> QED
      BY <3>3, <3>4
  <2>3. CASE m \in a + n + 1 .. a + n + c
    <3>1. m - (a + n) \in 1 .. c /\ m = a + n + (m - (a + n))
      BY <1>1, <1>6, <2>3
    <3> DEFINE k == m - (a + n)
    <3> HIDE DEF k
    <3>2. k \in 1 .. c /\ m = a + n + k
      BY <3>1 DEF k
    <3> QED
      BY <1>5, <1>7, <1>8, <3>2 DEF c
  <2> QED
    BY <1>1, <1>6, <2>1, <2>2, <2>3
<1>11. [k \in DOMAIN stored |-> stored[k].name] = names
  <2>1. names = [k \in 1 .. a + n + c |-> names[k]]
    BY <1>8, <1>9
  <2> QED
    BY <1>9, <1>10, <2>1
<1>12. \A k \in DOMAIN own : stored[a + k].copy = 0
  BY <1>1, <1>2, <1>7
<1> QED
  BY <1>0, <1>11, <1>12 DEF names, a

-----------------------------------------------------------------------------
(* The inductive invariant.                                                 *)

\* At most one element.
One(S) == S = {} \/ \E x : S = {x}

\* The store, the caches and the worker.
StoreInv ==
  /\ limit \in Optional(Limits) /\ limitCache \in Optional(Limits)
  /\ injectors \in [Injectors -> Optional(InjectorType)]
  /\ injectorCache \in [Injectors -> Optional(InjectorType)]
  /\ up \in BOOLEAN

WorkInv ==
  /\ parent \in {0, parents} /\ parents \in 0 .. MaxParents
  /\ queue \subseteq Injectors
  /\ at \in {"idle", "bounce"}
  /\ job = [i |-> job.i, read |-> job.read, owner |-> job.owner,
            todo |-> job.todo]
  /\ job.owner \in 0 .. MaxParents
  /\ at = "bounce" => job.i \in Injectors

BudgetInv == edits \in 0 .. MaxEdits /\ faults \in 0 .. MaxFaults

\* A workload admitted under a limit has the affinity the limit gives.
ObjectInv(w) ==
  /\ One(objects[w])
  /\ \A o \in objects[w] :
       /\ o.under \subseteq Limits
       /\ \A l \in o.under :
            o.affinity = {convertToNodeSelectorAffinity(l.coordinates)}

ChildInv(w) ==
  /\ One(children[w])
  /\ \A c \in children[w] : c.affinity = c.template

\* A pod is on a node its affinity admits, and its containers are those of
\* its template with the sidecars around them.
PodShape(p) ==
  p = [pod |-> p.pod, uid |-> p.uid, node |-> p.node, bounced |-> p.bounced]

Placed(p) == \A n \in p.node : Admits(p.pod.affinity, n)

HasSidecars(w, p) ==
  LET own == Template[w].containers
      stored == p.pod.containers
      around(inj) == inj.pre \o own \o inj.post
  IN IF p.pod.by = {} THEN stored = Plain(own)
     ELSE \A inj \in p.pod.by :
            /\ [k \in DOMAIN stored |-> stored[k].name] = around(inj)
            /\ \A k \in DOMAIN own : stored[Len(inj.pre) + k].copy = 0

PodInv(w) ==
  /\ One(pods[w])
  /\ \A p \in pods[w] : PodShape(p) /\ Placed(p) /\ HasSidecars(w, p)

Keyed == /\ objects = [w \in Workloads |-> objects[w]]
         /\ children = [w \in Workloads |-> children[w]]
         /\ pods = [w \in Workloads |-> pods[w]]

RunInv == \A w \in Workloads : ObjectInv(w) /\ ChildInv(w) /\ PodInv(w)

IInv == StoreInv /\ WorkInv /\ BudgetInv /\ Keyed /\ RunInv

-----------------------------------------------------------------------------
(* The store, the caches and the worker.                                    *)

\* The values of an optional type.
LEMMA Options ==
  ASSUME NEW S
  PROVE  /\ {} \in Optional(S)
         /\ \A x \in S : {x} \in Optional(S)
         /\ \A o \in Optional(S) : One(o) /\ o \subseteq S
  BY DEF Optional, One

\* An element of a set that has at most one is the only one.
LEMMA OnlyOne ==
  ASSUME NEW S, One(S), NEW x \in S, NEW y \in S
  PROVE  x = y
  BY DEF One

\* Who writes the Injectors.
LEMMA WhoWritesInjectors ==
  [Next]_vars =>
    \/ UNCHANGED injectors
    \/ \E i \in Injectors : WriteInjector(i)
    \/ UpdateInjector
    \/ \E i \in Injectors : Collect(i)
  BY Zenon DEF Next, Worker, Admission, vars, clusterVars, AnnotateNamespace,
     SyncNamespace, CreateWorkload, ReplaceWorkload, CreateChild, CreatePod,
     Schedule, Evict, Reconcile, Bounce, BounceConflict, UpdateConflict,
     CallFails, SyncInjectors, WriteParent, Crash, Restart

\* An Injector that is written is an Injector.
LEMMA InjectorsStay ==
  ASSUME IInv, [Next]_vars
  PROVE  injectors' \in [Injectors -> Optional(InjectorType)]
<1>1. injectors \in [Injectors -> Optional(InjectorType)]
  BY DEF IInv, StoreInv
<1>2. CASE UNCHANGED injectors
  BY <1>1, <1>2
<1>3. ASSUME NEW i \in Injectors, WriteInjector(i)
      PROVE  injectors' \in [Injectors -> Optional(InjectorType)]
  <2>1. CASE injectors' = [injectors EXCEPT ![i] = {}]
    BY <1>1, <2>1, Options
  <2>2. CASE \E s \in InjectorSpecs :
               injectors' = [injectors EXCEPT ![i] =
                 {[spec |-> s, version |-> edits',
                   owner |-> IF injectors[i] = {} THEN 0
                             ELSE (CHOOSE j \in injectors[i] : TRUE).owner]}]
    <3>1. PICK s \in InjectorSpecs :
            injectors' = [injectors EXCEPT ![i] =
              {[spec |-> s, version |-> edits',
                owner |-> IF injectors[i] = {} THEN 0
                          ELSE (CHOOSE j \in injectors[i] : TRUE).owner]}]
      BY <2>2
    <3>2. edits' \in 0 .. MaxEdits
      BY <1>3, BoundsAssumption DEF WriteInjector, UserActs, IInv, BudgetInv
    <3> DEFINE own == IF injectors[i] = {} THEN 0
                      ELSE (CHOOSE j \in injectors[i] : TRUE).owner
               x == [spec |-> s, version |-> edits', owner |-> own]
    <3>3. own \in 0 .. MaxParents
      <4>1. CASE injectors[i] = {}
        BY <4>1, ParentsAssumption
      <4>2. CASE injectors[i] # {}
        <5>1. injectors[i] \subseteq InjectorType
          BY <1>1, Options
        <5>2. (CHOOSE j \in injectors[i] : TRUE) \in injectors[i]
          BY <4>2
        <5> QED
          BY <4>2, <5>1, <5>2 DEF InjectorType
      <4> QED
        BY <4>1, <4>2
    <3> HIDE DEF own
    <3>4. x \in InjectorType
      BY <3>2, <3>3 DEF InjectorType
    <3> HIDE DEF x
    <3>5. {x} \in Optional(InjectorType)
      BY <3>4, Options
    <3>6. injectors' = [injectors EXCEPT ![i] = {x}]
      BY <3>1 DEF own, x
    <3> QED
      BY <1>1, <3>5, <3>6
  <2> QED
    BY <1>3, <2>1, <2>2 DEF WriteInjector
<1>4. CASE UpdateInjector
  <2> DEFINE o == {[j EXCEPT !.owner = job.owner] : j \in job.read}
             k == job.i
  <2>1. k \in Injectors /\ job.owner \in 0 .. MaxParents
        /\ injectors[k] = job.read
    BY <1>4 DEF UpdateInjector, Bounced, Unchanged, IInv, WorkInv
  <2>2. One(job.read) /\ job.read \subseteq InjectorType
    BY <1>1, <2>1, Options
  <2>3. \A j \in job.read : [j EXCEPT !.owner = job.owner] \in InjectorType
    BY <2>1, <2>2 DEF InjectorType
  <2>4. o \in Optional(InjectorType)
    <3>1. CASE job.read = {}
      BY <3>1, Options
    <3>2. CASE \E j : job.read = {j}
      <4>1. PICK j : job.read = {j}
        BY <3>2
      <4> DEFINE y == [j EXCEPT !.owner = job.owner]
      <4>2. y \in InjectorType
        BY <2>3, <4>1
      <4>3. o = {y}
        BY <4>1
      <4> HIDE DEF y, o
      <4> QED
        BY <4>2, <4>3, Options
    <3> QED
      BY <2>2, <3>1, <3>2 DEF One
  <2>5. injectors' = [injectors EXCEPT ![k] = o]
    BY <1>4 DEF UpdateInjector
  <2> HIDE DEF o, k
  <2> QED
    BY <1>1, <2>1, <2>4, <2>5
<1>5. ASSUME NEW i \in Injectors, Collect(i)
      PROVE  injectors' \in [Injectors -> Optional(InjectorType)]
  BY <1>1, <1>5, Options DEF Collect
<1> QED
  BY <1>2, <1>3, <1>4, <1>5, WhoWritesInjectors

\* What the process knows is what was stored.
LEMMA StoreStep ==
  ASSUME IInv, [Next]_vars
  PROVE  StoreInv'
<1> USE DEF IInv, StoreInv
<1>1. limit' \in Optional(Limits)
  <2>1. UNCHANGED limit \/ AnnotateNamespace
    BY Zenon DEF Next, Worker, Admission, vars, clusterVars, SyncNamespace,
       WriteInjector, CreateWorkload, ReplaceWorkload, CreateChild, CreatePod,
       Schedule, Evict, Reconcile, Bounce, BounceConflict, UpdateInjector,
       UpdateConflict, CallFails, SyncInjectors, WriteParent, Crash, Restart,
       Collect
  <2> QED
    BY <2>1 DEF AnnotateNamespace
<1>2. limitCache' \in Optional(Limits)
  <2>1. UNCHANGED limitCache \/ limitCache' = limit
    BY Zenon DEF Next, Worker, Admission, vars, cacheVars, AnnotateNamespace,
       SyncNamespace, WriteInjector, CreateWorkload, ReplaceWorkload,
       CreateChild, CreatePod, Schedule, Evict, Reconcile, Bounce,
       BounceConflict, UpdateInjector, UpdateConflict, CallFails,
       SyncInjectors, WriteParent, Crash, Restart, Collect
  <2> QED
    BY <2>1
<1>3. injectorCache' \in [Injectors -> Optional(InjectorType)]
  <2>1. UNCHANGED injectorCache \/ injectorCache' = injectors
    BY Zenon DEF Next, Worker, Admission, vars, cacheVars, AnnotateNamespace,
       SyncNamespace, WriteInjector, CreateWorkload, ReplaceWorkload,
       CreateChild, CreatePod, Schedule, Evict, Reconcile, Bounce,
       BounceConflict, UpdateInjector, UpdateConflict, CallFails,
       SyncInjectors, WriteParent, Crash, Restart, Collect
  <2> QED
    BY <2>1
<1>4. up' \in BOOLEAN
  <2>1. UNCHANGED up \/ up' = TRUE \/ up' = FALSE
    BY Zenon DEF Next, Worker, Admission, vars, AnnotateNamespace,
       SyncNamespace, WriteInjector, CreateWorkload, ReplaceWorkload,
       CreateChild, CreatePod, Schedule, Evict, Reconcile, Bounce,
       BounceConflict, UpdateInjector, UpdateConflict, CallFails,
       SyncInjectors, WriteParent, Crash, Restart, Collect
  <2> QED
    BY <2>1, Zenon
<1> QED
  BY <1>1, <1>2, <1>3, <1>4, InjectorsStay, Zenon

\* Nobody spends more than the budget.
LEMMA BudgetStep ==
  ASSUME IInv, [Next]_vars
  PROVE  BudgetInv'
<1>1. \/ UNCHANGED edits
      \/ edits < MaxEdits /\ edits' = edits + 1
  BY Zenon DEF Next, Worker, Admission, vars, budgetVars, UserActs, Fails,
     AnnotateNamespace, SyncNamespace, WriteInjector, CreateWorkload,
     ReplaceWorkload, CreateChild, CreatePod, Schedule, Evict, Reconcile,
     Bounce, BounceConflict, UpdateInjector, UpdateConflict, CallFails,
     SyncInjectors, WriteParent, Crash, Restart, Collect
<1>2. \/ UNCHANGED faults
      \/ faults < MaxFaults /\ faults' = faults + 1
  BY Zenon DEF Next, Worker, Admission, vars, budgetVars, UserActs, Fails,
     AnnotateNamespace, SyncNamespace, WriteInjector, CreateWorkload,
     ReplaceWorkload, CreateChild, CreatePod, Schedule, Evict, Reconcile,
     Bounce, BounceConflict, UpdateInjector, UpdateConflict, CallFails,
     SyncInjectors, WriteParent, Crash, Restart, Collect
<1> QED
  BY <1>1, <1>2, BoundsAssumption DEF IInv, BudgetInv

\* The reconcile that runs is one of an Injector, with one of the owners
\* there were.
LEMMA WorkStep ==
  ASSUME IInv, [Next]_vars
  PROVE  WorkInv'
<1>1. /\ parent \in {0, parents} /\ parents \in 0 .. MaxParents
      /\ queue \subseteq Injectors /\ at \in {"idle", "bounce"}
      /\ job = [i |-> job.i, read |-> job.read, owner |-> job.owner,
                todo |-> job.todo]
      /\ job.owner \in 0 .. MaxParents
      /\ at = "bounce" => job.i \in Injectors
  BY DEF IInv, WorkInv
<1>2. parent' \in {0, parents'} /\ parents' \in 0 .. MaxParents
  <2>1. \/ UNCHANGED <<parent, parents>>
        \/ parents < MaxParents /\ parents' = parents + 1 /\ parent' = parents'
        \/ parent' = 0 /\ UNCHANGED parents
    BY Zenon DEF Next, Worker, Admission, vars, parentVars, AnnotateNamespace,
       SyncNamespace, WriteInjector, CreateWorkload, ReplaceWorkload,
       CreateChild, CreatePod, Schedule, Evict, Reconcile, Bounce,
       BounceConflict, UpdateInjector, UpdateConflict, CallFails,
       SyncInjectors, WriteParent, Crash, Restart, Collect
  <2> QED
    BY <1>1, <2>1, ParentsAssumption
<1>3. queue' \subseteq Injectors
  <2>1. \/ UNCHANGED queue
        \/ \E i \in Injectors : Reconcile(i)
        \/ at = "bounce" /\ queue' = queue \cup {job.i}
        \/ queue' = queue \cup {i \in Injectors : injectorCache[i] # injectors[i]}
        \/ queue' = {i \in Injectors : injectors[i] # {}}
    BY Zenon DEF Next, Worker, Admission, vars, workVars, Requeue, Bounced,
       Bounce, BounceConflict, UpdateInjector, UpdateConflict, CallFails,
       SyncInjectors, WriteParent, Crash, Restart, Collect
  <2> QED
    BY <1>1, <2>1 DEF Reconcile
<1>4. /\ at' \in {"idle", "bounce"}
      /\ job' = [i |-> job'.i, read |-> job'.read, owner |-> job'.owner,
                 todo |-> job'.todo]
      /\ job'.owner \in 0 .. MaxParents
      /\ at' = "bounce" => job'.i \in Injectors
  <2>1. \/ UNCHANGED <<at, job>>
        \/ Finish
        \/ \E i \in Injectors : Reconcile(i)
        \/ \E w \in Workloads : Bounce(w)
    BY Zenon DEF Next, Worker, Admission, vars, workVars, Requeue,
       BounceConflict, UpdateInjector, UpdateConflict, CallFails,
       SyncInjectors, WriteParent, Crash, Restart, Collect
  <2>2. CASE UNCHANGED <<at, job>>
    BY <1>1, <2>2
  <2>3. CASE Finish
    <3> DEFINE none == ""
               empty == [w \in Workloads |-> {}]
               r == {}
    <3>1. at' = "idle"
          /\ job' = [i |-> none, read |-> r, owner |-> 0, todo |-> empty]
      BY <2>3, Zenon DEF Finish, NoJob
    <3> HIDE DEF none, empty, r
    <3> QED
      BY <3>1, ParentsAssumption
  <2>4. ASSUME NEW i \in Injectors, Reconcile(i), ~Finish
        PROVE  /\ at' \in {"idle", "bounce"}
               /\ job' = [i |-> job'.i, read |-> job'.read,
                          owner |-> job'.owner, todo |-> job'.todo]
               /\ job'.owner \in 0 .. MaxParents
               /\ at' = "bounce" => job'.i \in Injectors
    <3>1. PICK inj \in injectorCache[i] :
            /\ at' = "bounce"
            /\ job' = [i |-> i, read |-> {inj}, todo |-> Unmarked(i),
                       owner |-> ownerReference(inj)]
      BY <2>4, Zenon DEF Reconcile
    <3>2. injectorCache[i] \subseteq InjectorType
      BY Options DEF IInv, StoreInv
    <3>3. inj.owner \in 0 .. MaxParents
      BY <3>1, <3>2 DEF InjectorType
    <3>4. ownerReference(inj) \in 0 .. MaxParents
      BY <1>1, <3>3, ParentsAssumption DEF ownerReference
    <3> QED
      BY <3>1, <3>4
  <2>5. ASSUME NEW w \in Workloads, Bounce(w)
        PROVE  /\ at' \in {"idle", "bounce"}
               /\ job' = [i |-> job'.i, read |-> job'.read,
                          owner |-> job'.owner, todo |-> job'.todo]
               /\ job'.owner \in 0 .. MaxParents
               /\ at' = "bounce" => job'.i \in Injectors
    <3>1. at' = at /\ job' = [job EXCEPT !.todo = [@ EXCEPT ![w] = {}]]
      BY <2>5 DEF Bounce
    <3> QED
      BY <1>1, <3>1
  <2> QED
    BY <2>1, <2>2, <2>3, <2>4, <2>5
<1> QED
  BY <1>2, <1>3, <1>4 DEF WorkInv

-----------------------------------------------------------------------------
(* Workloads, children and pods.                                            *)

\* A webhook that admits a workload under a limit gives it what the limit
\* says.
LEMMA AdmittedUnder ==
  ASSUME NEW w \in Workloads, limitCache \in Optional(Limits),
         NEW a \in namespaceMutateResource(Template[w].kind, FALSE,
                                           Template[w].affinity)
  PROVE  /\ InForce(w) \subseteq Limits
         /\ \A l \in InForce(w) :
              a = {convertToNodeSelectorAffinity(l.coordinates)}
<1>1. One(limitCache) /\ limitCache \subseteq Limits
  BY Options
<1>2. InForce(w) \subseteq Limits
  BY <1>1 DEF InForce
<1>3. ASSUME NEW l \in InForce(w)
      PROVE  a = {convertToNodeSelectorAffinity(l.coordinates)}
  <2>1. /\ Template[w].kind \in Rules /\ up /\ Template[w].affinity = {}
        /\ l \in limitCache
    BY <1>3 DEF InForce
  <2>2. limitCache = {l}
    BY <1>1, <2>1 DEF One
  <2>3. Template[w].kind \in Handled
    BY TemplateAssumption
  <2> DEFINE c == convertToNodeSelectorAffinity(l.coordinates)
  <2>4. a \in updateNamespaceForResourceLimitRange(Template[w].affinity)
    BY <2>1, <2>3, Zenon DEF namespaceMutateResource
  <2>5. a \in UNION {IF ~m.parses THEN {}
                     ELSE {{convertToNodeSelectorAffinity(m.coordinates)}}
                       : m \in limitCache}
    <3>1. limitCache # {}
      BY <2>1
    <3> QED
      BY <2>1, <2>4, <3>1 DEF updateNamespaceForResourceLimitRange
  <2> HIDE DEF c
  <2>6. PICK m \in limitCache :
          a \in IF ~m.parses THEN {}
                ELSE {{convertToNodeSelectorAffinity(m.coordinates)}}
    BY <2>5, Zenon
  <2>7. m = l
    BY <2>2
  <2>8. a \in {{convertToNodeSelectorAffinity(m.coordinates)}}
    <3>1. CASE m.parses
      BY <2>6, <3>1, Zenon
    <3>2. CASE ~m.parses
      BY <2>6, <3>2, Zenon
    <3> QED
      BY <3>1, <3>2
  <2> QED
    BY <2>7, <2>8, Zenon
<1> QED
  BY <1>2, <1>3

\* A workload is stored with what the webhook made of it, or as it was sent.
LEMMA ObjectsStep ==
  ASSUME IInv, [Next]_vars
  PROVE  /\ objects' = [w \in Workloads |-> objects'[w]]
         /\ \A w \in Workloads : ObjectInv(w)'
<1>1. /\ objects = [w \in Workloads |-> objects[w]]
      /\ \A w \in Workloads : ObjectInv(w)
      /\ limitCache \in Optional(Limits)
  BY DEF IInv, StoreInv, Keyed, RunInv
<1>2. \/ UNCHANGED objects
      \/ \E w \in Workloads : CreateWorkload(w) \/ ReplaceWorkload(w)
  BY Zenon DEF Next, Worker, Admission, vars, clusterVars, AnnotateNamespace,
     SyncNamespace, WriteInjector, CreateChild, CreatePod, Schedule, Evict,
     Reconcile, Bounce, BounceConflict, UpdateInjector, UpdateConflict,
     CallFails, SyncInjectors, WriteParent, Crash, Restart, Collect
<1>3. CASE UNCHANGED objects
  BY <1>1, <1>3 DEF ObjectInv
<1>4. ASSUME NEW w \in Workloads, NEW a, NEW u, u \subseteq Limits,
             \A l \in u : a = {convertToNodeSelectorAffinity(l.coordinates)},
             objects' = [objects EXCEPT ![w] = {[affinity |-> a, under |-> u]}]
      PROVE  /\ objects' = [v \in Workloads |-> objects'[v]]
             /\ \A v \in Workloads : ObjectInv(v)'
  <2> DEFINE r == [affinity |-> a, under |-> u]
  <2>1. r.affinity = a /\ r.under = u
    OBVIOUS
  <2> HIDE DEF r
  <2>2. objects' = [v \in Workloads |-> IF v = w THEN {r} ELSE objects[v]]
    BY <1>1, <1>4 DEF r
  <2>3. ASSUME NEW v \in Workloads PROVE ObjectInv(v)'
    <3>1. CASE v = w
      <4>1. objects'[v] = {r}
        BY <2>2, <3>1
      <4> QED
        BY <1>4, <2>1, <4>1 DEF ObjectInv, One
    <3>2. CASE v # w
      <4>1. objects'[v] = objects[v]
        BY <2>2, <3>2
      <4> QED
        BY <1>1, <4>1 DEF ObjectInv
    <3> QED
      BY <3>1, <3>2
  <2>4. objects' = [v \in Workloads |-> objects'[v]]
    BY <2>2
  <2> QED
    BY <2>3, <2>4
<1>5. ASSUME NEW w \in Workloads, CreateWorkload(w)
      PROVE  /\ objects' = [v \in Workloads |-> objects'[v]]
             /\ \A v \in Workloads : ObjectInv(v)'
  <2>1. PICK a \in namespaceMutateResource(Template[w].kind, FALSE,
                                           Template[w].affinity) :
          objects' = [objects EXCEPT ![w] =
                        {[affinity |-> a, under |-> InForce(w)]}]
    BY <1>5, Zenon DEF CreateWorkload
  <2>2. /\ InForce(w) \subseteq Limits
        /\ \A l \in InForce(w) :
             a = {convertToNodeSelectorAffinity(l.coordinates)}
    BY <1>1, AdmittedUnder
  <2> QED
    BY <1>4, <2>1, <2>2
<1>6. ASSUME NEW w \in Workloads, ReplaceWorkload(w)
      PROVE  /\ objects' = [v \in Workloads |-> objects'[v]]
             /\ \A v \in Workloads : ObjectInv(v)'
  <2> DEFINE u == {}
             a == Template[w].affinity
  <2>1. objects' = [objects EXCEPT ![w] = {[affinity |-> a, under |-> u]}]
    BY <1>6, Zenon DEF ReplaceWorkload
  <2>2. u \subseteq Limits
        /\ \A l \in u : a = {convertToNodeSelectorAffinity(l.coordinates)}
    OBVIOUS
  <2> HIDE DEF u, a
  <2> QED
    BY <1>4, <2>1, <2>2
<1> QED
  BY <1>2, <1>3, <1>5, <1>6

\* The webhook leaves a child as its owner made it.
LEMMA ChildrenStep ==
  ASSUME IInv, [Next]_vars
  PROVE  /\ children' = [w \in Workloads |-> children'[w]]
         /\ \A w \in Workloads : ChildInv(w)'
<1>1. /\ children = [w \in Workloads |-> children[w]]
      /\ \A w \in Workloads : ChildInv(w)
  BY DEF IInv, Keyed, RunInv
<1>2. UNCHANGED children \/ \E w \in Workloads : CreateChild(w)
  BY Zenon DEF Next, Worker, Admission, vars, clusterVars, AnnotateNamespace,
     SyncNamespace, WriteInjector, CreateWorkload, ReplaceWorkload, CreatePod,
     Schedule, Evict, Reconcile, Bounce, BounceConflict, UpdateInjector,
     UpdateConflict, CallFails, SyncInjectors, WriteParent, Crash, Restart,
     Collect
<1>3. CASE UNCHANGED children
  BY <1>1, <1>3 DEF ChildInv
<1>4. ASSUME NEW w \in Workloads, CreateChild(w)
      PROVE  /\ children' = [v \in Workloads |-> children'[v]]
             /\ \A v \in Workloads : ChildInv(v)'
  <2>1. PICK o \in objects[w] :
          \E a \in namespaceMutateResource(ChildKind(w), TRUE, o.affinity) :
            children' = [children EXCEPT ![w] =
                           {[affinity |-> a, template |-> o.affinity]}]
    BY <1>4, Zenon DEF CreateChild
  <2>2. PICK a \in namespaceMutateResource(ChildKind(w), TRUE, o.affinity) :
          children' = [children EXCEPT ![w] =
                         {[affinity |-> a, template |-> o.affinity]}]
    BY <2>1
  <2>a. a = o.affinity
    BY <2>2 DEF namespaceMutateResource
  <2> DEFINE r == [affinity |-> a, template |-> o.affinity]
  <2>3. r.affinity = r.template
    BY <2>a
  <2> HIDE DEF r
  <2>4. children' = [v \in Workloads |-> IF v = w THEN {r} ELSE children[v]]
    BY <1>1, <2>2 DEF r
  <2>5. ASSUME NEW v \in Workloads PROVE ChildInv(v)'
    <3>1. CASE v = w
      <4>1. children'[v] = {r}
        BY <2>4, <3>1
      <4> QED
        BY <2>3, <4>1 DEF ChildInv, One
    <3>2. CASE v # w
      <4>1. children'[v] = children[v]
        BY <2>4, <3>2
      <4> QED
        BY <1>1, <4>1 DEF ChildInv
    <3> QED
      BY <3>1, <3>2
  <2>6. children' = [v \in Workloads |-> children'[v]]
    BY <2>4
  <2> QED
    BY <2>5, <2>6
<1> QED
  BY <1>2, <1>3, <1>4

\* A pod the webhook lets through and the API server takes has the sidecars
\* of one Injector around its own containers, or none.
LEMMA TakenPod ==
  ASSUME StoreInv, NEW w \in Workloads, NEW affinity,
         NEW p \in injectorMutatePods(w, affinity), ValidPod(p),
         NEW q, q.pod = p
  PROVE  HasSidecars(w, q)
<1> DEFINE own == Template[w].containers
<1>1. \/ p = PlainPod(w, affinity)
      \/ \E i \in filterInjectorPod(w) :
           p = InjectedPod(w, affinity, CachedSpec(i))
  BY Zenon DEF injectorMutatePods
<1>2. CASE p = PlainPod(w, affinity)
  <2>1. p.by = {} /\ p.containers = Plain(own)
    BY <1>2 DEF PlainPod
  <2> QED
    BY <2>1 DEF HasSidecars
<1>3. ASSUME NEW i \in filterInjectorPod(w),
             p = InjectedPod(w, affinity, CachedSpec(i))
      PROVE  HasSidecars(w, q)
  <2> DEFINE inj == CachedSpec(i)
  <2>1. inj \in InjectorSpecs
    <3>1. injectorCache[i] # {} /\ injectorCache[i] \subseteq InjectorType
      BY <1>3, Options DEF filterInjectorPod, Present, StoreInv
    <3>2. (CHOOSE j \in injectorCache[i] : TRUE) \in InjectorType
      BY <3>1
    <3> QED
      BY <3>2 DEF CachedSpec, InjectorType
  <2>2. inj.pre \in Seq(STRING) /\ inj.post \in Seq(STRING)
    BY <2>1, SpecsAssumption
  <2>3. own \in Seq(STRING) /\ own # <<>> /\ IsInjective(own)
    BY TemplateAssumption
  <2> HIDE DEF inj, own
  <2> DEFINE stored == InjectedContainers(own, inj)
  <2>4. p.by = {inj} /\ p.containers = stored
    BY <1>3 DEF InjectedPod, inj, own
  <2>5. IsInjective(stored)
    BY <2>4 DEF ValidPod
  <2>6. /\ [k \in DOMAIN stored |-> stored[k].name] = inj.pre \o own \o inj.post
        /\ \A k \in DOMAIN own : stored[Len(inj.pre) + k].copy = 0
    BY <2>2, <2>3, <2>5, Around, Zenon
  <2> HIDE DEF stored
  <2> QED
    BY <2>4, <2>6 DEF HasSidecars, own
<1> QED
  BY <1>1, <1>2, <1>3

\* A pod that is scheduled or marked keeps what the webhook made of it.
LEMMA PodsStep ==
  ASSUME IInv, [Next]_vars
  PROVE  /\ pods' = [w \in Workloads |-> pods'[w]]
         /\ \A w \in Workloads : PodInv(w)'
<1>1. /\ pods = [w \in Workloads |-> pods[w]]
      /\ \A w \in Workloads : PodInv(w)
      /\ StoreInv
  BY DEF IInv, Keyed, RunInv
<1>2. \/ UNCHANGED pods
      \/ \E w \in Workloads : pods' = [pods EXCEPT ![w] = {}]
      \/ \E w \in Workloads : CreatePod(w) \/ Schedule(w) \/ Bounce(w)
  BY Zenon DEF Next, Worker, Admission, vars, clusterVars, AnnotateNamespace,
     SyncNamespace, WriteInjector, CreateWorkload, ReplaceWorkload,
     CreateChild, Evict, Reconcile, BounceConflict, UpdateInjector,
     UpdateConflict, CallFails, SyncInjectors, WriteParent, Crash, Restart,
     Collect
<1>3. CASE UNCHANGED pods
  BY <1>1, <1>3 DEF PodInv
<1>4. ASSUME NEW w \in Workloads, NEW s, pods' = [pods EXCEPT ![w] = s], One(s),
             \A p \in s : PodShape(p) /\ Placed(p) /\ HasSidecars(w, p)
      PROVE  /\ pods' = [v \in Workloads |-> pods'[v]]
             /\ \A v \in Workloads : PodInv(v)'
  <2>1. pods' = [v \in Workloads |-> IF v = w THEN s ELSE pods[v]]
    BY <1>1, <1>4
  <2>2. ASSUME NEW v \in Workloads PROVE PodInv(v)'
    <3>1. CASE v = w
      <4>1. pods'[v] = s
        BY <2>1, <3>1
      <4> QED
        BY <1>4, <3>1, <4>1 DEF PodInv
    <3>2. CASE v # w
      <4>1. pods'[v] = pods[v]
        BY <2>1, <3>2
      <4> QED
        BY <1>1, <4>1 DEF PodInv
    <3> QED
      BY <3>1, <3>2
  <2>3. pods' = [v \in Workloads |-> pods'[v]]
    BY <2>1
  <2> QED
    BY <2>2, <2>3
<1>5. ASSUME NEW w \in Workloads, pods' = [pods EXCEPT ![w] = {}]
      PROVE  /\ pods' = [v \in Workloads |-> pods'[v]]
             /\ \A v \in Workloads : PodInv(v)'
  <2> DEFINE s == {}
  <2>1. pods' = [pods EXCEPT ![w] = s] /\ One(s)
        /\ \A p \in s : PodShape(p) /\ Placed(p) /\ HasSidecars(w, p)
    BY <1>5 DEF One
  <2> HIDE DEF s
  <2> QED
    BY <1>4, <2>1
<1>6. ASSUME NEW w \in Workloads, NEW q, pods' = [pods EXCEPT ![w] = {q}],
             PodShape(q), Placed(q), HasSidecars(w, q)
      PROVE  /\ pods' = [v \in Workloads |-> pods'[v]]
             /\ \A v \in Workloads : PodInv(v)'
  <2> DEFINE s == {q}
  <2>1. pods' = [pods EXCEPT ![w] = s] /\ One(s)
        /\ \A p \in s : PodShape(p) /\ Placed(p) /\ HasSidecars(w, p)
    BY <1>6 DEF One
  <2> HIDE DEF s
  <2> QED
    BY <1>4, <2>1
<1>7. ASSUME NEW w \in Workloads, CreatePod(w)
      PROVE  /\ pods' = [v \in Workloads |-> pods'[v]]
             /\ \A v \in Workloads : PodInv(v)'
  <2>1. PICK r \in Runner(w) :
          \E p \in injectorMutatePods(w, r.affinity) :
            /\ ValidPod(p)
            /\ pods' = [pods EXCEPT ![w] =
                 {[pod |-> p, uid |-> faults, node |-> {}, bounced |-> {}]}]
    BY <1>7, Zenon DEF CreatePod
  <2>2. PICK p \in injectorMutatePods(w, r.affinity) :
          /\ ValidPod(p)
          /\ pods' = [pods EXCEPT ![w] =
               {[pod |-> p, uid |-> faults, node |-> {}, bounced |-> {}]}]
    BY <2>1
  <2> DEFINE q == [pod |-> p, uid |-> faults, node |-> {}, bounced |-> {}]
  <2>3. PodShape(q) /\ Placed(q) /\ q.pod = p
    BY DEF PodShape, Placed
  <2> HIDE DEF q
  <2>4. HasSidecars(w, q)
    BY <1>1, <2>2, <2>3, TakenPod
  <2>5. pods' = [pods EXCEPT ![w] = {q}]
    BY <2>2 DEF q
  <2> QED
    BY <1>6, <2>3, <2>4, <2>5
<1>8. ASSUME NEW w \in Workloads, Schedule(w)
      PROVE  /\ pods' = [v \in Workloads |-> pods'[v]]
             /\ \A v \in Workloads : PodInv(v)'
  <2>1. PICK p \in pods[w], n \in Nodes :
          /\ Admits(p.pod.affinity, n)
          /\ pods' = [pods EXCEPT ![w] = {[p EXCEPT !.node = {n}]}]
    BY <1>8, Zenon DEF Schedule
  <2>2. PodShape(p) /\ HasSidecars(w, p)
    BY <1>1 DEF PodInv
  <2> DEFINE q == [p EXCEPT !.node = {n}]
  <2>3. PodShape(q) /\ q.pod = p.pod /\ q.node = {n}
    BY <2>2 DEF PodShape
  <2> HIDE DEF q
  <2>4. Placed(q)
    BY <2>1, <2>3 DEF Placed
  <2>5. HasSidecars(w, q)
    BY <2>2, <2>3, Zenon DEF HasSidecars
  <2>6. pods' = [pods EXCEPT ![w] = {q}]
    BY <2>1 DEF q
  <2> QED
    BY <1>6, <2>3, <2>4, <2>5, <2>6
<1>9. ASSUME NEW w \in Workloads, Bounce(w)
      PROVE  /\ pods' = [v \in Workloads |-> pods'[v]]
             /\ \A v \in Workloads : PodInv(v)'
  <2>1. PICK p : /\ pods[w] = {p}
                 /\ pods' = [pods EXCEPT ![w] =
                               {[p EXCEPT !.bounced = @ \cup {job.i}]}]
    BY <1>9, Zenon DEF Bounce, Mark
  <2>2. PodShape(p) /\ Placed(p) /\ HasSidecars(w, p)
    BY <1>1, <2>1 DEF PodInv
  <2> DEFINE q == [p EXCEPT !.bounced = @ \cup {job.i}]
  <2>3. PodShape(q) /\ q.pod = p.pod /\ q.node = p.node
    BY <2>2 DEF PodShape
  <2> HIDE DEF q
  <2>4. Placed(q)
    BY <2>2, <2>3 DEF Placed
  <2>5. HasSidecars(w, q)
    BY <2>2, <2>3, Zenon DEF HasSidecars
  <2>6. pods' = [pods EXCEPT ![w] = {q}]
    BY <2>1 DEF q
  <2> QED
    BY <1>6, <2>3, <2>4, <2>5, <2>6
<1> QED
  BY <1>2, <1>3, <1>5, <1>7, <1>8, <1>9

-----------------------------------------------------------------------------
(* The theorems.                                                            *)

\* The invariant holds in every behaviour.
LEMMA Inductive == Spec => []IInv
<1>1. Init => IInv
  <2> SUFFICES ASSUME Init PROVE IInv
    OBVIOUS
  <2>1. StoreInv
    BY Options DEF Init, Start, StoreInv
  <2>2. WorkInv
    <3> DEFINE none == ""
               empty == [w \in Workloads |-> {}]
               r == {}
    <3>1. job = [i |-> none, read |-> r, owner |-> 0, todo |-> empty]
      BY Zenon DEF Init, NoJob
    <3> HIDE DEF none, empty, r
    <3>2. /\ job = [i |-> job.i, read |-> job.read, owner |-> job.owner,
                    todo |-> job.todo]
          /\ job.owner \in 0 .. MaxParents
      BY <3>1, ParentsAssumption
    <3>3. /\ parent = 0 /\ parents = 0 /\ queue = {} /\ at = "idle"
      BY DEF Init
    <3> QED
      BY <3>2, <3>3, ParentsAssumption DEF WorkInv
  <2>3. BudgetInv
    BY BoundsAssumption DEF Init, Start, BudgetInv
  <2>4. Keyed
    BY DEF Init, Start, Keyed
  <2>5. RunInv
    BY DEF Init, Start, RunInv, ObjectInv, ChildInv, PodInv, One
  <2> QED
    BY <2>1, <2>2, <2>3, <2>4, <2>5 DEF IInv
<1>2. IInv /\ [Next]_vars => IInv'
  <2> SUFFICES ASSUME IInv, [Next]_vars PROVE IInv'
    OBVIOUS
  <2>1. Keyed'
    BY ObjectsStep, ChildrenStep, PodsStep DEF Keyed
  <2>2. RunInv'
    BY ObjectsStep, ChildrenStep, PodsStep DEF RunInv
  <2> QED
    BY <2>1, <2>2, StoreStep, WorkStep, BudgetStep DEF IInv
<1> QED
  BY <1>1, <1>2, PTL DEF Spec

\* A set with at most one element has at most one element.
LEMMA FewElements ==
  ASSUME NEW S, One(S)
  PROVE  Cardinality(S) <= 1
<1>1. CASE S = {}
  BY <1>1, FS_EmptySet
<1>2. CASE \E x : S = {x}
  <2>1. PICK x : S = {x}
    BY <1>2
  <2>2. Cardinality({x}) = 1
    BY FS_Singleton
  <2> QED
    BY <2>1, <2>2
<1> QED
  BY <1>1, <1>2 DEF One

\* Every variable of the webhooks and of the controller keeps its type: a
\* workload has at most one child and one pod, and the owner written to an
\* Injector is a Water or Stone that existed.
THEOREM TypeCorrect == Spec => []TypeOK
<1>1. IInv => TypeOK
  <2> SUFFICES ASSUME IInv PROVE TypeOK
    OBVIOUS
  <2>1. \A w \in Workloads : /\ Cardinality(objects[w]) <= 1
                             /\ Cardinality(children[w]) <= 1
                             /\ Cardinality(pods[w]) <= 1
    BY FewElements DEF IInv, RunInv, ObjectInv, ChildInv, PodInv
  <2> QED
    BY <2>1, Zenon DEF IInv, StoreInv, WorkInv, BudgetInv, TypeOK
<1> QED
  BY <1>1, Inductive, PTL

\* The zones and racks of an affinity made from a limit are those the limit
\* lists.
LEMMA ListedPlaces ==
  ASSUME NEW l \in Limits
  PROVE  LET a == convertToNodeSelectorAffinity(l.coordinates)
         IN  /\ ToSet(a.zones) = {c.zone : c \in ToSet(l.coordinates)}
             /\ ToSet(a.racks) = {c.rack : c \in ToSet(l.coordinates)}
<1> DEFINE cs == l.coordinates
           zones == [k \in DOMAIN cs |-> cs[k].zone]
           racks == [k \in DOMAIN cs |-> cs[k].rack]
           a == convertToNodeSelectorAffinity(cs)
           S == {n.zone : n \in Nodes}
<1>1. cs \in Seq(Nodes)
  BY LimitsAssumption
<1>2. /\ DOMAIN cs = 1 .. Len(cs) /\ Len(cs) \in Nat
      /\ \A k \in DOMAIN cs : cs[k] \in Nodes
  BY <1>1, LenProperties
<1>3. zones \in Seq(S)
  <2>1. \A k \in 1 .. Len(cs) : cs[k].zone \in S
    BY <1>2
  <2>2. zones = [k \in 1 .. Len(cs) |-> cs[k].zone]
    BY <1>2
  <2> HIDE DEF S
  <2> QED
    BY <1>2, <2>1, <2>2
<1>4. a.zones = removeRepeatedElement(zones) /\ a.racks = racks
  BY DEF convertToNodeSelectorAffinity
<1>5. ToSet(removeRepeatedElement(zones)) = ToSet(zones)
  <2> HIDE DEF zones, S
  <2> QED
    BY <1>3, RepeatedRemoved
<1>6. ToSet(zones) = {c.zone : c \in ToSet(cs)}
  BY DEF ToSet
<1>7. ToSet(racks) = {c.rack : c \in ToSet(cs)}
  BY DEF ToSet
<1> HIDE DEF a, zones, racks, cs
<1> QED
  BY <1>4, <1>5, <1>6, <1>7, Zenon DEF a, cs

\* A pod runs in a zone and in a rack of the limit under which its workload
\* was admitted, however often the limit, the caches or the process changed
\* in between: what the webhook computed once is kept by every later writer.
THEOREM AlwaysWithinLimit == Spec => []PlacedWithinLimit
<1>1. IInv => PlacedWithinLimit
  <2> SUFFICES ASSUME IInv, NEW w \in Workloads, NEW o \in objects[w],
                      NEW p \in pods[w], p.pod.affinity = o.affinity,
                      NEW l \in o.under, NEW n \in p.node
               PROVE  /\ \E c \in ToSet(l.coordinates) : c.zone = n.zone
                      /\ \E c \in ToSet(l.coordinates) : c.rack = n.rack
    BY DEF PlacedWithinLimit
  <2> DEFINE a == convertToNodeSelectorAffinity(l.coordinates)
  <2>1. l \in Limits /\ o.affinity = {a}
    BY DEF IInv, RunInv, ObjectInv
  <2>2. Admits(p.pod.affinity, n)
    BY DEF IInv, RunInv, PodInv, Placed
  <2>3. n.zone \in ToSet(a.zones) /\ n.rack \in ToSet(a.racks)
    <3> HIDE DEF a
    <3> QED
      BY <2>1, <2>2 DEF Admits
  <2>4. /\ ToSet(a.zones) = {c.zone : c \in ToSet(l.coordinates)}
        /\ ToSet(a.racks) = {c.rack : c \in ToSet(l.coordinates)}
    BY <2>1, ListedPlaces
  <2> HIDE DEF a
  <2> QED
    BY <2>3, <2>4
<1> QED
  BY <1>1, Inductive, PTL

\* Every machine a limit lists admits the pods of the workloads admitted under
\* it: removeRepeatedElement loses no zone.
THEOREM AlwaysAdmitted == Spec => []ListedMachinesAdmitted
<1>1. IInv => ListedMachinesAdmitted
  <2> SUFFICES ASSUME IInv, NEW w \in Workloads, NEW o \in objects[w],
                      NEW l \in o.under, NEW n \in ToSet(l.coordinates)
               PROVE  Admits(o.affinity, n)
    BY DEF ListedMachinesAdmitted
  <2> DEFINE a == convertToNodeSelectorAffinity(l.coordinates)
  <2>1. l \in Limits /\ o.affinity = {a}
    BY DEF IInv, RunInv, ObjectInv
  <2>2. /\ ToSet(a.zones) = {c.zone : c \in ToSet(l.coordinates)}
        /\ ToSet(a.racks) = {c.rack : c \in ToSet(l.coordinates)}
    BY <2>1, ListedPlaces
  <2> HIDE DEF a
  <2> QED
    BY <2>1, <2>2 DEF Admits
<1> QED
  BY <1>1, Inductive, PTL

\* A child always has the affinity its owner asks for, so that the owner
\* recognises it: the webhook leaves owned objects alone.
THEOREM ChildrenAlwaysKeepTemplate == Spec => []ChildrenKeepTemplate
<1>1. IInv => ChildrenKeepTemplate
  BY DEF IInv, RunInv, ChildInv, ChildrenKeepTemplate
<1> QED
  BY <1>1, Inductive, PTL

\* Every pod that is stored has the sidecars of one Injector, each once and
\* in their order, before and after its own containers: the API server
\* refuses whatever the loops over containers and sidecars make otherwise.
THEOREM SidecarsAlwaysAround == Spec => []SidecarsAroundOwn
<1>1. IInv => SidecarsAroundOwn
  BY Zenon DEF IInv, RunInv, PodInv, HasSidecars, SidecarsAroundOwn
<1> QED
  BY <1>1, Inductive, PTL

\* The reconcile that marks pods and writes its Injector back from what it
\* read earlier undoes no placement and no change of the user's.
THEOREM NeverUndone == Spec => NothingUndone
<1> DEFINE P == /\ \A w \in Workloads : \A p \in pods[w], q \in pods'[w] :
                     at = "bounce" /\ job # job' =>
                       q.uid = p.uid /\ p.node \subseteq q.node
                /\ \A i \in Injectors : \A j \in injectors[i], k \in injectors'[i] :
                     j.spec # k.spec => edits' # edits
<1>1. IInv /\ [Next]_vars => P
  <2> SUFFICES ASSUME IInv, [Next]_vars PROVE P
    OBVIOUS
  <2>1. ASSUME NEW w \in Workloads, NEW p \in pods[w], NEW q \in pods'[w],
               at = "bounce", job # job'
        PROVE  q.uid = p.uid /\ p.node \subseteq q.node
    <3>1. UNCHANGED pods \/ \E v \in Workloads : Bounce(v)
      BY <2>1, Zenon DEF Next, Worker, vars, workVars, clusterVars, Reconcile,
         BounceConflict, UpdateInjector, UpdateConflict, CallFails,
         SyncInjectors, WriteParent, Crash, Restart, Collect
    <3>2. One(pods[w]) /\ PodShape(p)
      BY DEF IInv, RunInv, PodInv
    <3>3. CASE pods'[w] = pods[w]
      BY <3>2, <3>3, OnlyOne
    <3>4. ASSUME NEW v \in Workloads, Bounce(v), pods'[w] # pods[w]
          PROVE  q.uid = p.uid /\ p.node \subseteq q.node
      <4>1. PICK x : /\ pods[v] = {x}
                     /\ pods' = [pods EXCEPT ![v] =
                                   {[x EXCEPT !.bounced = @ \cup {job.i}]}]
        BY <3>4, Zenon DEF Bounce, Mark
      <4>2. w = v
        BY <3>4, <4>1 DEF IInv, Keyed
      <4>3. x = p
        BY <4>1, <4>2
      <4>4. pods'[w] = {[p EXCEPT !.bounced = @ \cup {job.i}]}
        BY <4>1, <4>2, <4>3 DEF IInv, Keyed
      <4>5. q = [p EXCEPT !.bounced = @ \cup {job.i}]
        BY <4>4
      <4> QED
        BY <3>2, <4>5 DEF PodShape
    <3> QED
      BY <3>1, <3>3, <3>4
  <2>2. ASSUME NEW i \in Injectors, NEW j \in injectors[i],
               NEW k \in injectors'[i], j.spec # k.spec
        PROVE  edits' # edits
    <3>1. injectors \in [Injectors -> Optional(InjectorType)]
      BY DEF IInv, StoreInv
    <3>2. One(injectors[i]) /\ j \in InjectorType
      BY <3>1, Options
    <3>3. injectors'[i] # injectors[i]
      BY <2>2, <3>2, OnlyOne
    <3>4. ASSUME NEW m \in Injectors, WriteInjector(m) PROVE edits' # edits
      BY <3>4 DEF WriteInjector, UserActs, IInv, BudgetInv
    <3>5. ASSUME NEW m \in Injectors, Collect(m) PROVE FALSE
      BY <3>1, <3>3, <3>5 DEF Collect
    <3>6. CASE UpdateInjector
      <4>1. /\ injectors[job.i] = job.read
            /\ injectors' = [injectors EXCEPT ![job.i] =
                 {[x EXCEPT !.owner = job.owner] : x \in job.read}]
        BY <3>6 DEF UpdateInjector, Unchanged
      <4>2. i = job.i
        BY <3>1, <3>3, <4>1
      <4>3. PICK x \in injectors[i] : k = [x EXCEPT !.owner = job.owner]
        BY <3>1, <4>1, <4>2
      <4>4. x = j
        BY <3>2, OnlyOne
      <4>5. k.spec = j.spec
        BY <3>2, <4>3, <4>4 DEF InjectorType
      <4> QED
        BY <2>2, <4>5
    <3> QED
      BY <3>3, <3>4, <3>5, <3>6, WhoWritesInjectors
  <2> QED
    BY <2>1, <2>2
<1>2. [][P]_vars => NothingUndone
  BY PTL DEF NothingUndone
<1> HIDE DEF P
<1> QED
  BY <1>1, <1>2, Inductive, PTL DEF Spec
=============================================================================
