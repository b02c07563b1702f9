------------------------------ MODULE Numbers ------------------------------
(***************************************************************************)
(* Lemmas about the natural numbers that the proofs about the components   *)
(* cite.  Induction is over a set of numbers: the library's theorem takes  *)
(* the predicate as an operator, and no prover here can instantiate that.  *)
(* It is enough to define a function by recursion on 1 .. n.               *)
(***************************************************************************)
EXTENDS Integers, FiniteSetsExt, TLAPS, WellFoundedInduction,
        FiniteSetTheorems

(* A set of numbers has a least one.                                       *)
LEMMA LeastNumber ==
  ASSUME NEW T \in SUBSET Nat, T # {}
  PROVE  \E x \in T : \A y \in T : x <= y
<1> DEFINE R == {p \in Nat \X Nat : p[1] < p[2]}
<1>1. OpToRel(<, Nat) = R
  BY ONLY Zenon DEF OpToRel
<1>2. IsWellFoundedOn(R, Nat)
  BY <1>1, NatLessThanWellFounded
<1> HIDE DEF R
<1>3. PICK x \in T : \A y \in T : ~(<<y, x>> \in R)
  BY <1>2, WFMin
<1>4. \A y \in T : ~(y < x)
  BY <1>3 DEF R
<1> QED BY <1>4

(* A set that has 0, and with a number the next one, has them all.         *)
LEMMA Induction ==
  ASSUME NEW S \in SUBSET Nat, 0 \in S, \A n \in S : n + 1 \in S
  PROVE  S = Nat
<1>1. SUFFICES ASSUME Nat \ S # {} PROVE FALSE
  OBVIOUS
<1>2. PICK x \in Nat \ S : \A y \in Nat \ S : x <= y
  BY <1>1, LeastNumber
<1>3. x # 0 /\ x - 1 \in Nat /\ x - 1 \in S
  BY <1>2
<1> QED BY <1>3, <1>2

(* A bounded set of numbers has a greatest one, which Max() is.            *)
LEMMA GreatestNumber ==
  ASSUME NEW T \in SUBSET Nat, T # {}, NEW n \in Nat, \A x \in T : x <= n
  PROVE  /\ Max(T) \in T
         /\ \A y \in T : y <= Max(T)
<1> DEFINE U == {n - x : x \in T}
<1>1. U \in SUBSET Nat
  <2>1. ASSUME NEW x \in T PROVE n - x \in Nat
    OBVIOUS
  <2> QED BY <2>1
<1>0. U # {}
  <2>1. PICK x \in T : TRUE
    OBVIOUS
  <2>2. n - x \in U
    OBVIOUS
  <2> QED BY <2>2
<1>2. PICK u \in U : \A y \in U : u <= y
  BY <1>0, <1>1, LeastNumber
<1>3. PICK m \in T : u = n - m
  BY <1>2
<1>4. \A y \in T : m >= y
  BY <1>2, <1>3
<1> QED BY <1>3, <1>4 DEF Max

(* A finite set of numbers has a greatest one.                             *)
LEMMA FiniteIsBounded ==
  ASSUME NEW T \in SUBSET Nat, T # {}, IsFiniteSet(T)
  PROVE  \E x \in T : \A y \in T : y <= x
<1> DEFINE Bounded(n) == \A f \in [1 .. n -> Nat] : \E b \in Nat : \A j \in 1 .. n : f[j] <= b
           S == {n \in Nat : Bounded(n)}
<1>1. 0 \in S
  BY 1 .. 0 = {}
<1>2. ASSUME NEW n \in S PROVE n + 1 \in S
  <2>1. Bounded(n) /\ n + 1 \in Nat
    <3> HIDE DEF Bounded
    <3> QED OBVIOUS
  <2> SUFFICES Bounded(n + 1)
    <3> HIDE DEF Bounded
    <3> QED BY <2>1
  <2> SUFFICES ASSUME NEW f \in [1 .. n + 1 -> Nat]
               PROVE  \E b \in Nat : \A j \in 1 .. n + 1 : f[j] <= b
    OBVIOUS
  <2>2. [j \in 1 .. n |-> f[j]] \in [1 .. n -> Nat]
    OBVIOUS
  <2>3. PICK b \in Nat : \A j \in 1 .. n : f[j] <= b
    BY <2>1, <2>2
  <2>4. b + f[n + 1] \in Nat /\ \A j \in 1 .. n + 1 : f[j] <= b + f[n + 1]
    BY <2>3
  <2> QED BY <2>4
<1>3. S = Nat
  <2> HIDE DEF S
  <2> QED BY <1>1, <1>2, Induction DEF S
<1>4. PICK n \in Nat : ExistsSurjection(1 .. n, T)
  BY FS_NatSurjection
<1>5. PICK f \in Surjection(1 .. n, T) : TRUE
  BY <1>4 DEF ExistsSurjection
<1>6. f \in [1 .. n -> Nat] /\ \A y \in T : \E j \in 1 .. n : f[j] = y
  BY <1>5 DEF Surjection
<1>7. PICK b \in Nat : \A j \in 1 .. n : f[j] <= b
  <2>1. n \in S
    <3> HIDE DEF S
    <3> QED BY <1>3
  <2>2. Bounded(n)
    <3> HIDE DEF Bounded
    <3> QED BY <2>1
  <2> QED BY <1>6, <2>2
<1>8. \A y \in T : y <= b
  BY <1>6, <1>7
<1> QED BY <1>8, GreatestNumber

(* The square root, rounded down                                           *)
LEMMA SquareRoot ==
  ASSUME NEW n \in Nat
  PROVE  \E k \in 0 .. n : k * k <= n /\ n < (k + 1) * (k + 1)
<1> DEFINE T == {k \in 0 .. n : k * k <= n}
<1>1. T \in SUBSET Nat /\ 0 \in T /\ \A k \in T : k <= n
  OBVIOUS
<1>2. Max(T) \in T /\ \A k \in T : k <= Max(T)
  <2> HIDE DEF T
  <2> QED BY ONLY <1>1, GreatestNumber, n \in Nat
<1>3. PICK k \in T : \A j \in T : j <= k
  BY <1>2
<1>4. n < (k + 1) * (k + 1)
  <2>1. k \in Nat /\ k + 1 \in Nat /\ k + 1 \notin T /\ (k + 1) * (k + 1) \in Nat
    BY <1>3
  <2>2. k + 1 <= (k + 1) * (k + 1)
    BY ONLY <2>1
  <2> QED BY <2>1, <2>2
<1> QED BY <1>3, <1>4

(* f is x, F[x], F[F[x]], ... n of them.                                   *)
Iterates(f, F, x, n, S) ==
  /\ f \in [1 .. n -> S]
  /\ \A k \in 1 .. n : f[k] = IF k = 1 THEN x ELSE F[f[k - 1]]

(* There is such a function, for as many as one wants.                     *)
LEMMA Iteration ==
  ASSUME NEW S, NEW x \in S, NEW F \in [S -> S], NEW n \in Nat
  PROVE  \E f : Iterates(f, F, x, n, S)
<1> DEFINE IsIt(f, m) == Iterates(f, F, x, m, S)
           T == {m \in Nat : \E f : IsIt(f, m)}
<1>1. 0 \in T
  <2>1. IsIt([k \in 1 .. 0 |-> x], 0)
    BY DEF Iterates
  <2> QED BY <2>1
<1>2. ASSUME NEW m \in T PROVE m + 1 \in T
  <2>1. PICK f : IsIt(f, m)
    OBVIOUS
  <2> DEFINE y == IF m = 0 THEN x ELSE F[f[m]]
             g == [k \in 1 .. m + 1 |-> IF k = m + 1 THEN y ELSE f[k]]
  <2>2. y \in S
    BY <2>1 DEF Iterates
  <2>3. g \in [1 .. m + 1 -> S]
    BY <2>1, <2>2 DEF Iterates
  <2>4. ASSUME NEW k \in 1 .. m + 1 PROVE g[k] = IF k = 1 THEN x ELSE F[g[k - 1]]
    <3>1. CASE k = m + 1
      BY <3>1
    <3>2. CASE k # m + 1
      <4>1. k \in 1 .. m /\ (k # 1 => k - 1 \in 1 .. m)
        BY <3>2
      <4> QED BY <2>1, <3>2, <4>1 DEF Iterates
    <3> QED BY <3>1, <3>2
  <2>5. IsIt(g, m + 1)
    BY <2>3, <2>4 DEF Iterates
  <2>6. m + 1 \in Nat
    OBVIOUS
  <2> HIDE DEF g, IsIt
  <2> QED BY <2>5, <2>6
<1>3. T = Nat
  BY <1>1, <1>2, Induction
<1> QED BY <1>3

(* The members of a finite set in an order: the j-th is the one with j - 1 *)
(* before it.                                                              *)
IsOrder(R, L) ==
  /\ \A x \in L : <<x, x>> \notin R
  /\ \A x, y, z \in L : <<x, y>> \in R /\ <<y, z>> \in R => <<x, z>> \in R
  /\ \A x, y \in L : x # y => <<x, y>> \in R \/ <<y, x>> \in R
Ranked(R, L, j) == CHOOSE x \in L : Cardinality({y \in L : <<y, x>> \in R}) = j - 1

LEMMA RankedOnce ==
  ASSUME NEW L, IsFiniteSet(L), NEW R, IsOrder(R, L)
  PROVE  /\ Cardinality(L) \in Nat
         /\ \A j \in 1 .. Cardinality(L) : Ranked(R, L, j) \in L
         /\ \A x \in L : \E j \in 1 .. Cardinality(L) : Ranked(R, L, j) = x
         /\ \A j, k \in 1 .. Cardinality(L) : Ranked(R, L, j) = Ranked(R, L, k) => j = k
         /\ \A j, k \in 1 .. Cardinality(L) :
              j < k => <<Ranked(R, L, j), Ranked(R, L, k)>> \in R
<1> DEFINE c == Cardinality(L)
           Lower(n) == {m \in L : <<m, n>> \in R}
           r == [n \in L |-> Cardinality(Lower(n)) + 1]
<1>1. c \in Nat
  BY FS_CardinalityType
<1>2. ASSUME NEW n \in L PROVE /\ IsFiniteSet(Lower(n)) /\ Cardinality(Lower(n)) \in Nat
                              /\ Cardinality(Lower(n)) < c
  <2> DEFINE S == Lower(n)
  <2>1. S \in SUBSET L /\ n \notin S
    BY DEF IsOrder
  <2> HIDE DEF S
  <2>2. IsFiniteSet(S) /\ Cardinality(S) <= c /\ (c = Cardinality(S) => L = S)
    BY <2>1, FS_Subset
  <2>3. Cardinality(S) \in Nat
    BY <2>2, FS_CardinalityType
  <2> HIDE DEF c
  <2>4. Cardinality(S) < c
    BY ONLY <1>1, <2>1, <2>2, <2>3, n \in L
  <2> QED BY <2>2, <2>3, <2>4 DEF S
<1>3. ASSUME NEW m \in L, NEW n \in L, <<m, n>> \in R
      PROVE  Cardinality(Lower(m)) < Cardinality(Lower(n))
  <2> DEFINE S == Lower(m)
             U == Lower(n)
  <2>1. S \subseteq U /\ m \in U /\ m \notin S
    BY <1>3 DEF IsOrder
  <2>2. IsFiniteSet(U) /\ Cardinality(U) \in Nat /\ Cardinality(S) \in Nat
    BY <1>2
  <2> HIDE DEF S, U
  <2>3. Cardinality(S) <= Cardinality(U) /\ (Cardinality(U) = Cardinality(S) => U = S)
    BY <2>1, <2>2, FS_Subset
  <2>4. Cardinality(S) < Cardinality(U)
    BY ONLY <2>1, <2>2, <2>3
  <2> QED BY <2>4 DEF S, U
<1> HIDE DEF Lower
<1>4. ASSUME NEW m \in L, NEW n \in L, r[m] = r[n] PROVE m = n
  <2> SUFFICES ASSUME m # n PROVE FALSE
    OBVIOUS
  <2>1. Cardinality(Lower(m)) < Cardinality(Lower(n))
        \/ Cardinality(Lower(n)) < Cardinality(Lower(m))
    BY <1>3 DEF IsOrder
  <2>2. Cardinality(Lower(m)) + 1 = Cardinality(Lower(n)) + 1
    BY <1>4
  <2>3. Cardinality(Lower(m)) \in Nat /\ Cardinality(Lower(n)) \in Nat
    BY <1>2
  <2> QED BY ONLY <2>1, <2>2, <2>3
<1>5. r \in Injection(L, 1 .. c)
  <2>1. \A n \in L : Cardinality(Lower(n)) + 1 \in 1 .. c
    BY <1>1, <1>2
  <2>2. r \in [L -> 1 .. c]
    BY <2>1
  <2> HIDE DEF r, c
  <2> QED BY ONLY <1>4, <2>2 DEF Injection, IsInjective
<1>6. r \in Surjection(L, 1 .. c)
  <2>1. IsFiniteSet(1 .. c) /\ Cardinality(1 .. c) = IF 1 > c THEN 0 ELSE c-1+1
    <3>1. c \in Int /\ 1 \in Int
      BY <1>1
    <3> HIDE DEF c
    <3> QED BY ONLY <3>1, FS_Interval
  <2>2. (IF 1 > c THEN 0 ELSE c-1+1) = c
    BY ONLY <1>1
  <2> HIDE DEF r
  <2>3. Cardinality(L) = Cardinality(1 .. c)
    BY <2>1, <2>2
  <2> HIDE DEF c
  <2> QED BY <1>5, <2>1, <2>3, FS_Injection
<1>7. ASSUME NEW j \in 1 .. c PROVE Ranked(R, L, j) \in L /\ r[Ranked(R, L, j)] = j
  <2>1. PICK n \in L : r[n] = j
    <3> HIDE DEF r, c
    <3> QED BY <1>6 DEF Surjection
  <2>2. \A x \in L : Cardinality(Lower(x)) = j - 1 <=> r[x] = j
    <3> SUFFICES ASSUME NEW x \in L PROVE Cardinality(Lower(x)) = j - 1 <=> r[x] = j
      OBVIOUS
    <3>1. Cardinality(Lower(x)) \in Nat /\ r[x] = Cardinality(Lower(x)) + 1 /\ j \in Int
      BY <1>1, <1>2
    <3> QED BY ONLY <3>1
  <2>3. Cardinality(Lower(n)) = j - 1
    BY <2>1, <2>2
  <2>4. Ranked(R, L, j) = CHOOSE x \in L : Cardinality(Lower(x)) = j - 1
    BY DEF Lower, Ranked
  <2>5. Ranked(R, L, j) \in L /\ Cardinality(Lower(Ranked(R, L, j))) = j - 1
    BY ONLY <2>3, <2>4, n \in L
  <2> HIDE DEF r
  <2> QED BY <2>2, <2>5
<1> HIDE DEF r
<1>8. ASSUME NEW n \in L PROVE \E j \in 1 .. c : Ranked(R, L, j) = n
  <2>1. r[n] \in 1 .. c
    BY <1>5 DEF Injection
  <2>2. Ranked(R, L, r[n]) \in L /\ r[Ranked(R, L, r[n])] = r[n]
    BY <1>7, <2>1
  <2> QED BY <1>4, <2>1, <2>2
<1>9. ASSUME NEW j \in 1 .. c, NEW k \in 1 .. c, Ranked(R, L, j) = Ranked(R, L, k)
      PROVE  j = k
  <2>1. r[Ranked(R, L, j)] = j /\ r[Ranked(R, L, k)] = k
    BY ONLY <1>7, j \in 1 .. c, k \in 1 .. c
  <2> QED BY ONLY <1>9, <2>1
<1> HIDE DEF c
<1>10. \A j, k \in 1 .. c : Ranked(R, L, j) = Ranked(R, L, k) => j = k
  BY ONLY <1>9
<1>11. /\ \A j \in 1 .. c : Ranked(R, L, j) \in L
       /\ \A x \in L : \E j \in 1 .. c : Ranked(R, L, j) = x
  BY ONLY <1>7, <1>8
<1>12. ASSUME NEW j \in 1 .. c, NEW k \in 1 .. c, j < k
       PROVE  <<Ranked(R, L, j), Ranked(R, L, k)>> \in R
  <2> DEFINE x == Ranked(R, L, j)
             y == Ranked(R, L, k)
  <2>1. x \in L /\ y \in L /\ r[x] = j /\ r[y] = k
    BY ONLY <1>7, j \in 1 .. c, k \in 1 .. c
  <2> HIDE DEF x, y
  <2>2. /\ r[x] = Cardinality(Lower(x)) + 1 /\ Cardinality(Lower(x)) \in Nat
        /\ r[y] = Cardinality(Lower(y)) + 1 /\ Cardinality(Lower(y)) \in Nat
    BY <1>2, <2>1 DEF r
  <2>3. Cardinality(Lower(x)) < Cardinality(Lower(y)) /\ x # y
    BY ONLY <1>12, <2>1, <2>2
  <2>4. ~(<<y, x>> \in R)
    <3>1. ~(Cardinality(Lower(y)) < Cardinality(Lower(x)))
      BY ONLY <2>2, <2>3
    <3> QED BY <1>3, <2>1, <3>1
  <2>5. <<x, y>> \in R
    BY <2>1, <2>3, <2>4 DEF IsOrder
  <2> QED BY <2>5 DEF x, y
<1> QED BY ONLY <1>1, <1>10, <1>11, <1>12 DEF c
=============================================================================
