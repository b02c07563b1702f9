---------------------------- MODULE GraphProofs ----------------------------
(***************************************************************************)
(* What DepGraph promises, for every remodelfile: any productions, sources *)
(* and changes.                                                            *)
(*                                                                         *)
(* GraphInv is the inductive invariant.  Its parameters are the values of  *)
(* the remodelfile, which no step changes.  While the tree is built, the   *)
(* nodes whose call is pending have no children yet and all the others     *)
(* have theirs (TreeShape); when no call is pending, the nodes below a     *)
(* node are what its name depends on (CompleteBelow).  After the pruning,  *)
(* there is a whole tree that the one left is the kept part of.            *)
(***************************************************************************)
EXTENDS DepGraph, FiniteSetTheorems, SequenceTheorems, Numbers

-----------------------------------------------------------------------------
(* Paths *)

Num == Nat \ {0}
Path == Seq(Num)
(* The nodes above a node                                                  *)
Above(n) == {SubSeq(n, 1, k) : k \in 0 .. Len(n) - 1}

(* A path that is not the root's: the parent's, and an index               *)
LEMMA PathFront ==
  ASSUME NEW n \in Path, n # <<>>
  PROVE  /\ Front(n) \in Path /\ Last(n) \in Num /\ n = Append(Front(n), Last(n))
         /\ Len(Front(n)) = Len(n) - 1
<1>1. Len(n) \in Num /\ \A j \in 1 .. Len(n) : n[j] \in Num
  BY EmptySeq DEF Path, Num
<1>2. /\ SubSeq(n, 1, Len(n) - 1) \in Seq(Num)
      /\ Len(SubSeq(n, 1, Len(n) - 1)) = Len(n) - 1
      /\ \A j \in 1 .. Len(n) - 1 : SubSeq(n, 1, Len(n) - 1)[j] = n[j]
  <2> DEFINE m == Len(n) - 1
  <2>1. m \in Nat /\ \A j \in 1 .. m : n[j] \in Num
    BY <1>1 DEF Num
  <2> HIDE DEF m
  <2>2. /\ SubSeq(n, 1, m) \in Seq(Num)
        /\ Len(SubSeq(n, 1, m)) = IF 1 <= m THEN m-1+1 ELSE 0
        /\ \A i \in 1 .. m-1+1 : SubSeq(n, 1, m)[i] = n[1+i-1]
    BY ONLY <2>1, SubSeqProperties, 1 \in Int, m \in Int
  <2>3. m-1+1 = m /\ (~(1 <= m) => m = 0) /\ \A i \in 1 .. m : 1+i-1 = i
    BY ONLY <2>1
  <2>4. \A j \in 1 .. m : SubSeq(n, 1, m)[j] = n[j]
    BY ONLY <2>2, <2>3
  <2> QED BY <2>2, <2>3, <2>4 DEF m
<1>3. Front(n) \in Path /\ Len(Front(n)) = Len(n) - 1 /\ Last(n) \in Num
      /\ \A j \in 1 .. Len(n) - 1 : Front(n)[j] = n[j]
  BY <1>1, <1>2 DEF Front, Last, Path, Num
<1> DEFINE a == Append(Front(n), Last(n))
<1>4. /\ a \in Seq(Num) /\ Len(a) = Len(Front(n)) + 1
      /\ \A i \in 1 .. Len(Front(n)) : a[i] = Front(n)[i]
      /\ a[Len(Front(n)) + 1] = Last(n)
  BY <1>3, AppendProperties DEF Path
<1> HIDE DEF a
<1>5. Len(a) = Len(n) /\ \A i \in 1 .. Len(a) : a[i] = n[i]
  <2>1. Len(a) = Len(n)
    BY <1>1, <1>3, <1>4 DEF Num
  <2>2. ASSUME NEW i \in 1 .. Len(n) PROVE a[i] = n[i]
    <3>1. CASE i = Len(n)
      BY <1>1, <1>3, <1>4, <3>1 DEF Last, Num
    <3>2. CASE i # Len(n)
      <4>1. i \in 1 .. Len(n) - 1
        BY <1>1, <3>2 DEF Num
      <4> QED BY ONLY <1>3, <1>4, <4>1
    <3> QED BY <3>1, <3>2
  <2> QED BY <2>1, <2>2
<1>6. n \in Seq(Num)
  BY DEF Path
<1>7. n = a
  BY ONLY <1>4, <1>5, <1>6, SeqEqual
<1> QED BY <1>3, <1>7 DEF a

(* A child's path                                                          *)
LEMMA PathAppend ==
  ASSUME NEW n \in Path, NEW j \in Num
  PROVE  /\ Append(n, j) \in Path /\ Append(n, j) # <<>>
         /\ Front(Append(n, j)) = n /\ Last(Append(n, j)) = j
         /\ Len(Append(n, j)) = Len(n) + 1
         /\ Above(Append(n, j)) = Above(n) \cup {n}
<1> DEFINE a == Append(n, j)
<1>1. /\ a \in Seq(Num) /\ a # <<>> /\ Len(a) = Len(n) + 1 /\ Len(n) \in Nat
      /\ \A i \in 1 .. Len(n) : a[i] = n[i]
      /\ a[Len(n) + 1] = j
  BY AppendProperties DEF Path
<1> HIDE DEF a
<1>2. Front(a) \in Path /\ Last(a) \in Num /\ a = Append(Front(a), Last(a))
  BY <1>1, PathFront DEF Path
<1>3. Front(a) = n /\ Last(a) = j
  <2>1. Append(n, j) = Append(Front(a), Last(a))
    BY <1>2 DEF a
  <2> QED BY ONLY <1>2, <2>1, AppendInjective, n \in Path, j \in Num DEF Path
<1>4. ASSUME NEW k \in 0 .. Len(n) PROVE SubSeq(a, 1, k) = SubSeq(n, 1, k)
  <2>1. k \in Int /\ k \in Nat /\ \A i \in 1 .. k : a[i] = n[i] /\ a[i] \in Num /\ n[i] \in Num
    <3>1. \A i \in 1 .. k : i \in 1 .. Len(n)
      BY <1>1
    <3>2. \A i \in 1 .. Len(n) : n[i] \in Num
      BY DEF Path
    <3> QED BY <1>1, <3>1, <3>2
  <2>2. /\ SubSeq(a, 1, k) \in Seq(Num) /\ SubSeq(n, 1, k) \in Seq(Num)
        /\ Len(SubSeq(a, 1, k)) = IF 1 <= k THEN k-1+1 ELSE 0
        /\ Len(SubSeq(n, 1, k)) = IF 1 <= k THEN k-1+1 ELSE 0
        /\ \A i \in 1 .. k-1+1 : SubSeq(a, 1, k)[i] = a[1+i-1]
        /\ \A i \in 1 .. k-1+1 : SubSeq(n, 1, k)[i] = n[1+i-1]
    BY ONLY <2>1, SubSeqProperties, 1 \in Int
  <2>3. \A i \in 1 .. k : i \in 1 .. k-1+1 /\ 1+i-1 = i
    BY ONLY <2>1
  <2>4. (IF 1 <= k THEN k-1+1 ELSE 0) = k
    BY ONLY <2>1
  <2>5. \A i \in 1 .. k : SubSeq(a, 1, k)[i] = SubSeq(n, 1, k)[i]
    BY ONLY <2>1, <2>2, <2>3
  <2> QED BY ONLY <2>2, <2>4, <2>5, SeqEqual
<1>5. SubSeq(n, 1, Len(n)) = n
  BY SubSeqFull DEF Path
<1>6. Above(a) = Above(n) \cup {n}
  <2>1. \A k : k \in 0 .. Len(a) - 1 <=> k \in 0 .. Len(n) - 1 \/ k = Len(n)
    BY <1>1
  <2>2. \A k \in 0 .. Len(a) - 1 : k \in 0 .. Len(n)
    BY <1>1
  <2>3. \A k \in 0 .. Len(a) - 1 : SubSeq(a, 1, k) = SubSeq(n, 1, k)
    BY <1>4, <2>2
  <2>4. Above(a) = {SubSeq(n, 1, k) : k \in 0 .. Len(a) - 1}
    BY <2>3 DEF Above
  <2> QED BY ONLY <1>5, <2>1, <2>4 DEF Above
<1> QED BY <1>1, <1>3, <1>6 DEF a, Path

(* The indices and the members of a sequence                               *)
LEMMA SeqValues ==
  ASSUME NEW S, NEW q \in Seq(S)
  PROVE  /\ DOMAIN q = 1 .. Len(q) /\ Len(q) \in Nat
         /\ \A x \in DOMAIN q : q[x] \in S
BY LenProperties, ElementOfSeq

(* Nothing is above the root.                                              *)
LEMMA PathRoot == <<>> \in Path /\ Above(<<>>) = {} /\ Len(<<>>) = 0
BY DEF Path, Above

(* Each node is below the nodes that its parent is below, and the parent.  *)
LEMMA PathAbove ==
  ASSUME NEW n \in Path, n # <<>>
  PROVE  Above(n) = Above(Front(n)) \cup {Front(n)}
<1>1. Front(n) \in Path /\ Last(n) \in Num /\ n = Append(Front(n), Last(n))
  BY PathFront
<1>2. Above(Append(Front(n), Last(n))) = Above(Front(n)) \cup {Front(n)}
  BY ONLY <1>1, PathAppend
<1> QED BY <1>1, <1>2

(* The root is above all other nodes.                                      *)
LEMMA RootAbove ==
  ASSUME NEW n \in Path, n # <<>>
  PROVE  <<>> \in Above(n)
<1>1. Len(n) \in Nat /\ Len(n) # 0
  BY EmptySeq DEF Path
<1>2. SubSeq(n, 1, 0) = <<>>
  BY SubSeqEmpty DEF Path
<1>3. 0 \in 0 .. Len(n) - 1
  BY <1>1
<1> QED BY <1>2, <1>3 DEF Above

(* Above a node there are shorter paths.                                   *)
LEMMA AboveIsShorter ==
  ASSUME NEW n \in Path, NEW a \in Above(n)
  PROVE  a \in Path /\ Len(a) \in Nat /\ Len(a) < Len(n)
<1>1. PICK k \in 0 .. Len(n) - 1 : a = SubSeq(n, 1, k)
  BY DEF Above
<1>2. Len(n) \in Nat /\ k \in Nat /\ \A i \in 1 .. k : n[i] \in Num
  <2>1. DOMAIN n = 1 .. Len(n) /\ Len(n) \in Nat /\ \A x \in DOMAIN n : n[x] \in Num
    BY SeqValues DEF Path
  <2> QED BY <2>1
<1>3. /\ SubSeq(n, 1, k) \in Seq(Num)
      /\ Len(SubSeq(n, 1, k)) = IF 1 <= k THEN k-1+1 ELSE 0
  BY ONLY <1>2, SubSeqProperties, 1 \in Int, k \in Int
<1> QED BY <1>1, <1>2, <1>3 DEF Path

(* A set of paths has a shortest one.                                      *)
LEMMA ShortestPath ==
  ASSUME NEW X \in SUBSET Path, X # {}
  PROVE  \E n \in X : \A m \in X : Len(n) <= Len(m)
<1> DEFINE T == {Len(n) : n \in X}
<1>1. T \in SUBSET Nat /\ T # {}
  <2>1. \A n \in X : Len(n) \in Nat
    BY LenProperties DEF Path
  <2> QED BY <2>1
<1> HIDE DEF T
<1>2. PICK k \in T : \A y \in T : k <= y
  BY ONLY <1>1, LeastNumber
<1> QED BY <1>2 DEF T

(* A finite set of paths has a longest one.                                *)
LEMMA LongestPath ==
  ASSUME NEW X \in SUBSET Path, X # {}, IsFiniteSet(X)
  PROVE  \E n \in X : \A m \in X : Len(m) <= Len(n)
<1> DEFINE T == {Len(n) : n \in X}
           f == [n \in X |-> Len(n)]
<1>1. T \in SUBSET Nat /\ T # {}
  <2>1. \A n \in X : Len(n) \in Nat
    BY LenProperties DEF Path
  <2> QED BY <2>1
<1>2. f \in Surjection(X, T)
  BY DEF Surjection
<1> HIDE DEF T, f
<1>3. IsFiniteSet(T)
  BY ONLY <1>2, FS_Surjection, IsFiniteSet(X)
<1>4. PICK k \in T : \A y \in T : y <= k
  BY ONLY <1>1, <1>3, FiniteIsBounded
<1> QED BY <1>4 DEF T

(* What is above a node above is above.                                    *)
LEMMA AboveTransitive ==
  ASSUME NEW n \in Path, NEW a \in Above(n)
  PROVE  Above(a) \subseteq Above(n)
<1> DEFINE X == {m \in Path : \E b \in Above(m) : ~(Above(b) \subseteq Above(m))}
<1>1. SUFFICES ASSUME X # {} PROVE FALSE
  OBVIOUS
<1>2. PICK m \in X : \A x \in X : Len(m) <= Len(x)
  <2>1. X \in SUBSET Path
    OBVIOUS
  <2> HIDE DEF X
  <2> QED BY ONLY <1>1, <2>1, ShortestPath
<1>3. m \in Path
  OBVIOUS
<1>4. PICK b \in Above(m) : ~(Above(b) \subseteq Above(m))
  OBVIOUS
<1>5. m # <<>>
  BY <1>4, PathRoot
<1>6. Above(m) = Above(Front(m)) \cup {Front(m)} /\ Front(m) \in Path
      /\ Len(Front(m)) = Len(m) - 1 /\ Len(m) \in Nat
  BY <1>3, <1>5, PathAbove, PathFront DEF Path
<1>7. Front(m) \notin X
  <2> HIDE DEF X
  <2> QED BY <1>2, <1>6
<1>8. \A c \in Above(Front(m)) : Above(c) \subseteq Above(Front(m))
  BY <1>6, <1>7
<1> QED BY <1>4, <1>6, <1>8

(* Between a node and one below it is a child of the upper one, if it is   *)
(* not the lower one itself.                                               *)
LEMMA ChildBetween ==
  ASSUME NEW m \in Path, NEW n \in Above(m)
  PROVE  \E j \in Num : Append(n, j) \in Above(m) \cup {m}
<1> DEFINE Between(x, a) == \E j \in Num : Append(a, j) \in Above(x) \cup {x}
           X == {x \in Path : \E a \in Above(x) : ~Between(x, a)}
<1>1. SUFFICES ASSUME X # {} PROVE FALSE
  OBVIOUS
<1>2. PICK x \in X : \A y \in X : Len(x) <= Len(y)
  <2>1. X \in SUBSET Path
    OBVIOUS
  <2> HIDE DEF X
  <2> QED BY ONLY <1>1, <2>1, ShortestPath
<1>3. x \in Path
  OBVIOUS
<1>4. PICK a \in Above(x) : ~Between(x, a)
  OBVIOUS
<1>5. x # <<>>
  BY <1>4, PathRoot
<1>6. /\ Above(x) = Above(Front(x)) \cup {Front(x)} /\ Front(x) \in Path
      /\ Len(Front(x)) = Len(x) - 1 /\ Len(x) \in Nat
      /\ Last(x) \in Num /\ x = Append(Front(x), Last(x))
  BY <1>3, <1>5, PathAbove, PathFront DEF Path
<1>7. Front(x) \notin X
  <2> HIDE DEF X
  <2> QED BY <1>2, <1>6
<1>8. \A b \in Above(Front(x)) : Between(Front(x), b)
  BY <1>6, <1>7
<1>9. a # Front(x)
  BY <1>4, <1>6
<1> QED BY <1>4, <1>6, <1>8, <1>9

(* The nodes on the way to a node                                          *)
LEMMA UpTo ==
  ASSUME NEW n \in Path
  PROVE  {SubSeq(n, 1, k) : k \in 0 .. Len(n)} = Above(n) \cup {n}
<1>1. SubSeq(n, 1, Len(n)) = n /\ Len(n) \in Nat
  BY SubSeqFull DEF Path
<1>2. \A k : k \in 0 .. Len(n) <=> k \in 0 .. Len(n) - 1 \/ k = Len(n)
  BY <1>1
<1> QED BY <1>1, <1>2 DEF Above

(* A path that another one starts with is above it, or is that path.       *)
LEMMA StartsWith ==
  ASSUME NEW m \in Path, NEW n \in Path, Len(m) <= Len(n),
         \A i \in 1 .. Len(m) : m[i] = n[i]
  PROVE  m = n \/ m \in Above(n)
<1> DEFINE k == Len(m)
<1>1. /\ k \in Nat /\ Len(n) \in Nat /\ k <= Len(n) /\ m \in Seq(Num)
      /\ \A i \in 1 .. k : m[i] = n[i] /\ n[i] \in Num
  <2>1. \A x \in DOMAIN m : m[x] \in Num
    BY SeqValues DEF Path
  <2> QED BY <2>1, SeqValues DEF Path
<1> HIDE DEF k
<1>2. /\ SubSeq(n, 1, k) \in Seq(Num)
      /\ Len(SubSeq(n, 1, k)) = IF 1 <= k THEN k-1+1 ELSE 0
      /\ \A i \in 1 .. k-1+1 : SubSeq(n, 1, k)[i] = n[1+i-1]
  BY ONLY <1>1, SubSeqProperties, 1 \in Int, k \in Int
<1>3. k-1+1 = k /\ (~(1 <= k) => k = 0) /\ \A i \in 1 .. k : 1+i-1 = i
  BY ONLY <1>1
<1>4. Len(SubSeq(n, 1, k)) = k /\ \A i \in 1 .. k : SubSeq(n, 1, k)[i] = m[i]
  BY ONLY <1>1, <1>2, <1>3
<1>5. m = SubSeq(n, 1, k)
  BY ONLY <1>1, <1>2, <1>4, SeqEqual DEF k
<1>6. CASE k = Len(n)
  BY <1>5, <1>6, SubSeqFull DEF Path
<1>7. CASE k # Len(n)
  <2>1. PICK l \in Nat : l = Len(n)
    BY <1>1
  <2>2. k \in Nat /\ k <= l /\ k # l
    BY ONLY <1>1, <1>7, <2>1
  <2>3. k \in 0 .. l - 1
    BY ONLY <2>2, l \in Nat
  <2> QED BY ONLY <1>5, <2>1, <2>3 DEF Above
<1> QED BY <1>6, <1>7

-----------------------------------------------------------------------------
(* What a name depends on, in terms of the productions only                *)

LeastClosed(N, E) ==
  [a \in N |-> {b \in N : \A S \in {C \in SUBSET N : \A c \in C : E[c] \subseteq C} :
                            E[a] \subseteq S => b \in S}]

(* The least sets that hold the members of E[a] and of what E has for the  *)
(* members: they do, and no set that does is without one of theirs.        *)
LEMMA Closure ==
  ASSUME NEW N, NEW E \in [N -> SUBSET N], NEW B, B = LeastClosed(N, E)
  PROVE  /\ B \in [N -> SUBSET N]
         /\ \A a \in N : E[a] \subseteq B[a]
         /\ \A a \in N : \A b \in B[a] : E[b] \subseteq B[a] /\ B[b] \subseteq B[a]
         /\ \A a \in N : \A S \in SUBSET N :
              E[a] \subseteq S /\ (\A c \in S : E[c] \subseteq S) => B[a] \subseteq S
<1> USE DEF LeastClosed
<1>1. B \in [N -> SUBSET N] /\ \A a \in N : E[a] \subseteq B[a]
  OBVIOUS
<1>2. ASSUME NEW a \in N, NEW b \in B[a] PROVE E[b] \subseteq B[a]
  OBVIOUS
<1>3. ASSUME NEW a \in N, NEW S \in SUBSET N, E[a] \subseteq S, \A c \in S : E[c] \subseteq S
      PROVE  B[a] \subseteq S
  BY <1>3
<1>4. ASSUME NEW a \in N, NEW b \in B[a] PROVE B[b] \subseteq B[a]
  <2>1. b \in N /\ B[a] \in SUBSET N /\ E[b] \subseteq B[a] /\ \A c \in B[a] : E[c] \subseteq B[a]
    BY <1>1, <1>2
  <2> HIDE DEF LeastClosed
  <2> QED BY <1>3, <2>1
<1> HIDE DEF LeastClosed
<1> QED BY <1>1, <1>2, <1>3, <1>4

(* The remodelfile, as values that no step changes: N are the names in it, *)
(* D[a] the dependencies of a, H the names that have a production.         *)
FileIs(N, D, H, g) ==
  /\ in \in Input /\ in.goal = g
  /\ N = Source \cup {in.goal} \cup {in.file[j].name : j \in DOMAIN in.file}
            \cup UNION {ToSet(in.file[j].deps) : j \in DOMAIN in.file}
  /\ H = {a \in N : HasTarget(a)}
  /\ D = [a \in N |-> IF HasTarget(a) THEN Dependencies(a) ELSE <<>>]

(* No step changes the remodelfile.                                        *)
LEMMA FileKept ==
  ASSUME NEW N, NEW D, NEW H, NEW g, FileIs(N, D, H, g), in' = in
  PROVE  FileIs(N, D, H, g)'
BY DEF FileIs, HasTarget, Productions, Dependencies, Target

(* What the assumption on the input says of these values                   *)
LEMMA FileValues ==
  ASSUME NEW N, NEW D, NEW H, NEW g, FileIs(N, D, H, g)
  PROVE  /\ g \in N /\ H \subseteq N /\ Source \subseteq N /\ D \in [N -> Seq(N)]
         /\ \A a \in N : a \in H <=> HasTarget(a)
         /\ \A a \in N \ H : D[a] = <<>>
         /\ \A a \in H : Dependencies(a) = D[a]
<1>1. /\ g \in N /\ H \subseteq N /\ Source \subseteq N
      /\ \A a \in N : a \in H <=> HasTarget(a)
      /\ \A a \in N \ H : D[a] = <<>>
      /\ \A a \in H : Dependencies(a) = D[a]
  BY DEF FileIs
<1>2. ASSUME NEW a \in N PROVE D[a] \in Seq(N)
  <2>1. CASE a \notin H
    BY <1>1, <2>1, EmptySeq
  <2>2. CASE a \in H
    <3> DEFINE P == Productions(a)
               j == CHOOSE x \in P : \A k \in P : k <= x
               ds == in.file[j].deps
    <3>1. /\ P # {} /\ P \in SUBSET Nat /\ \A x \in P : x <= Len(in.file)
          /\ Len(in.file) \in Nat
      <4>1. in \in Input
        BY DEF FileIs
      <4>2. in.file \in Seq([name : STRING, deps : Seq(STRING), command : BOOLEAN])
        BY ONLY <4>1, InputAssumption
      <4>3. DOMAIN in.file = 1 .. Len(in.file) /\ Len(in.file) \in Nat
        BY ONLY <4>2, LenProperties
      <4>4. P # {} /\ P \subseteq DOMAIN in.file
        BY <1>1, <2>2 DEF HasTarget, Productions
      <4> HIDE DEF P
      <4> QED BY ONLY <4>3, <4>4
    <3>2. j \in P
      <4> HIDE DEF P
      <4>1. Max(P) \in P /\ \A y \in P : y <= Max(P)
        BY ONLY <3>1, GreatestNumber
      <4> QED BY <4>1
    <3>3. j \in DOMAIN in.file /\ ds \in Seq(STRING)
      <4>1. in.file \in Seq([name : STRING, deps : Seq(STRING), command : BOOLEAN])
        BY InputAssumption DEF FileIs
      <4>2. j \in DOMAIN in.file
        BY <3>2 DEF Productions
      <4>3. \A x \in DOMAIN in.file :
               in.file[x] \in [name : STRING, deps : Seq(STRING), command : BOOLEAN]
        BY ONLY <4>1, SeqValues
      <4> HIDE DEF j
      <4> QED BY <4>2, <4>3
    <3>4. ASSUME NEW k \in DOMAIN ds PROVE ds[k] \in N
      <4>1. ds[k] \in ToSet(ds)
        BY DEF ToSet
      <4>2. ToSet(ds) \in {ToSet(in.file[x].deps) : x \in DOMAIN in.file}
        BY <3>3
      <4> HIDE DEF ds
      <4> QED BY <4>1, <4>2 DEF FileIs
    <3>5. D[a] = Reverse(ds)
      BY <1>1, <2>2 DEF Dependencies, Target
    <3> HIDE DEF ds, j
    <3>6. Reverse(ds) \in Seq(N)
      BY <3>3, <3>4 DEF Reverse
    <3> QED BY <3>5, <3>6
  <2> QED BY <2>1, <2>2
<1>3. D \in [N -> Seq(N)]
  <2>1. D = [a \in N |-> D[a]]
    BY DEF FileIs
  <2> QED BY <1>2, <2>1
<1> QED BY <1>1, <1>3

-----------------------------------------------------------------------------
(* The tree while it is built: the calls for the nodes in W are pending.   *)

Known(N, H) == Source \cup H
Needs(N, D, H, g) ==
  [a \in N |-> IF a \in H /\ (a = g \/ a \notin Source) THEN ToSet(D[a]) ELSE {}]
BelowIn(N, D, H, g) == LeastClosed(N, Needs(N, D, H, g))

TreeBase(T, N, g) ==
  /\ IsFiniteSet(DOMAIN T) /\ DOMAIN T \subseteq Path /\ <<>> \in DOMAIN T
  /\ T \in [DOMAIN T -> N] /\ T[<<>>] = g
  /\ \A n \in DOMAIN T \ {<<>>} : Front(n) \in DOMAIN T
  /\ \A n \in DOMAIN T : \A a \in Above(n) : a \in DOMAIN T /\ T[a] # T[n]

TreeShape(T, C, W, N, D, H, g) ==
  /\ TreeBase(T, N, g)
  /\ C \in [DOMAIN T -> Nat]
  /\ W \subseteq DOMAIN T
  /\ \A n \in DOMAIN T :
       C[n] = IF n \in W \/ (n # <<>> /\ T[n] \in Source) THEN 0 ELSE Len(D[T[n]])
  /\ \A n \in DOMAIN T, j \in Num : Append(n, j) \in DOMAIN T <=> j \in 1 .. C[n]
  /\ \A n \in DOMAIN T : \A j \in 1 .. C[n] : T[Append(n, j)] = D[T[n]][j]
  /\ \A n \in DOMAIN T \ {<<>>} : T[n] \in Source \cup H
  /\ \A n \in DOMAIN T : \A a \in Above(n) : T[n] \in BelowIn(N, D, H, g)[T[a]]

(* The children d of node n can be added, and are.                         *)
NoFault(T, n, d, H) ==
  \A j \in 1 .. Len(d) :
    d[j] \in Source \cup H /\ \A a \in Above(n) \cup {n} : T[a] # d[j]
IsExtended(T, C, n, d, S, T2, C2, N) ==
  /\ S = {Append(n, j) : j \in 1 .. Len(d)}
  /\ T2 \in [S \cup DOMAIN T -> N] /\ C2 \in [S \cup DOMAIN T -> Nat]
  /\ \A m \in DOMAIN T : T2[m] = T[m]
  /\ \A j \in 1 .. Len(d) : T2[Append(n, j)] = d[j]
  /\ C2[n] = Len(d) /\ \A m \in S : C2[m] = 0
  /\ \A m \in DOMAIN T \ {n} : C2[m] = C[m]

(* Adding the children of a node whose call was pending leaves a tree, in  *)
(* which the calls for the children are pending                            *)
(* (file_add_nodes_to_remodel).                                            *)
LEMMA AddedShape ==
  ASSUME NEW N, NEW H \in SUBSET N, NEW D \in [N -> Seq(N)], NEW g \in H,
         NEW T, NEW C, NEW W, TreeShape(T, C, W, N, D, H, g),
         NEW n \in W, NEW d,
         d = IF n = <<>> \/ T[n] \notin Source THEN D[T[n]] ELSE <<>>,
         NEW S, NEW T2, NEW C2, NoFault(T, n, d, H), IsExtended(T, C, n, d, S, T2, C2, N)
  PROVE  TreeShape(T2, C2, S \cup (W \ {n}), N, D, H, g)
<1>0. /\ \A j \in 1 .. Len(d) : d[j] \in Source \cup H
      /\ \A j \in 1 .. Len(d) : \A a \in Above(n) \cup {n} : T[a] # d[j]
      /\ S = {Append(n, j) : j \in 1 .. Len(d)}
      /\ T2 \in [S \cup DOMAIN T -> N] /\ C2 \in [S \cup DOMAIN T -> Nat]
      /\ \A m \in DOMAIN T : T2[m] = T[m]
      /\ \A j \in 1 .. Len(d) : T2[Append(n, j)] = d[j]
      /\ C2[n] = Len(d) /\ \A m \in S : C2[m] = 0
      /\ \A m \in DOMAIN T \ {n} : C2[m] = C[m]
  BY DEF NoFault, IsExtended
<1> USE <1>0
<1>1. /\ n \in DOMAIN T /\ n \in Path /\ T[n] \in N /\ DOMAIN T \subseteq Path
      /\ T \in [DOMAIN T -> N] /\ C \in [DOMAIN T -> Nat] /\ C[n] = 0
  BY DEF TreeShape, TreeBase
<1>2. d \in Seq(N) /\ Len(d) \in Nat /\ \A j \in 1 .. Len(d) : d[j] \in N /\ j \in Num
  BY <1>1, EmptySeq DEF Num
<1>3. \A j \in 1 .. Len(d) : /\ Append(n, j) \in Path /\ Append(n, j) # <<>>
                            /\ Front(Append(n, j)) = n /\ Last(Append(n, j)) = j
                            /\ Above(Append(n, j)) = Above(n) \cup {n}
                            /\ Append(n, j) \notin DOMAIN T
  <2>1. \A j \in Num : Append(n, j) \notin DOMAIN T
    BY <1>1 DEF TreeShape
  <2>2. ASSUME NEW j \in 1 .. Len(d)
        PROVE  /\ Append(n, j) \in Path /\ Append(n, j) # <<>>
               /\ Front(Append(n, j)) = n /\ Last(Append(n, j)) = j
               /\ Above(Append(n, j)) = Above(n) \cup {n}
               /\ Append(n, j) \notin DOMAIN T
    <3>1. j \in Num /\ n \in Path
      BY ONLY <1>1, <1>2, j \in 1 .. Len(d)
    <3> QED BY ONLY <2>1, <3>1, PathAppend
  <2> QED BY ONLY <2>2
<1>4. S \subseteq Path /\ S \cap DOMAIN T = {}
  <2>1. ASSUME NEW m \in S PROVE m \in Path /\ m \notin DOMAIN T
    <3>1. PICK j \in 1 .. Len(d) : m = Append(n, j)
      OBVIOUS
    <3> QED BY ONLY <1>3, <3>1
  <2> QED BY ONLY <2>1
<1>5. /\ DOMAIN T2 = S \cup DOMAIN T
      /\ \A m \in DOMAIN T : T2[m] = T[m]
      /\ \A j \in 1 .. Len(d) : T2[Append(n, j)] = d[j]
  OBVIOUS
<1>6. /\ DOMAIN C2 = S \cup DOMAIN T
      /\ \A m \in DOMAIN T \ {n} : C2[m] = C[m]
      /\ C2[n] = Len(d)
      /\ \A m \in S : C2[m] = 0
  OBVIOUS
<1>7. n \notin S /\ \A m \in S : m # <<>> /\ Front(m) = n /\ Above(m) = Above(n) \cup {n}
  <2>1. S = {Append(n, j) : j \in 1 .. Len(d)}
    OBVIOUS
  <2>2. ASSUME NEW m \in S PROVE m # <<>> /\ Front(m) = n /\ Above(m) = Above(n) \cup {n}
    <3>1. PICK j \in 1 .. Len(d) : m = Append(n, j)
      BY ONLY <2>1
    <3> QED BY ONLY <1>3, <3>1
  <2>3. n \notin S
    BY ONLY <1>1, <1>4
  <2> QED BY ONLY <2>2, <2>3
<1>8. TreeBase(T2, N, g)
  <2>1. IsFiniteSet(DOMAIN T2)
    <3>1. IsFiniteSet(S)
      <4> DEFINE f == [j \in 1 .. Len(d) |-> Append(n, j)]
      <4>1. f \in Surjection(1 .. Len(d), S)
        BY ONLY <1>0, S = {Append(n, j) : j \in 1 .. Len(d)} DEF Surjection
      <4> QED BY ONLY <1>2, <4>1, FS_NatSurjection DEF ExistsSurjection
    <3>2. IsFiniteSet(DOMAIN T)
      BY DEF TreeShape, TreeBase
    <3>3. IsFiniteSet(S \cup DOMAIN T)
      BY ONLY <3>1, <3>2, FS_Union
    <3> QED BY ONLY <1>5, <3>3
  <2>2. DOMAIN T2 \subseteq Path /\ <<>> \in DOMAIN T2 /\ T2[<<>>] = g
    BY <1>4, <1>5 DEF TreeShape, TreeBase
  <2>3. T2 \in [DOMAIN T2 -> N]
    BY <1>5
  <2>4. ASSUME NEW m \in DOMAIN T2 \ {<<>>} PROVE Front(m) \in DOMAIN T2
    <3>1. CASE m \in S
      BY <1>1, <1>5, <1>7, <3>1
    <3>2. CASE m \in DOMAIN T
      BY <1>5, <3>2 DEF TreeShape, TreeBase
    <3> QED BY <1>5, <3>1, <3>2
  <2>5. ASSUME NEW m \in DOMAIN T2, NEW a \in Above(m)
        PROVE  a \in DOMAIN T2 /\ T2[a] # T2[m]
    <3>1. CASE m \in DOMAIN T
      BY <1>5, <2>5, <3>1 DEF TreeShape, TreeBase
    <3>2. CASE m \in S
      <4>1. a \in Above(n) \cup {n}
        BY <1>7, <2>5, <3>2
      <4>2. a \in DOMAIN T
        BY <1>1, <4>1 DEF TreeShape, TreeBase
      <4>3. PICK j \in 1 .. Len(d) : m = Append(n, j)
        BY <3>2
      <4>4. T[a] # d[j]
        BY <4>1, <4>3
      <4> QED BY ONLY <1>5, <4>2, <4>3, <4>4
    <3> QED BY <1>5, <2>5, <3>1, <3>2
  <2> QED BY <2>1, <2>2, <2>3, <2>4, <2>5 DEF TreeBase
<1>9. C2 \in [DOMAIN T2 -> Nat]
  BY <1>5
<1> DEFINE W2 == S \cup (W \ {n})
<1>10. W2 \subseteq DOMAIN T2 /\ n \notin W2 /\ \A m \in DOMAIN T \ {n} : m \in W2 <=> m \in W
  BY <1>4, <1>5, <1>7 DEF TreeShape
<1>11. ASSUME NEW m \in DOMAIN T2
       PROVE  C2[m] = IF m \in W2 \/ (m # <<>> /\ T2[m] \in Source) THEN 0 ELSE Len(D[T2[m]])
  <2>1. CASE m \in S
    BY <1>6, <2>1
  <2>2. CASE m = n
    <3>1. C2[m] = Len(d) /\ T2[m] = T[n] /\ m \notin W2 /\ Len(<<>>) = 0
      BY <1>1, <1>5, <1>6, <1>10, <2>2
    <3> HIDE DEF W2
    <3> QED BY <2>2, <3>1
  <2>3. CASE m \in DOMAIN T \ {n}
    <3>1. C2[m] = C[m] /\ T2[m] = T[m] /\ (m \in W2 <=> m \in W)
      BY <1>5, <1>6, <1>10, <2>3
    <3> HIDE DEF W2
    <3> QED BY <2>3, <3>1 DEF TreeShape
  <2> QED BY <1>5, <1>11, <2>1, <2>2, <2>3
<1>12. ASSUME NEW m \in DOMAIN T2, NEW j \in Num
       PROVE  Append(m, j) \in DOMAIN T2 <=> j \in 1 .. C2[m]
  <2>1. m \in Path /\ Append(m, j) # <<>> /\ Front(Append(m, j)) = m
    BY ONLY <1>1, <1>4, <1>5, PathAppend, m \in DOMAIN T2, j \in Num
  <2>2. CASE m \in S
    <3>1. Append(m, j) \notin S
      BY <1>7, <2>1, <2>2
    <3>2. Append(m, j) \notin DOMAIN T
      <4>1. m \notin DOMAIN T
        BY <1>4, <2>2
      <4>2. \A x \in DOMAIN T \ {<<>>} : Front(x) \in DOMAIN T
        BY DEF TreeShape, TreeBase
      <4> QED BY ONLY <2>1, <4>1, <4>2
    <3>3. C2[m] = 0 /\ j \notin 1 .. 0
      BY <1>6, <2>2 DEF Num
    <3> QED BY ONLY <1>5, <3>1, <3>2, <3>3
  <2>3. CASE m = n
    <3>1. Append(m, j) \notin DOMAIN T
      BY <1>1, <2>3 DEF TreeShape
    <3>2. Append(m, j) \in S <=> j \in 1 .. Len(d)
      <4>1. Append(m, j) \in S => j \in 1 .. Len(d)
        BY <1>3, <1>1, <2>3, PathAppend
      <4> QED BY <2>3, <4>1
    <3> QED BY <1>5, <1>6, <2>3, <3>1, <3>2
  <2>4. CASE m \in DOMAIN T \ {n}
    <3>1. Append(m, j) \notin S
      BY <1>7, <2>1, <2>4
    <3> QED BY <1>5, <1>6, <2>4, <3>1 DEF TreeShape
  <2> QED BY <1>5, <1>12, <2>2, <2>3, <2>4
<1>13. ASSUME NEW m \in DOMAIN T2, NEW j \in 1 .. C2[m]
       PROVE  T2[Append(m, j)] = D[T2[m]][j]
  <2>1. CASE m \in S
    <3>1. C2[m] = 0 /\ 1 .. 0 = {}
      BY <1>6, <2>1
    <3> QED BY <1>13, <3>1
  <2>2. CASE m = n
    <3>1. j \in 1 .. Len(d) /\ d = D[T[n]]
      BY <1>6, <1>13, <2>2
    <3> QED BY <1>1, <1>5, <2>2, <3>1
  <2>3. CASE m \in DOMAIN T \ {n}
    <3>1. j \in 1 .. C[m] /\ j \in Num
      BY <1>1, <1>6, <1>13, <2>3 DEF Num
    <3>2. Append(m, j) \in DOMAIN T /\ T[Append(m, j)] = D[T[m]][j]
      BY <2>3, <3>1 DEF TreeShape
    <3> QED BY <1>5, <2>3, <3>2
  <2> QED BY <1>5, <1>13, <2>1, <2>2, <2>3
<1>14. ASSUME NEW m \in DOMAIN T2 \ {<<>>} PROVE T2[m] \in Source \cup H
  <2>1. CASE m \in DOMAIN T
    BY <1>5, <2>1 DEF TreeShape
  <2>2. CASE m \in S
    <3>1. PICK j \in 1 .. Len(d) : m = Append(n, j)
      BY <2>2
    <3> QED BY <1>5, <3>1
  <2> QED BY <1>5, <2>1, <2>2
<1> DEFINE B == BelowIn(N, D, H, g)
           E == Needs(N, D, H, g)
<1>15. /\ \A a \in N : E[a] \subseteq B[a]
       /\ \A a \in N : \A b \in B[a] : E[b] \subseteq B[a]
  <2>1. E \in [N -> SUBSET N]
    <3>1. \A a \in N : ToSet(D[a]) \subseteq N
      BY DEF ToSet
    <3> QED BY <3>1 DEF Needs
  <2>2. B = LeastClosed(N, E)
    BY DEF BelowIn
  <2> HIDE DEF B, E
  <2> QED BY ONLY <2>1, <2>2, Closure
<1>16. ASSUME NEW m \in DOMAIN T2, NEW a \in Above(m)
       PROVE  T2[m] \in B[T2[a]]
  <2>1. CASE m \in DOMAIN T
    BY <1>5, <1>16, <2>1 DEF TreeShape, TreeBase
  <2>2. CASE m \in S
    <3>1. PICK j \in 1 .. Len(d) : m = Append(n, j)
      BY <2>2
    <3>2. a \in Above(n) \cup {n} /\ T2[m] = d[j]
      BY <1>5, <1>7, <1>16, <2>2, <3>1
    <3>3. a \in DOMAIN T /\ T2[a] = T[a]
      BY <1>1, <1>5, <3>2 DEF TreeShape, TreeBase
    <3>4. d = D[T[n]] /\ T[n] \in H /\ (T[n] = g \/ T[n] \notin Source)
      BY <1>1, <3>1, Len(<<>>) = 0 DEF TreeShape, TreeBase
    <3>5. d[j] \in E[T[n]]
      <4>1. d[j] \in ToSet(D[T[n]])
        BY <1>2, <3>4 DEF ToSet
      <4> QED BY <1>1, <3>4, <4>1 DEF Needs
    <3>6. a \in Above(n) => T[n] \in B[T[a]] /\ T[a] \in N
      BY <1>1, <3>3 DEF TreeShape
    <3> HIDE DEF B, E
    <3> QED BY <1>1, <1>15, <3>2, <3>3, <3>5, <3>6
  <2> QED BY <1>5, <1>16, <2>1, <2>2
<1> HIDE DEF W2, B
<1>17. TreeShape(T2, C2, W2, N, D, H, g)
  BY <1>8, <1>9, <1>10, <1>11, <1>12, <1>13, <1>14, <1>16 DEF TreeShape, B
<1> QED BY <1>17 DEF W2

-----------------------------------------------------------------------------
(* The tree when no call is pending *)

IsFile(N, D, H, g) ==
  D \in [N -> Seq(N)] /\ H \in SUBSET N /\ g \in N /\ \A a \in N \ H : D[a] = <<>>

(* What a name needs are names.                                            *)
LEMMA NeedsType ==
  ASSUME NEW N, NEW D, NEW H, NEW g, IsFile(N, D, H, g)
  PROVE  Needs(N, D, H, g) \in [N -> SUBSET N]
<1>1. \A a \in N : ToSet(D[a]) \subseteq N
  BY DEF ToSet, IsFile
<1> QED BY <1>1 DEF Needs

(* The children of a node are what its target depends on.                  *)
LEMMA ChildNames ==
  ASSUME NEW N, NEW D, NEW H, NEW g, IsFile(N, D, H, g),
         NEW T, NEW C, NEW W, TreeShape(T, C, W, N, D, H, g),
         NEW n \in DOMAIN T \ W
  PROVE  /\ Needs(N, D, H, g)[T[n]] = {T[Append(n, j)] : j \in 1 .. C[n]}
         /\ n # <<>> /\ T[n] \in Source => C[n] = 0
<1>1. /\ n \in Path /\ T[n] \in N /\ C[n] \in Nat /\ T[<<>>] = g /\ Len(<<>>) = 0
      /\ \A a \in Above(n) : T[a] # T[n]
  BY DEF TreeShape, TreeBase
<1>2. D[T[n]] \in Seq(N) /\ DOMAIN D[T[n]] = 1 .. Len(D[T[n]])
  BY <1>1 DEF IsFile
<1>3. CASE n # <<>> /\ T[n] \in Source
  <2>1. C[n] = 0 /\ T[n] # g
    BY <1>1, <1>3, RootAbove DEF TreeShape
  <2>2. 1 .. C[n] = {} /\ Needs(N, D, H, g)[T[n]] = {}
    BY <1>1, <1>3, <2>1 DEF Needs
  <2> QED BY <2>1, <2>2
<1>4. CASE n = <<>> \/ T[n] \notin Source
  <2>1. C[n] = Len(D[T[n]]) /\ (n = <<>> \/ T[n] \in H)
    BY <1>4 DEF TreeShape
  <2>2. Needs(N, D, H, g)[T[n]] = ToSet(D[T[n]])
    <3>1. CASE T[n] \in H
      BY <1>1, <1>4, <3>1 DEF Needs
    <3>2. CASE T[n] \notin H
      BY <1>1, <2>1, <3>2 DEF Needs, ToSet, IsFile
    <3> QED BY <3>1, <3>2
  <2>3. \A j \in 1 .. C[n] : T[Append(n, j)] = D[T[n]][j]
    BY DEF TreeShape
  <2>4. ToSet(D[T[n]]) = {D[T[n]][j] : j \in 1 .. C[n]}
    BY ONLY <1>2, <2>1 DEF ToSet
  <2>5. Needs(N, D, H, g)[T[n]] = {T[Append(n, j)] : j \in 1 .. C[n]}
    BY ONLY <2>2, <2>3, <2>4
  <2> QED BY <1>4, <2>5
<1> QED BY <1>3, <1>4

(* Where a child is                                                        *)
LEMMA ChildPlace ==
  ASSUME NEW N, NEW D, NEW H, NEW g,
         NEW T, NEW C, NEW W, TreeShape(T, C, W, N, D, H, g),
         NEW n \in DOMAIN T, NEW j \in 1 .. C[n]
  PROVE  /\ Append(n, j) \in DOMAIN T /\ Append(n, j) # <<>>
         /\ Front(Append(n, j)) = n
         /\ Above(Append(n, j)) = Above(n) \cup {n}
         /\ T[Append(n, j)] = D[T[n]][j]
<1>1. n \in Path /\ C[n] \in Nat /\ j \in Num
  BY DEF TreeShape, TreeBase, Num
<1>2. Append(n, j) \in DOMAIN T /\ T[Append(n, j)] = D[T[n]][j]
  BY <1>1 DEF TreeShape
<1> QED BY <1>1, <1>2, PathAppend

(* The nodes below a node *)
Under(T, n) == {m \in DOMAIN T : n \in Above(m)}

(* What a name depends on is what is below its nodes.                      *)
LEMMA CompleteBelow ==
  ASSUME NEW N, NEW D, NEW H, NEW g, IsFile(N, D, H, g),
         NEW T, NEW C, TreeShape(T, C, {}, N, D, H, g), NEW n \in DOMAIN T
  PROVE  BelowIn(N, D, H, g)[T[n]] = {T[m] : m \in Under(T, n)}
<1> DEFINE E == Needs(N, D, H, g)
           B == BelowIn(N, D, H, g)
           S == {T[m] : m \in Under(T, n)}
<1>1. E \in [N -> SUBSET N] /\ B = LeastClosed(N, E)
  BY NeedsType DEF BelowIn
<1>2. /\ \A m \in DOMAIN T : T[m] \in N
      /\ \A m \in DOMAIN T : \A a \in Above(m) : T[m] \in B[T[a]]
  BY DEF TreeShape, TreeBase
<1>3. S \subseteq B[T[n]]
  BY <1>2 DEF Under
<1>4. S \in SUBSET N
  BY <1>2 DEF Under
<1>5. ASSUME NEW m \in DOMAIN T, m = n \/ n \in Above(m) PROVE E[T[m]] \subseteq S
  <2>1. E[T[m]] = {T[Append(m, j)] : j \in 1 .. C[m]}
    BY ChildNames
  <2>2. ASSUME NEW j \in 1 .. C[m] PROVE Append(m, j) \in Under(T, n)
    BY <1>5, ChildPlace DEF Under
  <2> HIDE DEF E
  <2> QED BY ONLY <2>1, <2>2
<1>6. E[T[n]] \subseteq S /\ \A c \in S : E[c] \subseteq S
  <2>1. ASSUME NEW c \in S PROVE E[c] \subseteq S
    <3>1. PICK m \in Under(T, n) : c = T[m]
      OBVIOUS
    <3>2. m \in DOMAIN T /\ n \in Above(m)
      BY DEF Under
    <3> HIDE DEF E, S
    <3> QED BY <1>5, <3>1, <3>2
  <2> HIDE DEF E, S
  <2> QED BY <1>5, <2>1
<1>7. B[T[n]] \subseteq S
  <2>1. T[n] \in N
    BY <1>2
  <2> HIDE DEF E, S, B
  <2> QED BY ONLY <1>1, <1>4, <1>6, <2>1, Closure
<1> QED BY <1>3, <1>7

(* A tree without pending calls shows that nothing depends on itself and   *)
(* that every name has a production.                                       *)
LEMMA CompleteIsOrder ==
  ASSUME NEW N, NEW D, NEW H, NEW g, IsFile(N, D, H, g),
         NEW T, NEW C, TreeShape(T, C, {}, N, D, H, g)
  PROVE  \A x \in {g} \cup BelowIn(N, D, H, g)[g] :
           /\ \E n \in DOMAIN T : x = T[n]
           /\ x \notin BelowIn(N, D, H, g)[x]
           /\ x \in Source \cup H \cup {g}
<1> DEFINE B == BelowIn(N, D, H, g)
<1>1. /\ <<>> \in DOMAIN T /\ T[<<>>] = g
      /\ \A n \in DOMAIN T : \A a \in Above(n) : T[a] # T[n]
      /\ \A n \in DOMAIN T \ {<<>>} : T[n] \in Source \cup H
  BY DEF TreeShape, TreeBase
<1>2. ASSUME NEW n \in DOMAIN T PROVE B[T[n]] = {T[m] : m \in Under(T, n)}
  BY CompleteBelow
<1> HIDE DEF B
<1>3. ASSUME NEW x \in {g} \cup B[g] PROVE \E n \in DOMAIN T : x = T[n]
  BY <1>1, <1>2 DEF Under
<1>4. ASSUME NEW n \in DOMAIN T PROVE T[n] \notin B[T[n]]
  BY <1>1, <1>2 DEF Under
<1>5. ASSUME NEW n \in DOMAIN T PROVE T[n] \in Source \cup H \cup {g}
  BY <1>1
<1> QED BY <1>3, <1>4, <1>5 DEF B

-----------------------------------------------------------------------------
(* The inductive invariant *)

NotStarted == pc \in {"target", "md5"}
              \/ outcome \in {"no target", "command run", "no source"}
IsPruned == pc = "threads" \/ outcome = "scheduled"
Pending == IF NotStarted THEN {<<>>} ELSE ToSet(todo)

ListsOnce(q) == \A j, k \in DOMAIN q : q[j] = q[k] => j = k

ControlInv ==
  /\ pc \in {"target", "md5", "graph", "mark", "clean", "threads", "end"}
  /\ outcome \in Outcome
  /\ pc = "end" <=> outcome # "running"
  /\ total_threads \in Nat \ {0}
  /\ todo \in Seq(Path)
  /\ ListsOnce(todo)
  /\ pc = "graph" => todo # <<>>
  /\ ~(pc = "graph" \/ outcome \in {"cyclic", "invalid"}) => todo = <<>>

(* What ends the construction of the tree                                  *)
FaultInv(N, D, H, g) ==
  LET below == BelowIn(N, D, H, g)
      reached == {g} \cup below[g]
  IN  /\ g \in H \/ pc = "target" \/ outcome = "no target"
      /\ outcome = "cyclic" => \E a \in reached : a \in below[a]
      /\ outcome = "invalid" => \E a \in reached : a \notin Source \cup H \cup {g}

TargetsOf(T, g) == {g} \cup ({T[n] : n \in DOMAIN T} \ Source)

(* The tree before nodes are taken out                                     *)
WholeInv(N, D, H, g) ==
  /\ TreeShape(tree, child_nodes, Pending, N, D, H, g)
  /\ DOMAIN build_state = TargetsOf(tree, g)

(* A changed source is below the node.                                     *)
HasChange(T, n) == \E m \in Under(T, n) : T[m] \in in.changed

MarkedInv(T, C, g) ==
  /\ changed_dp = {T[n] : n \in {m \in DOMAIN T : (m = <<>> \/ T[m] \notin Source)
                                                  /\ HasChange(T, m)}}
  /\ \A n \in DOMAIN T :
       T[n] \in DOMAIN build_state /\ (T[n] \in changed_dp \/ C[n] = 0)
         => build_state[T[n]] = "READY"
  /\ HasChange(T, <<>>)

Kept(T, C, M) ==
  {n \in DOMAIN T : \A a \in Above(n) \cup {n} :
     a = <<>> \/ (T[a] \notin Source /\ (T[a] \in M \/ C[a] = 0))}

(* The tree that is left, of the tree T there was                          *)
PrunedInv(T, C, N, D, H, g) ==
  /\ TreeShape(T, C, {}, N, D, H, g)
  /\ DOMAIN build_state = TargetsOf(T, g)
  /\ MarkedInv(T, C, g)
  /\ tree = [n \in Kept(T, C, changed_dp) |-> T[n]]
  /\ child_nodes = [n \in DOMAIN tree |->
                      Cardinality({c \in DOMAIN tree : c # <<>> /\ Front(c) = n})]

StateInv(N, D, H, g) ==
  /\ changed_dp \subseteq DOMAIN build_state
  /\ pc \in {"target", "md5", "graph", "mark"} => changed_dp = {}
  /\ \A t \in DOMAIN build_state : build_state[t] \in {"READY", "DONE"}
  /\ ~IsPruned => WholeInv(N, D, H, g)
  /\ pc = "clean" => MarkedInv(tree, child_nodes, g)
  /\ outcome = "nothing new" => ~HasChange(tree, <<>>)
  /\ IsPruned => \E T, C : PrunedInv(T, C, N, D, H, g)

GraphInv(N, D, H, g) ==
  /\ FileIs(N, D, H, g)
  /\ ControlInv
  /\ FaultInv(N, D, H, g)
  /\ StateInv(N, D, H, g)

-----------------------------------------------------------------------------
(* The steps before there is a tree *)

(* The part of FileIs() that has no variables in it                        *)
LEMMA FileIsFile ==
  ASSUME NEW N, NEW D, NEW H, NEW g, FileIs(N, D, H, g)
  PROVE  IsFile(N, D, H, g)
BY FileValues DEF IsFile

(* The root alone, with its call pending, is a tree.                       *)
LEMMA RootShape ==
  ASSUME NEW N, NEW D, NEW H, NEW g, IsFile(N, D, H, g),
         NEW T, T = [n \in {<<>>} |-> g], NEW C, C = [n \in {<<>>} |-> 0]
  PROVE  TreeShape(T, C, {<<>>}, N, D, H, g)
<1>1. DOMAIN T = {<<>>} /\ T[<<>>] = g /\ C[<<>>] = 0 /\ T \in [DOMAIN T -> N]
      /\ C \in [DOMAIN T -> Nat]
  BY DEF IsFile
<1>2. IsFiniteSet(DOMAIN T)
  BY <1>1, FS_Singleton
<1>3. TreeBase(T, N, g)
  BY ONLY <1>1, <1>2, PathRoot DEF TreeBase
<1>4. \A j \in Num : Append(<<>>, j) \notin DOMAIN T /\ j \notin 1 .. C[<<>>]
  BY ONLY <1>1, PathRoot, PathAppend DEF Num
<1> QED BY ONLY <1>1, <1>3, <1>4, PathRoot DEF TreeShape

(* The first state                                                         *)
LEMMA GraphInit == Init => \E N, D, H, g : GraphInv(N, D, H, g)
<1> SUFFICES ASSUME Init PROVE \E N, D, H, g : GraphInv(N, D, H, g)
  OBVIOUS
<1>1. PICK g, N, D, H : FileIs(N, D, H, g)
  BY DEF Init, FileIs
<1>2. in.goal = g /\ IsFile(N, D, H, g) /\ in \in Input
  BY <1>1, FileIsFile DEF FileIs
<1>3. ControlInv
  BY ThreadsAssumption, EmptySeq DEF ControlInv, Init, Outcome, ListsOnce
<1>4. FaultInv(N, D, H, g)
  BY DEF FaultInv, Init
<1>5. NotStarted /\ ~IsPruned /\ pc # "clean" /\ outcome # "nothing new" /\ Pending = {<<>>}
  BY DEF NotStarted, IsPruned, Pending, Init
<1>6. tree = [n \in {<<>>} |-> g] /\ child_nodes = [n \in {<<>>} |-> 0]
  BY <1>2 DEF Init
<1>7. TreeShape(tree, child_nodes, Pending, N, D, H, g)
  BY ONLY <1>2, <1>5, <1>6, RootShape
<1>8. DOMAIN build_state = TargetsOf(tree, g)
  BY <1>2, <1>6 DEF Init, TargetsOf
<1>9. StateInv(N, D, H, g)
  BY <1>5, <1>7, <1>8 DEF StateInv, WholeInv, Init
<1> QED BY <1>1, <1>3, <1>4, <1>9 DEF GraphInv

(* main() until the target is found, or is a command                       *)
LEMMA FindTargetKeeps ==
  ASSUME NEW N, NEW D, NEW H, NEW g, GraphInv(N, D, H, g), FindTarget
  PROVE  GraphInv(N, D, H, g)'
<1> USE DEF Stop, Goto
<1>1. FileIs(N, D, H, g)'
  BY FileKept DEF GraphInv, FindTarget
<1>2. ControlInv'
  BY DEF GraphInv, FindTarget, ControlInv, Outcome, ListsOnce
<1>3. FaultInv(N, D, H, g)'
  <2>1. (g \in H \/ pc = "target" \/ outcome = "no target")'
    BY FileValues DEF GraphInv, FindTarget, FileIs
  <2>2. outcome' \notin {"cyclic", "invalid"}
    BY DEF GraphInv, FindTarget, ControlInv
  <2> QED BY <2>1, <2>2 DEF FaultInv
<1>4. ~IsPruned /\ ~IsPruned' /\ Pending = Pending'
  BY DEF FindTarget, IsPruned, Pending, NotStarted, GraphInv, ControlInv
<1>5. StateInv(N, D, H, g)'
  <2>1. WholeInv(N, D, H, g)'
    BY <1>4 DEF GraphInv, StateInv, FindTarget, WholeInv
  <2> QED BY <1>4, <2>1 DEF GraphInv, StateInv, FindTarget, ControlInv
<1> QED BY <1>1, <1>2, <1>3, <1>5 DEF GraphInv

(* md5_calculate_for_sources() and the first call for the tree             *)
LEMMA CalculateHashesKeeps ==
  ASSUME NEW N, NEW D, NEW H, NEW g, GraphInv(N, D, H, g), CalculateHashes
  PROVE  GraphInv(N, D, H, g)'
<1> USE DEF Stop, Goto
<1>1. FileIs(N, D, H, g)'
  BY FileKept DEF GraphInv, CalculateHashes
<1>2. ControlInv'
  <2>1. <<<<>>>> \in Seq(Path) /\ <<<<>>>> # <<>> /\ \A j \in DOMAIN <<<<>>>> : j = 1
    BY PathRoot
  <2> QED BY <2>1 DEF GraphInv, CalculateHashes, ControlInv, Outcome, ListsOnce
<1>3. FaultInv(N, D, H, g)'
  BY DEF FaultInv, GraphInv, CalculateHashes, ControlInv
<1>4. ~IsPruned /\ ~IsPruned' /\ Pending = Pending'
  <2>1. ToSet(<<<<>>>>) = {<<>>}
    BY DEF ToSet
  <2> QED BY <2>1 DEF CalculateHashes, IsPruned, Pending, NotStarted, GraphInv, ControlInv
<1>5. StateInv(N, D, H, g)'
  <2>1. WholeInv(N, D, H, g)'
    BY <1>4 DEF GraphInv, StateInv, CalculateHashes, WholeInv
  <2> QED BY <1>4, <2>1 DEF GraphInv, StateInv, CalculateHashes, ControlInv
<1> QED BY <1>1, <1>2, <1>3, <1>5 DEF GraphInv

-----------------------------------------------------------------------------
(* The construction of the tree *)

(* A list without its head, when nothing is in it twice                    *)
LEMMA TakeHead ==
  ASSUME NEW S, NEW q \in Seq(S), q # <<>>, ListsOnce(q)
  PROVE  /\ Head(q) \in ToSet(q) /\ ToSet(q) \subseteq S
         /\ Tail(q) \in Seq(S) /\ ListsOnce(Tail(q))
         /\ ToSet(Tail(q)) = ToSet(q) \ {Head(q)}
<1>1. /\ DOMAIN q = 1 .. Len(q) /\ Len(q) \in Nat /\ \A x \in DOMAIN q : q[x] \in S
      /\ Len(q) # 0
  BY SeqValues, EmptySeq
<1>2. Head(q) = q[1] /\ 1 \in DOMAIN q
  BY <1>1, HeadTailProperties
<1>3. /\ Tail(q) \in Seq(S) /\ Len(Tail(q)) = Len(q) - 1
      /\ \A i \in 1 .. Len(Tail(q)) : Tail(q)[i] = q[i + 1]
  BY HeadTailProperties
<1>4. DOMAIN Tail(q) = 1 .. Len(q) - 1
  BY <1>3, SeqValues
<1>5. ListsOnce(Tail(q))
  <2>1. \A j \in DOMAIN Tail(q) : Tail(q)[j] = q[j + 1] /\ j + 1 \in DOMAIN q /\ j \in Int
    BY <1>1, <1>3, <1>4
  <2> QED BY <2>1 DEF ListsOnce
<1>6. ASSUME NEW x PROVE x \in ToSet(Tail(q)) <=> x \in ToSet(q) \ {Head(q)}
  <2>1. ASSUME x \in ToSet(Tail(q)) PROVE x \in ToSet(q) \ {Head(q)}
    <3>1. PICK j \in DOMAIN Tail(q) : x = Tail(q)[j]
      BY <2>1 DEF ToSet
    <3>2. j + 1 \in DOMAIN q /\ x = q[j + 1] /\ j + 1 # 1
      BY <1>1, <1>3, <1>4, <3>1
    <3>3. x # q[1]
      BY <1>2, <3>2 DEF ListsOnce
    <3> QED BY <1>2, <3>2, <3>3 DEF ToSet
  <2>2. ASSUME x \in ToSet(q) \ {Head(q)} PROVE x \in ToSet(Tail(q))
    <3>1. PICK j \in DOMAIN q : x = q[j]
      BY <2>2 DEF ToSet
    <3>2. j # 1
      BY <1>2, <2>2, <3>1
    <3>3. j - 1 \in DOMAIN Tail(q) /\ (j - 1) + 1 = j
      BY <1>1, <1>4, <3>1, <3>2
    <3>4. Tail(q)[j - 1] = x
      BY <1>3, <1>4, <3>1, <3>3
    <3> QED BY <3>3, <3>4 DEF ToSet
  <2> QED BY <2>1, <2>2
<1> QED BY <1>1, <1>2, <1>3, <1>5, <1>6 DEF ToSet

(* Two lists with nothing in common, one in front of the other             *)
LEMMA PutInFront ==
  ASSUME NEW S, NEW p \in Seq(S), NEW q \in Seq(S), ListsOnce(p), ListsOnce(q),
         ToSet(p) \cap ToSet(q) = {}
  PROVE  /\ p \o q \in Seq(S) /\ ListsOnce(p \o q)
         /\ ToSet(p \o q) = ToSet(p) \cup ToSet(q)
<1> DEFINE r == p \o q
<1>1. /\ DOMAIN p = 1 .. Len(p) /\ Len(p) \in Nat /\ DOMAIN q = 1 .. Len(q) /\ Len(q) \in Nat
  BY SeqValues
<1>2. /\ r \in Seq(S) /\ Len(r) = Len(p) + Len(q)
      /\ \A i \in 1 .. Len(p) + Len(q) : r[i] = IF i <= Len(p) THEN p[i] ELSE q[i - Len(p)]
  BY ConcatProperties
<1>3. DOMAIN r = 1 .. Len(p) + Len(q)
  BY <1>2, SeqValues
<1> HIDE DEF r
<1>4. \A i \in DOMAIN r : \/ i \in DOMAIN p /\ r[i] = p[i]
                          \/ i - Len(p) \in DOMAIN q /\ r[i] = q[i - Len(p)]
  BY ONLY <1>1, <1>2, <1>3
<1>5. \A i \in DOMAIN p : i \in DOMAIN r /\ r[i] = p[i]
  BY ONLY <1>1, <1>2, <1>3
<1>6. ASSUME NEW i \in DOMAIN q PROVE i + Len(p) \in DOMAIN r /\ r[i + Len(p)] = q[i]
  <2>1. i + Len(p) \in DOMAIN r /\ ~(i + Len(p) <= Len(p)) /\ (i + Len(p)) - Len(p) = i
    BY <1>1, <1>3
  <2> QED BY <1>2, <1>3, <2>1
<1>7. ToSet(r) = ToSet(p) \cup ToSet(q)
  <2>1. \A x : x \in ToSet(r) => x \in ToSet(p) \cup ToSet(q)
    BY ONLY <1>4 DEF ToSet
  <2>2. \A x : x \in ToSet(p) => x \in ToSet(r)
    BY ONLY <1>5 DEF ToSet
  <2>3. \A x : x \in ToSet(q) => x \in ToSet(r)
    BY ONLY <1>6 DEF ToSet
  <2> QED BY <2>1, <2>2, <2>3
<1>8. ASSUME NEW j \in DOMAIN r, NEW k \in DOMAIN r, r[j] = r[k] PROVE j = k
  <2>0. j \in Int /\ k \in Int /\ Len(p) \in Int
    BY <1>1, <1>3
  <2>1. CASE j \in DOMAIN p /\ r[j] = p[j] /\ k \in DOMAIN p /\ r[k] = p[k]
    BY <1>8, <2>1 DEF ListsOnce
  <2>2. CASE /\ j - Len(p) \in DOMAIN q /\ r[j] = q[j - Len(p)]
             /\ k - Len(p) \in DOMAIN q /\ r[k] = q[k - Len(p)]
    <3>1. j - Len(p) = k - Len(p)
      BY <1>8, <2>2 DEF ListsOnce
    <3> QED BY ONLY <2>0, <3>1
  <2>3. CASE \/ /\ j \in DOMAIN p /\ r[j] = p[j]
                /\ k - Len(p) \in DOMAIN q /\ r[k] = q[k - Len(p)]
             \/ /\ k \in DOMAIN p /\ r[k] = p[k]
                /\ j - Len(p) \in DOMAIN q /\ r[j] = q[j - Len(p)]
    <3>1. r[j] \in ToSet(p) /\ r[j] \in ToSet(q)
      BY <1>8, <2>3 DEF ToSet
    <3> QED BY <3>1
  <2> QED BY <1>4, <2>1, <2>2, <2>3
<1> QED BY <1>2, <1>7, <1>8 DEF ListsOnce, r

(* What Fault() finds, in terms of the file and the nodes above            *)
LEMMA FaultMeans ==
  ASSUME NEW N, NEW D, NEW H, NEW g, FileIs(N, D, H, g),
         NEW n \in Path, NEW name \in N
  PROVE  \/ /\ Fault(n, name) = "none"
            /\ name \in Source \cup H /\ \A a \in Above(n) \cup {n} : tree[a] # name
         \/ /\ Fault(n, name) = "cyclic"
            /\ \E a \in Above(n) \cup {n} : tree[a] = name
         \/ Fault(n, name) = "invalid" /\ name \notin Source \cup H
<1>1. name \in H <=> HasTarget(name)
  BY FileValues
<1>2. IsBelowItself(n, name) <=> \E a \in Above(n) \cup {n} : tree[a] = name
  <2>1. SubSeq(n, 1, Len(n)) = n /\ Len(n) \in Nat
    BY SubSeqFull DEF Path
  <2>2. \A k : k \in 0 .. Len(n) <=> k \in 0 .. Len(n) - 1 \/ k = Len(n)
    BY <2>1
  <2> QED BY <2>1, <2>2 DEF IsBelowItself, Above
<1>3. CASE name \notin Source /\ ~HasTarget(name)
  BY <1>1, <1>3 DEF Fault
<1>4. CASE name \in Source \/ HasTarget(name)
  <2>1. Fault(n, name) = IF IsBelowItself(n, name) THEN "cyclic" ELSE "none"
    BY <1>4 DEF Fault
  <2> QED BY <1>1, <1>2, <1>4, <2>1
<1> QED BY <1>3, <1>4

(* The node that the next call is for                                      *)
LEMMA NextCall ==
  ASSUME NEW N, NEW D, NEW H, NEW g, GraphInv(N, D, H, g), pc = "graph",
         NEW n, n = Head(todo),
         NEW d, d = IF IsTarget(n) THEN Dependencies(tree[n]) ELSE <<>>
  PROVE  /\ TreeShape(tree, child_nodes, ToSet(todo), N, D, H, g)
         /\ DOMAIN build_state = TargetsOf(tree, g)
         /\ Pending = ToSet(todo) /\ outcome = "running" /\ g \in H
         /\ n \in ToSet(todo) /\ n \in DOMAIN tree /\ n \in Path /\ tree[n] \in N
         /\ Tail(todo) \in Seq(Path) /\ ListsOnce(Tail(todo))
         /\ ToSet(Tail(todo)) = ToSet(todo) \ {n}
         /\ d = IF n = <<>> \/ tree[n] \notin Source THEN D[tree[n]] ELSE <<>>
         /\ n = <<>> \/ tree[n] \notin Source => tree[n] \in H
         /\ d \in Seq(N) /\ DOMAIN d = 1 .. Len(d) /\ Len(d) \in Nat
<1>1. /\ todo \in Seq(Path) /\ todo # <<>> /\ ListsOnce(todo) /\ outcome = "running"
      /\ g \in H
  BY DEF GraphInv, ControlInv, FaultInv
<1>2. ~NotStarted /\ ~IsPruned /\ Pending = ToSet(todo)
  BY <1>1 DEF NotStarted, IsPruned, Pending
<1>3. TreeShape(tree, child_nodes, ToSet(todo), N, D, H, g) /\ DOMAIN build_state = TargetsOf(tree, g)
  BY <1>2 DEF GraphInv, StateInv, WholeInv
<1>4. /\ n \in ToSet(todo) /\ Tail(todo) \in Seq(Path) /\ ListsOnce(Tail(todo))
      /\ ToSet(Tail(todo)) = ToSet(todo) \ {n}
  BY ONLY <1>1, TakeHead, n = Head(todo)
<1>5. n \in DOMAIN tree /\ n \in Path /\ tree[n] \in N /\ tree[<<>>] = g
      /\ \A m \in DOMAIN tree \ {<<>>} : tree[m] \in Source \cup H
  BY <1>3, <1>4 DEF TreeShape, TreeBase
<1>6. n = <<>> \/ tree[n] \notin Source => tree[n] \in H
  BY <1>1, <1>5
<1>7. D \in [N -> Seq(N)] /\ \A a \in H : Dependencies(a) = D[a]
  BY FileValues DEF GraphInv
<1>8. d = IF n = <<>> \/ tree[n] \notin Source THEN D[tree[n]] ELSE <<>>
  BY <1>6, <1>7 DEF IsTarget
<1>9. d \in Seq(N)
  BY ONLY <1>5, <1>7, <1>8, EmptySeq
<1>10. DOMAIN d = 1 .. Len(d) /\ Len(d) \in Nat
  BY ONLY <1>9, SeqValues
<1> QED BY <1>1, <1>2, <1>3, <1>4, <1>5, <1>6, <1>8, <1>9, <1>10

(* A call that finds a fault stops the run for a reason in the             *)
(* remodelfile: a name that is above the node depends on itself, and one   *)
(* without a production is needed.                                         *)
LEMMA FaultKeeps ==
  ASSUME NEW N, NEW D, NEW H, NEW g, GraphInv(N, D, H, g), pc = "graph",
         NEW n, n = Head(todo),
         NEW d, d = IF IsTarget(n) THEN Dependencies(tree[n]) ELSE <<>>,
         NEW j \in DOMAIN d, Fault(n, d[j]) # "none", Stop(Fault(n, d[j])),
         UNCHANGED <<in, tree, todo, child_nodes, changed_dp, build_state,
                     total_threads>>
  PROVE  GraphInv(N, D, H, g)'
<1> USE DEF Stop
<1> DEFINE E == Needs(N, D, H, g)
           B == BelowIn(N, D, H, g)
<1>1. /\ TreeShape(tree, child_nodes, ToSet(todo), N, D, H, g)
      /\ n \in DOMAIN tree /\ n \in Path /\ tree[n] \in N /\ g \in H
      /\ d = IF n = <<>> \/ tree[n] \notin Source THEN D[tree[n]] ELSE <<>>
      /\ n = <<>> \/ tree[n] \notin Source => tree[n] \in H
      /\ d \in Seq(N) /\ DOMAIN d = 1 .. Len(d)
      /\ outcome = "running" /\ Pending = ToSet(todo)
  BY NextCall
<1>2. FileIs(N, D, H, g) /\ IsFile(N, D, H, g)
  BY FileIsFile DEF GraphInv
<1>3. d[j] \in N /\ Fault(n, d[j]) \in {"cyclic", "invalid"}
      /\ (Fault(n, d[j]) = "cyclic" => \E a \in Above(n) \cup {n} : tree[a] = d[j])
      /\ (Fault(n, d[j]) = "invalid" => d[j] \notin Source \cup H)
  <2>1. d[j] \in N
    BY <1>1, SeqValues
  <2> QED BY <1>1, <1>2, <2>1, FaultMeans
<1>4. d[j] \in E[tree[n]]
  <2>1. d = D[tree[n]] /\ tree[n] \in H /\ (tree[n] = g \/ tree[n] \notin Source)
    BY <1>1 DEF TreeShape, TreeBase
  <2>2. d[j] \in ToSet(D[tree[n]])
    BY <2>1 DEF ToSet
  <2> QED BY <1>1, <2>1, <2>2 DEF Needs
<1>5. /\ \A a \in N : E[a] \subseteq B[a]
      /\ \A a \in N : \A b \in B[a] : E[b] \subseteq B[a]
  <2>1. E \in [N -> SUBSET N] /\ B = LeastClosed(N, E)
    BY <1>2, NeedsType DEF BelowIn
  <2> HIDE DEF B, E
  <2> QED BY ONLY <2>1, Closure
<1>6. \A a \in Above(n) \cup {n} : tree[a] \in N /\ d[j] \in B[tree[a]]
  <2>1. \A a \in Above(n) : a \in DOMAIN tree /\ tree[a] \in N /\ tree[n] \in B[tree[a]]
    BY <1>1 DEF TreeShape, TreeBase
  <2> HIDE DEF B, E
  <2> QED BY ONLY <1>1, <1>4, <1>5, <2>1
<1>7. d[j] \in B[g]
  <2>1. tree[<<>>] = g /\ (n # <<>> => <<>> \in Above(n))
    BY <1>1, RootAbove DEF TreeShape, TreeBase
  <2> HIDE DEF B
  <2> QED BY <1>6, <2>1
<1>8. FaultInv(N, D, H, g)'
  <2>1. outcome' = "cyclic" => d[j] \in B[d[j]]
    BY <1>3, <1>6
  <2>2. outcome' = "invalid" => d[j] \notin Source \cup H \cup {g}
    BY <1>1, <1>3
  <2> QED BY <1>1, <1>7, <2>1, <2>2 DEF FaultInv
<1>9. FileIs(N, D, H, g)'
  BY <1>2, FileKept
<1>10. ControlInv'
  BY <1>3 DEF GraphInv, ControlInv, Outcome, ListsOnce
<1>11. StateInv(N, D, H, g)'
  <2>1. ~IsPruned /\ ~IsPruned' /\ Pending' = Pending
    BY <1>1, <1>3 DEF IsPruned, Pending, NotStarted
  <2>2. WholeInv(N, D, H, g)'
    BY <2>1 DEF GraphInv, StateInv, WholeInv
  <2> QED BY <1>3, <2>1, <2>2 DEF GraphInv, StateInv
<1> QED BY <1>8, <1>9, <1>10, <1>11 DEF GraphInv

(* A call of file_add_nodes_to_remodel()                                   *)
LEMMA AddNodesKeeps ==
  ASSUME NEW N, NEW D, NEW H, NEW g, GraphInv(N, D, H, g), AddNodes
  PROVE  GraphInv(N, D, H, g)'
<1> DEFINE n == Head(todo)
           d == IF IsTarget(n) THEN Dependencies(tree[n]) ELSE <<>>
           faulty == {j \in DOMAIN d : Fault(n, d[j]) # "none"}
           added == [j \in DOMAIN d |-> Append(n, j)]
           S == ToSet(added)
<1>1. /\ TreeShape(tree, child_nodes, ToSet(todo), N, D, H, g)
      /\ DOMAIN build_state = TargetsOf(tree, g)
      /\ Pending = ToSet(todo) /\ outcome = "running" /\ g \in H
      /\ n \in ToSet(todo) /\ n \in DOMAIN tree /\ n \in Path /\ tree[n] \in N
      /\ Tail(todo) \in Seq(Path) /\ ListsOnce(Tail(todo))
      /\ ToSet(Tail(todo)) = ToSet(todo) \ {n}
      /\ d = IF n = <<>> \/ tree[n] \notin Source THEN D[tree[n]] ELSE <<>>
      /\ d \in Seq(N) /\ DOMAIN d = 1 .. Len(d) /\ Len(d) \in Nat
  <2>1. pc = "graph" /\ \A x : x = n => x = Head(todo)
    BY DEF AddNodes
  <2> QED BY ONLY <2>1, NextCall, GraphInv(N, D, H, g)
<1>2. FileIs(N, D, H, g) /\ IsFile(N, D, H, g)
  BY FileIsFile DEF GraphInv
<1>3. CASE faulty # {}
  <2> DEFINE first == CHOOSE j \in faulty : \A k \in faulty : j <= k
  <2>1. /\ pc = "graph" /\ Stop(Fault(n, d[first]))
        /\ UNCHANGED <<in, tree, todo, child_nodes, changed_dp, build_state,
                       total_threads>>
    BY <1>3 DEF AddNodes
  <2>2. first \in faulty
    <3>1. faulty \in SUBSET Nat
      BY <1>1
    <3> HIDE DEF faulty
    <3>2. \E j \in faulty : \A k \in faulty : j <= k
      BY ONLY <1>3, <3>1, LeastNumber
    <3> QED BY <3>2
  <2>3. first \in DOMAIN d /\ Fault(n, d[first]) # "none"
    BY <2>2
  <2> HIDE DEF first, n, d
  <2> QED BY <2>1, <2>3, FaultKeeps DEF n, d
<1>4. CASE faulty = {}
  <2>1. /\ tree' = [m \in DOMAIN tree \cup S |->
                      IF m \in DOMAIN tree THEN tree[m] ELSE d[Last(m)]]
        /\ child_nodes' = [m \in DOMAIN tree \cup S |->
             IF m = n THEN Len(d) ELSE IF m \in DOMAIN tree THEN child_nodes[m] ELSE 0]
        /\ build_state' = [t \in DOMAIN build_state \cup (ToSet(d) \ Source) |->
             IF t \in DOMAIN build_state THEN build_state[t] ELSE "READY"]
        /\ todo' = added \o Tail(todo)
        /\ pc' = IF todo' = <<>> THEN "mark" ELSE "graph"
        /\ UNCHANGED <<in, outcome, changed_dp, total_threads>>
    BY <1>4 DEF AddNodes, Goto
  <2>2. pc = "graph"
    BY DEF AddNodes
  <2>3. ASSUME NEW j \in 1 .. Len(d)
        PROVE  /\ d[j] \in N /\ d[j] \in Source \cup H
               /\ \A a \in Above(n) \cup {n} : tree[a] # d[j]
    <3>1. Fault(n, d[j]) = "none" /\ d[j] \in N
      BY <1>1, <1>4, SeqValues
    <3> HIDE DEF d, n
    <3> QED BY <1>1, <1>2, <3>1, FaultMeans
  <2> HIDE DEF n, d
  <2>4. /\ S = {Append(n, j) : j \in 1 .. Len(d)}
        /\ \A j \in 1 .. Len(d) : Append(n, j) \in Path /\ Last(Append(n, j)) = j
                                  /\ Append(n, j) \notin DOMAIN tree
    <3>1. DOMAIN added = DOMAIN d
      OBVIOUS
    <3>2. \A j \in 1 .. Len(d) : j \in Num
      BY <1>1 DEF Num
    <3>3. child_nodes[n] = 0
      BY <1>1 DEF TreeShape
    <3>4. \A j \in Num : Append(n, j) \notin DOMAIN tree
      BY <1>1, <3>3 DEF TreeShape, Num
    <3>5. S = {Append(n, j) : j \in 1 .. Len(d)}
      BY <1>1 DEF ToSet
    <3> QED BY ONLY <1>1, <3>2, <3>4, <3>5, PathAppend
  <2>5. added \in Seq(Path) /\ ListsOnce(added) /\ S \cap ToSet(Tail(todo)) = {}
    <3>1. added \in Seq(Path)
      <4>1. added \in [1 .. Len(d) -> Path]
        BY <1>1, <2>4
      <4> HIDE DEF added
      <4> QED BY ONLY <1>1, <4>1
    <3>2. ListsOnce(added)
      <4>1. DOMAIN added = 1 .. Len(d)
        BY <1>1
      <4>2. \A j \in 1 .. Len(d) : added[j] = Append(n, j) /\ Last(Append(n, j)) = j
        BY <1>1, <2>4
      <4>3. PICK V : V = 1 .. Len(d)
        OBVIOUS
      <4> HIDE DEF added
      <4>4. DOMAIN added = V /\ \A j \in V : Last(added[j]) = j
        BY ONLY <4>1, <4>2, <4>3
      <4> QED BY ONLY <4>4 DEF ListsOnce
    <3>3. ToSet(Tail(todo)) \subseteq DOMAIN tree
      BY <1>1 DEF TreeShape
    <3>4. S \cap DOMAIN tree = {}
      BY <2>4
    <3> QED BY <3>1, <3>2, <3>3, <3>4
  <2> HIDE DEF S, added
  <2>6. todo' \in Seq(Path) /\ ListsOnce(todo') /\ ToSet(todo') = S \cup (ToSet(todo) \ {n})
    <3>1. ToSet(added) \cap ToSet(Tail(todo)) = {}
      BY <2>5 DEF S
    <3>2. Tail(todo) \in Seq(Path) /\ ListsOnce(Tail(todo)) /\ ToSet(Tail(todo)) = ToSet(todo) \ {n}
      BY <1>1
    <3> DEFINE rest == Tail(todo)
    <3> HIDE DEF rest
    <3>3. /\ added \o rest \in Seq(Path) /\ ListsOnce(added \o rest)
          /\ ToSet(added \o rest) = ToSet(added) \cup ToSet(rest)
      <4>1. /\ added \in Seq(Path) /\ ListsOnce(added) /\ rest \in Seq(Path) /\ ListsOnce(rest)
            /\ ToSet(added) \cap ToSet(rest) = {}
        BY ONLY <2>5, <3>1, <3>2 DEF rest
      <4> QED BY ONLY <4>1, PutInFront
    <3> QED BY ONLY <2>1, <3>2, <3>3 DEF S, rest
  <2>7. TreeShape(tree', child_nodes', ToSet(todo'), N, D, H, g)
    <3>1. /\ \A m \in DOMAIN tree : tree'[m] = tree[m]
          /\ \A j \in 1 .. Len(d) : tree'[Append(n, j)] = d[j]
          /\ child_nodes'[n] = Len(d) /\ \A m \in S : child_nodes'[m] = 0
          /\ \A m \in DOMAIN tree \ {n} : child_nodes'[m] = child_nodes[m]
      <4>1. S \cap DOMAIN tree = {}
        BY <2>4
      <4> QED BY <1>1, <2>1, <2>4, <4>1
    <3>2. tree' \in [S \cup DOMAIN tree -> N] /\ child_nodes' \in [S \cup DOMAIN tree -> Nat]
      <4>1. \A m \in S : tree'[m] \in N /\ child_nodes'[m] \in Nat
        <5>1. SUFFICES ASSUME NEW m \in S PROVE tree'[m] \in N /\ child_nodes'[m] \in Nat
          OBVIOUS
        <5>2. PICK j \in 1 .. Len(d) : m = Append(n, j)
          BY <2>4
        <5>3. tree'[m] = d[j] /\ child_nodes'[m] = 0
          BY <3>1, <5>2
        <5> QED BY <2>3, <5>3
      <4>2. \A m \in DOMAIN tree : tree[m] \in N /\ child_nodes[m] \in Nat
        BY <1>1 DEF TreeShape, TreeBase
      <4>3. \A m \in DOMAIN tree : tree'[m] \in N /\ child_nodes'[m] \in Nat
        BY <1>1, <3>1, <4>2
      <4>4. tree' = [m \in S \cup DOMAIN tree |-> tree'[m]]
        BY <2>1
      <4>5. child_nodes' = [m \in S \cup DOMAIN tree |-> child_nodes'[m]]
        BY <2>1
      <4> QED BY <4>1, <4>3, <4>4, <4>5
    <3>3. H \in SUBSET N /\ D \in [N -> Seq(N)]
      BY <1>2 DEF IsFile
    <3>4. TreeShape(tree', child_nodes', S \cup (ToSet(todo) \ {n}), N, D, H, g)
      <4>1. /\ TreeShape(tree, child_nodes, ToSet(todo), N, D, H, g)
            /\ g \in H /\ n \in ToSet(todo)
            /\ d = IF n = <<>> \/ tree[n] \notin Source THEN D[tree[n]] ELSE <<>>
        BY <1>1
      <4>2. IsExtended(tree, child_nodes, n, d, S, tree', child_nodes', N)
        BY ONLY <2>4, <3>1, <3>2 DEF IsExtended
      <4>3. NoFault(tree, n, d, H)
        BY <2>3 DEF NoFault
      <4> QED BY ONLY <3>3, <4>1, <4>2, <4>3, AddedShape
    <3> QED BY <2>6, <3>4
  <2>8. DOMAIN build_state' = TargetsOf(tree', g)
    <3>1. {tree'[m] : m \in DOMAIN tree'} = {tree[m] : m \in DOMAIN tree} \cup ToSet(d)
      <4>1. DOMAIN tree' = DOMAIN tree \cup S
        BY <2>1
      <4>2. \A m \in DOMAIN tree : tree'[m] = tree[m]
        BY <2>1
      <4>3. \A j \in DOMAIN d : Append(n, j) \in S /\ tree'[Append(n, j)] = d[j]
        BY <1>1, <2>1, <2>4
      <4>4. \A m \in S : \E j \in DOMAIN d : m = Append(n, j)
        BY <1>1, <2>4
      <4>5. ToSet(d) = {d[j] : j \in DOMAIN d}
        BY DEF ToSet
      <4>6. ASSUME NEW m \in DOMAIN tree'
            PROVE  tree'[m] \in {tree[x] : x \in DOMAIN tree} \cup ToSet(d)
        <5>1. CASE m \in DOMAIN tree
          BY ONLY <4>2, <5>1
        <5>2. CASE m \in S
          BY ONLY <4>3, <4>4, <4>5, <5>2
        <5> QED BY <4>1, <5>1, <5>2
      <4>7. ASSUME NEW x \in {tree[m] : m \in DOMAIN tree} \cup ToSet(d)
            PROVE  x \in {tree'[m] : m \in DOMAIN tree'}
        BY <4>1, <4>2, <4>3, <4>5
      <4> QED BY ONLY <4>6, <4>7
    <3>2. DOMAIN build_state' = DOMAIN build_state \cup (ToSet(d) \ Source)
      BY <2>1
    <3> QED BY <1>1, <3>1, <3>2 DEF TargetsOf
  <2>9. FileIs(N, D, H, g)'
    BY <1>2, <2>1, FileKept
  <2>10. ControlInv'
    <3>1. total_threads' \in Nat \ {0} /\ outcome' = "running" /\ pc' \in {"graph", "mark"}
          /\ (pc' = "graph" <=> todo' # <<>>)
      BY <1>1, <2>1 DEF GraphInv, ControlInv
    <3> QED BY <2>6, <3>1 DEF ControlInv, Outcome, ListsOnce
  <2>11. FaultInv(N, D, H, g)'
    BY <1>1, <2>1 DEF FaultInv
  <2>12. StateInv(N, D, H, g)'
    <3>1. ~IsPruned' /\ Pending' = ToSet(todo')
      BY <1>1, <2>1 DEF IsPruned, Pending, NotStarted
    <3>2. WholeInv(N, D, H, g)'
      BY <2>7, <2>8, <3>1 DEF WholeInv
    <3>3. changed_dp' \subseteq DOMAIN build_state'
      BY <2>1 DEF GraphInv, StateInv
    <3>4. \A t \in DOMAIN build_state' : build_state'[t] \in {"READY", "DONE"}
      BY <2>1 DEF GraphInv, StateInv
    <3>5. pc' # "clean" /\ outcome' # "nothing new"
      BY <1>1, <2>1
    <3>6. changed_dp' = {}
      BY <2>1, <2>2 DEF GraphInv, StateInv
    <3> QED BY <3>1, <3>2, <3>3, <3>4, <3>5, <3>6 DEF StateInv
  <2> QED BY <2>9, <2>10, <2>11, <2>12 DEF GraphInv
<1> QED BY <1>3, <1>4

-----------------------------------------------------------------------------
(* The marks *)

(* A node leads to a changed source if it is one or one of its children    *)
(* does: Changes, the recursive function, is what HasChange() says.        *)
LEMMA ChangeByStep ==
  ASSUME NEW N, NEW D, NEW H, NEW g, TreeShape(tree, child_nodes, {}, N, D, H, g),
         in.changed \subseteq Source, NEW n \in DOMAIN tree, IsTarget(n)
  PROVE  HasChange(tree, n) <=>
           \E c \in Children(n) : IF IsTarget(c) THEN HasChange(tree, c)
                                                 ELSE tree[c] \in in.changed
<1>1. /\ DOMAIN tree \subseteq Path /\ n \in Path /\ child_nodes[n] \in Nat
      /\ \A m \in DOMAIN tree : \A a \in Above(m) : a \in DOMAIN tree
      /\ \A m \in DOMAIN tree, j \in Num :
           Append(m, j) \in DOMAIN tree <=> j \in 1 .. child_nodes[m]
      /\ \A m \in DOMAIN tree : ~IsTarget(m) => child_nodes[m] = 0
  BY DEF TreeShape, TreeBase, IsTarget
<1>2. ASSUME NEW a \in DOMAIN tree, NEW m \in Under(tree, a)
      PROVE  \E j \in 1 .. child_nodes[a] : /\ Append(a, j) \in DOMAIN tree
                                            /\ Append(a, j) \in Above(m) \cup {m}
  <2>1. m \in DOMAIN tree /\ m \in Path /\ a \in Above(m)
    BY <1>1 DEF Under
  <2>2. PICK j \in Num : Append(a, j) \in Above(m) \cup {m}
    BY ONLY <2>1, ChildBetween
  <2> QED BY <1>1, <2>1, <2>2
<1>3. ASSUME HasChange(tree, n)
      PROVE  \E c \in Children(n) : IF IsTarget(c) THEN HasChange(tree, c)
                                                   ELSE tree[c] \in in.changed
  <2>1. PICK m \in Under(tree, n) : tree[m] \in in.changed
    BY <1>3 DEF HasChange
  <2>2. PICK j \in 1 .. child_nodes[n] : /\ Append(n, j) \in DOMAIN tree
                                         /\ Append(n, j) \in Above(m) \cup {m}
    BY <1>2
  <2> DEFINE c == Append(n, j)
  <2>3. c \in Children(n)
    BY <2>2 DEF Children
  <2>4. m # <<>> /\ m \in DOMAIN tree
    BY <2>1, PathRoot DEF Under
  <2>5. CASE c = m
    <3>1. ~IsTarget(c) /\ tree[c] \in in.changed
      BY <2>1, <2>4, <2>5 DEF IsTarget
    <3> QED BY <2>3, <3>1
  <2>6. CASE c \in Above(m)
    <3>1. m \in Under(tree, c)
      BY <2>4, <2>6 DEF Under
    <3>2. IsTarget(c)
      <4> HIDE DEF c
      <4>1. SUFFICES ASSUME ~IsTarget(c) PROVE FALSE
        OBVIOUS
      <4>2. c \in DOMAIN tree
        BY <2>2 DEF c
      <4>3. child_nodes[c] = 0 /\ \E i \in 1 .. child_nodes[c] : TRUE
        BY <1>1, <1>2, <3>1, <4>1, <4>2
      <4> QED BY <4>3
    <3>3. HasChange(tree, c)
      BY <2>1, <3>1 DEF HasChange
    <3> HIDE DEF c
    <3> QED BY <2>3, <3>2, <3>3
  <2> QED BY <2>2, <2>5, <2>6
<1>4. ASSUME NEW c \in Children(n),
             IF IsTarget(c) THEN HasChange(tree, c) ELSE tree[c] \in in.changed
      PROVE  HasChange(tree, n)
  <2>1. c \in DOMAIN tree /\ c \in Path /\ n \in Above(c)
    <3>1. PICK j \in 1 .. child_nodes[n] : c = Append(n, j) /\ c \in DOMAIN tree
      BY DEF Children
    <3>2. j \in Num
      BY <1>1 DEF Num
    <3>3. n \in Above(c)
      BY ONLY <1>1, <3>1, <3>2, PathAppend
    <3> QED BY <1>1, <3>1, <3>3
  <2>2. CASE IsTarget(c)
    <3>1. PICK m \in DOMAIN tree : c \in Above(m) /\ tree[m] \in in.changed
      BY <1>4, <2>2 DEF HasChange, Under
    <3>2. n \in Above(m)
      BY <1>1, <2>1, <3>1, AboveTransitive
    <3> QED BY <3>1, <3>2 DEF HasChange, Under
  <2>3. CASE ~IsTarget(c)
    BY <1>4, <2>1, <2>3 DEF HasChange, Under
  <2> QED BY <2>2, <2>3
<1> QED BY <1>3, <1>4

(* The values that the recursion has are the only ones: of two, a deepest  *)
(* node on which they differ would have a child on which they do.          *)
LEMMA ChangesAre ==
  ASSUME NEW N, NEW D, NEW H, NEW g, TreeShape(tree, child_nodes, {}, N, D, H, g),
         in.changed \subseteq Source
  PROVE  \A n \in DOMAIN tree :
           Changes[n] <=> IF IsTarget(n) THEN HasChange(tree, n)
                                         ELSE tree[n] \in in.changed
<1> DEFINE Step(f, n) == IF IsTarget(n) THEN \E c \in Children(n) : f[c]
                                        ELSE tree[n] \in in.changed
           Rec(f) == [n \in DOMAIN tree |-> Step(f, n)]
           leads == [n \in DOMAIN tree |-> IF IsTarget(n) THEN HasChange(tree, n)
                                                          ELSE tree[n] \in in.changed]
           changes == CHOOSE f : f = Rec(f)
<1>1. \A n \in DOMAIN tree : \A c \in Children(n) : c \in DOMAIN tree
  BY DEF Children
<1>2. \A n \in DOMAIN tree : leads[n] <=> Step(leads, n)
  <2>1. ASSUME NEW n \in DOMAIN tree, IsTarget(n) PROVE leads[n] <=> Step(leads, n)
    <3>1. HasChange(tree, n) <=>
           \E c \in Children(n) : IF IsTarget(c) THEN HasChange(tree, c)
                                                 ELSE tree[c] \in in.changed
      BY <2>1, ChangeByStep
    <3> QED BY ONLY <1>1, <2>1, <3>1, Zenon
  <2>2. ASSUME NEW n \in DOMAIN tree, ~IsTarget(n) PROVE leads[n] <=> Step(leads, n)
    BY <2>2
  <2> QED BY <2>1, <2>2
<1>3. leads = Rec(leads)
  <2> DEFINE Value(n) == IF IsTarget(n) THEN HasChange(tree, n)
                                        ELSE tree[n] \in in.changed
  <2>1. ASSUME NEW n \in DOMAIN tree PROVE Value(n) = Step(leads, n)
    <3>1. CASE IsTarget(n)
      <4>1. HasChange(tree, n) <=> \E c \in Children(n) : leads[c]
        BY <1>2, <3>1
      <4>2. HasChange(tree, n) = \E c \in Children(n) : leads[c]
        <5> HIDE DEF leads
        <5> QED BY ONLY <4>1 DEF HasChange
      <4> QED BY ONLY <3>1, <4>2
    <3>2. CASE ~IsTarget(n)
      BY ONLY <3>2
    <3> QED BY <3>1, <3>2
  <2>2. [n \in DOMAIN tree |-> Value(n)] = [n \in DOMAIN tree |-> Step(leads, n)]
    <3> HIDE DEF Value, Step
    <3> QED BY ONLY <2>1
  <2> QED BY <2>2
<1>4. changes = Rec(changes)
  BY <1>3
<1>5. Changes = changes
  BY DEF Changes
<1>6. \A n \in DOMAIN tree : changes[n] <=> Step(changes, n)
  <2> HIDE DEF changes
  <2>1. \A n \in DOMAIN tree : Rec(changes)[n] <=> Step(changes, n)
    OBVIOUS
  <2> HIDE DEF Rec
  <2> QED BY <1>4, <2>1
<1> HIDE DEF changes, leads
<1> DEFINE X == {n \in DOMAIN tree : ~(changes[n] <=> leads[n])}
<1>7. X = {}
  <2> SUFFICES ASSUME X # {} PROVE FALSE
    OBVIOUS
  <2>1. DOMAIN tree \subseteq Path /\ IsFiniteSet(DOMAIN tree)
        /\ \A n \in DOMAIN tree : child_nodes[n] \in Nat
    BY DEF TreeShape, TreeBase
  <2>2. X \in SUBSET Path /\ IsFiniteSet(X)
    <3>1. X \in SUBSET (DOMAIN tree)
      OBVIOUS
    <3> HIDE DEF X
    <3> QED BY <2>1, <3>1, FS_Subset
  <2>3. PICK n \in X : \A m \in X : Len(m) <= Len(n)
    <3> HIDE DEF X
    <3> QED BY <2>2, LongestPath
  <2>4. n \in DOMAIN tree /\ ~(changes[n] <=> leads[n]) /\ n \in Path
    BY <2>1
  <2>5. ASSUME NEW c \in Children(n) PROVE c \in DOMAIN tree /\ c \notin X
    <3>1. PICK j \in 1 .. child_nodes[n] : c = Append(n, j) /\ c \in DOMAIN tree
      BY DEF Children
    <3>2. j \in Num
      BY <2>1, <2>4 DEF Num
    <3>3. Len(c) = Len(n) + 1 /\ Len(n) \in Nat
      BY <2>4, <3>1, <3>2, PathAppend, LenProperties DEF Path
    <3>4. c \notin X
      <4> HIDE DEF X
      <4> QED BY <2>3, <3>3
    <3> QED BY <3>1, <3>4
  <2>6. \A c \in Children(n) : changes[c] <=> leads[c]
    BY <2>5
  <2>7. Step(changes, n) <=> Step(leads, n)
    BY <2>6
  <2> HIDE DEF Step
  <2> QED BY <1>2, <1>6, <2>4, <2>7
<1>8. \A n \in DOMAIN tree : leads[n] <=> IF IsTarget(n) THEN HasChange(tree, n)
                                                        ELSE tree[n] \in in.changed
  BY DEF leads
<1> QED BY <1>5, <1>7, <1>8

(* file_mark_all_targets_for_build()                                       *)
LEMMA MarkTargetsKeeps ==
  ASSUME NEW N, NEW D, NEW H, NEW g, GraphInv(N, D, H, g), MarkTargets
  PROVE  GraphInv(N, D, H, g)'
<1> USE DEF Stop, Goto
<1> DEFINE changed == {tree[n] : n \in {m \in DOMAIN tree : IsTarget(m) /\ Changes[m]}}
           childless == {tree[n] : n \in {m \in DOMAIN tree : child_nodes[m] = 0}}
<1>1. /\ pc = "mark" /\ changed_dp' = changed_dp \cup changed
      /\ build_state' = [t \in DOMAIN build_state |->
           IF t \in changed \cup childless THEN "READY" ELSE "DONE"]
      /\ UNCHANGED <<in, tree, todo, child_nodes, total_threads>>
      /\ \/ Changes[<<>>] /\ pc' = "clean" /\ outcome' = outcome
         \/ ~Changes[<<>>] /\ pc' = "end" /\ outcome' = "nothing new"
  BY DEF MarkTargets
<1>2. /\ outcome = "running" /\ todo = <<>> /\ changed_dp = {}
      /\ TreeShape(tree, child_nodes, Pending, N, D, H, g)
      /\ DOMAIN build_state = TargetsOf(tree, g)
  BY <1>1 DEF GraphInv, ControlInv, StateInv, IsPruned, WholeInv
<1>3. Pending = {} /\ Pending' = {} /\ ~IsPruned' /\ ~NotStarted'
  <2>1. ToSet(todo) = {}
    BY <1>2 DEF ToSet
  <2> QED BY <1>1, <1>2, <2>1 DEF Pending, NotStarted, IsPruned
<1>4. FileIs(N, D, H, g) /\ in.changed \subseteq Source
  BY InputAssumption DEF GraphInv, FileIs
<1>5. TreeShape(tree, child_nodes, {}, N, D, H, g) /\ <<>> \in DOMAIN tree
  BY <1>2, <1>3 DEF TreeShape, TreeBase
<1>6. \A n \in DOMAIN tree : IsTarget(n) => (Changes[n] <=> HasChange(tree, n))
  BY <1>4, <1>5, ChangesAre
<1>7. changed = {tree[n] : n \in {m \in DOMAIN tree : (m = <<>> \/ tree[m] \notin Source)
                                                     /\ HasChange(tree, m)}}
  BY <1>6 DEF IsTarget
<1>8. Changes[<<>>] <=> HasChange(tree, <<>>)
  BY <1>5, <1>6 DEF IsTarget
<1> HIDE DEF changed
<1>9. FileIs(N, D, H, g)'
  BY <1>1, <1>4, FileKept
<1>10. ControlInv'
  BY <1>1, <1>2 DEF GraphInv, ControlInv, Outcome, ListsOnce
<1>11. FaultInv(N, D, H, g)'
  BY <1>1, <1>2 DEF GraphInv, FaultInv
<1>12. StateInv(N, D, H, g)'
  <2>1. changed_dp' = changed /\ changed \subseteq DOMAIN build_state
    <3>1. changed \subseteq TargetsOf(tree, g)
      BY <1>5, <1>7 DEF TargetsOf, TreeShape, TreeBase
    <3> QED BY <1>1, <1>2, <3>1
  <2>2. \A t \in DOMAIN build_state' : build_state'[t] \in {"READY", "DONE"}
    BY <1>1
  <2>3. WholeInv(N, D, H, g)'
    BY <1>1, <1>2, <1>3 DEF WholeInv
  <2>4. \A n : HasChange(tree, n)' <=> HasChange(tree, n)
    BY <1>1 DEF HasChange, Under
  <2>5. pc' = "clean" => MarkedInv(tree, child_nodes, g)'
    <3> SUFFICES ASSUME pc' = "clean" PROVE MarkedInv(tree, child_nodes, g)'
      OBVIOUS
    <3>1. HasChange(tree, <<>>)'
      BY <1>1, <1>8, <2>4
    <3>2. \A n \in DOMAIN tree :
            tree[n] \in DOMAIN build_state /\ (tree[n] \in changed \/ child_nodes[n] = 0)
              => build_state'[tree[n]] = "READY"
      BY <1>1
    <3>3. (changed_dp = {tree[n] : n \in {m \in DOMAIN tree :
             (m = <<>> \/ tree[m] \notin Source) /\ HasChange(tree, m)}})'
      BY <1>1, <1>7, <2>1, <2>4
    <3>4. DOMAIN build_state' = DOMAIN build_state
      BY <1>1
    <3> QED BY <1>1, <2>1, <3>1, <3>2, <3>3, <3>4 DEF MarkedInv
  <2>6. outcome' = "nothing new" => ~HasChange(tree, <<>>)'
    BY <1>1, <1>2, <1>8, <2>4
  <2>7. pc' \notin {"target", "md5", "graph", "mark"} /\ DOMAIN build_state' = DOMAIN build_state
    BY <1>1
  <2> QED BY <1>3, <2>1, <2>2, <2>3, <2>5, <2>6, <2>7 DEF StateInv
<1> QED BY <1>9, <1>10, <1>11, <1>12 DEF GraphInv

-----------------------------------------------------------------------------
(* The nodes that are taken out *)

(* file_cleanup_nodes_for_unchanged_files()                                *)
LEMMA CleanupKeeps ==
  ASSUME NEW N, NEW D, NEW H, NEW g, GraphInv(N, D, H, g), Cleanup
  PROVE  GraphInv(N, D, H, g)'
<1> USE DEF Goto
<1> DEFINE kept == {n \in DOMAIN tree :
                      \A k \in 0 .. Len(n) : ~IsRemoved(SubSeq(n, 1, k))}
<1>1. /\ pc = "clean" /\ pc' = "threads" /\ outcome' = outcome
      /\ tree' = [n \in kept |-> tree[n]]
      /\ child_nodes' = [n \in kept |-> CountChildren(n, kept)]
      /\ UNCHANGED <<in, todo, changed_dp, build_state, total_threads>>
  BY DEF Cleanup
<1>2. /\ outcome = "running" /\ todo = <<>>
      /\ TreeShape(tree, child_nodes, Pending, N, D, H, g)
      /\ DOMAIN build_state = TargetsOf(tree, g)
      /\ MarkedInv(tree, child_nodes, g)
  BY <1>1 DEF GraphInv, ControlInv, StateInv, IsPruned, WholeInv
<1>3. Pending = {} /\ IsPruned'
  <2>1. ToSet(todo) = {}
    BY <1>2 DEF ToSet
  <2> QED BY <1>1, <1>2, <2>1 DEF Pending, NotStarted, IsPruned
<1>4. kept = Kept(tree, child_nodes, changed_dp)
  <2>1. DOMAIN tree \subseteq Path
    BY <1>2 DEF TreeShape, TreeBase
  <2>2. ASSUME NEW n \in DOMAIN tree
        PROVE  (\A k \in 0 .. Len(n) : ~IsRemoved(SubSeq(n, 1, k)))
                 <=> \A a \in Above(n) \cup {n} : ~IsRemoved(a)
    <3>1. {SubSeq(n, 1, k) : k \in 0 .. Len(n)} = Above(n) \cup {n}
      BY <2>1, UpTo
    <3> QED BY ONLY <3>1
  <2>3. \A a : ~IsRemoved(a) <=>
          a = <<>> \/ (tree[a] \notin Source /\ (tree[a] \in changed_dp \/ child_nodes[a] = 0))
    BY DEF IsRemoved, IsTarget
  <2> QED BY <2>2, <2>3 DEF Kept
<1> HIDE DEF kept
<1>5. FileIs(N, D, H, g)'
  BY <1>1, FileKept DEF GraphInv
<1>6. ControlInv'
  BY <1>1, <1>2 DEF GraphInv, ControlInv, Outcome, ListsOnce
<1>7. FaultInv(N, D, H, g)'
  BY <1>1, <1>2 DEF GraphInv, FaultInv
<1>8. \E T, C : PrunedInv(T, C, N, D, H, g)'
  <2>1. PICK T, C : T = tree /\ C = child_nodes
    OBVIOUS
  <2>2. TreeShape(T, C, {}, N, D, H, g) /\ DOMAIN build_state = TargetsOf(T, g)
        /\ MarkedInv(T, C, g) /\ kept = Kept(T, C, changed_dp)
    BY <1>2, <1>3, <1>4, <2>1
  <2>3. MarkedInv(T, C, g)'
    BY <1>1, <2>2 DEF MarkedInv, HasChange, Under
  <2>4. /\ tree' = [n \in Kept(T, C, changed_dp)' |-> T[n]]
        /\ child_nodes' = [n \in DOMAIN tree' |->
             Cardinality({c \in DOMAIN tree' : c # <<>> /\ Front(c) = n})]
    <3>1. DOMAIN tree' = kept /\ Kept(T, C, changed_dp)' = kept
      BY <1>1, <2>2 DEF Kept
    <3> QED BY <1>1, <2>1, <3>1 DEF CountChildren
  <2> QED BY <1>1, <2>2, <2>3, <2>4 DEF PrunedInv
<1>9. StateInv(N, D, H, g)'
  <2>1. /\ changed_dp' \subseteq DOMAIN build_state'
        /\ \A t \in DOMAIN build_state' : build_state'[t] \in {"READY", "DONE"}
        /\ pc' \notin {"target", "md5", "graph", "mark", "clean"}
        /\ outcome' # "nothing new"
    BY <1>1, <1>2 DEF GraphInv, StateInv
  <2> QED BY <1>3, <1>8, <2>1 DEF StateInv
<1> QED BY <1>5, <1>6, <1>7, <1>9 DEF GraphInv

(* The tree that is left is one, of the nodes it was of.                   *)
LEMMA KeptIsTree ==
  ASSUME NEW N, NEW D, NEW H, NEW g, NEW T, NEW C, PrunedInv(T, C, N, D, H, g)
  PROVE  TreeBase(tree, N, g) /\ DOMAIN tree \subseteq DOMAIN T
         /\ \A n \in DOMAIN tree : tree[n] = T[n]
<1> DEFINE K == Kept(T, C, changed_dp)
<1>1. tree = [n \in K |-> T[n]] /\ K \subseteq DOMAIN T
  BY DEF PrunedInv, Kept
<1>2. TreeBase(T, N, g)
  BY DEF PrunedInv, TreeShape
<1>3. \A n \in K : \A a \in Above(n) : a \in K
  <2> SUFFICES ASSUME NEW n \in K, NEW a \in Above(n) PROVE a \in K
    OBVIOUS
  <2>1. n \in Path /\ a \in DOMAIN T /\ n \in DOMAIN T
    BY <1>1, <1>2 DEF TreeBase
  <2>2. Above(a) \subseteq Above(n)
    BY <2>1, AboveTransitive
  <2> QED BY <2>1, <2>2 DEF Kept
<1>4. <<>> \in K
  BY <1>2, PathRoot DEF Kept, TreeBase
<1>5. \A n \in K \ {<<>>} : Front(n) \in K
  <2> SUFFICES ASSUME NEW n \in K \ {<<>>} PROVE Front(n) \in K
    OBVIOUS
  <2>1. n \in Path
    BY <1>1, <1>2 DEF TreeBase
  <2>2. Front(n) \in Above(n)
    BY <2>1, PathAbove
  <2> QED BY <1>3, <2>2
<1> HIDE DEF K
<1>6. IsFiniteSet(K)
  BY <1>1, <1>2, FS_Subset DEF TreeBase
<1>7. DOMAIN tree = K /\ \A n \in K : tree[n] = T[n]
  BY <1>1
<1>8. tree \in [DOMAIN tree -> N] /\ tree[<<>>] = g
  BY <1>1, <1>2, <1>4 DEF TreeBase
<1>9. K \subseteq Path
  BY <1>1, <1>2 DEF TreeBase
<1>10. \A n \in K : \A a \in Above(n) : tree[a] # tree[n]
  BY <1>1, <1>2, <1>3, <1>7 DEF TreeBase
<1> QED BY <1>1, <1>3, <1>4, <1>5, <1>6, <1>7, <1>8, <1>9, <1>10 DEF TreeBase

(* The nodes form a tree at any time.                                      *)
LEMMA AlwaysTree ==
  ASSUME NEW N, NEW D, NEW H, NEW g, GraphInv(N, D, H, g)
  PROVE  TreeBase(tree, N, g) /\ DOMAIN child_nodes = DOMAIN tree
         /\ DOMAIN build_state \subseteq N
<1>1. CASE IsPruned
  <2>1. PICK T, C : PrunedInv(T, C, N, D, H, g)
    BY <1>1 DEF GraphInv, StateInv
  <2>2. TreeBase(tree, N, g)
    BY <2>1, KeptIsTree
  <2>3. DOMAIN child_nodes = DOMAIN tree
    BY <2>1 DEF PrunedInv
  <2>4. TargetsOf(T, g) \subseteq N
    BY <2>1 DEF PrunedInv, TargetsOf, TreeShape, TreeBase
  <2> QED BY <2>1, <2>2, <2>3, <2>4 DEF PrunedInv
<1>2. CASE ~IsPruned
  <2>1. WholeInv(N, D, H, g)
    BY <1>2 DEF GraphInv, StateInv
  <2> QED BY <2>1 DEF WholeInv, TargetsOf, TreeShape, TreeBase
<1> QED BY <1>1, <1>2

(* calculate_number_of_threads_needed() finds a number.                    *)
LEMMA CountThreadsKeeps ==
  ASSUME NEW N, NEW D, NEW H, NEW g, GraphInv(N, D, H, g), CountThreads
  PROVE  GraphInv(N, D, H, g)'
<1> USE DEF Stop
<1>1. /\ pc = "threads" /\ pc' = "end" /\ outcome' = "scheduled"
      /\ UNCHANGED <<in, tree, todo, child_nodes, changed_dp, build_state>>
  BY DEF CountThreads
<1>2. outcome = "running" /\ todo = <<>> /\ IsPruned /\ IsPruned'
  BY <1>1 DEF GraphInv, ControlInv, IsPruned
<1>3. TotalNodes \in Nat \ {0}
  <2>1. IsFiniteSet(DOMAIN tree) /\ <<>> \in DOMAIN tree
    BY AlwaysTree DEF TreeBase
  <2>2. DOMAIN tree # {}
    BY <2>1
  <2> QED BY ONLY <2>1, <2>2, FS_CardinalityType, FS_EmptySet DEF TotalNodes
<1>4. total_threads' \in Nat \ {0}
  <2> DEFINE n == TotalNodes
             IsRoot(k) == k * k <= n /\ n < (k + 1) * (k + 1)
             root == CHOOSE k \in 0 .. n : IsRoot(k)
  <2>1. \E k \in 0 .. n : IsRoot(k)
    <3> HIDE DEF n
    <3> QED BY ONLY <1>3, SquareRoot DEF n
  <2>2. root \in 0 .. n
    <3> HIDE DEF n, IsRoot
    <3> QED BY ONLY <2>1
  <2>3. total_threads' = IF root = 0 THEN 1 ELSE root
    BY DEF CountThreads
  <2> HIDE DEF root, n
  <2> QED BY ONLY <1>3, <2>2, <2>3 DEF n
<1>5. FileIs(N, D, H, g)'
  BY <1>1, FileKept DEF GraphInv
<1>6. ControlInv'
  BY <1>1, <1>2, <1>4 DEF GraphInv, ControlInv, Outcome, ListsOnce
<1>7. FaultInv(N, D, H, g)'
  BY <1>1, <1>2 DEF GraphInv, FaultInv
<1>8. StateInv(N, D, H, g)'
  <2>1. PICK T, C : PrunedInv(T, C, N, D, H, g)
    BY <1>2 DEF GraphInv, StateInv
  <2>2. PrunedInv(T, C, N, D, H, g)'
    BY <1>1, <2>1 DEF PrunedInv, MarkedInv, HasChange, Under, Kept
  <2>3. /\ changed_dp' \subseteq DOMAIN build_state'
        /\ \A t \in DOMAIN build_state' : build_state'[t] \in {"READY", "DONE"}
        /\ pc' \notin {"target", "md5", "graph", "mark", "clean"}
        /\ outcome' # "nothing new"
    BY <1>1, <1>2 DEF GraphInv, StateInv
  <2> QED BY <1>2, <2>2, <2>3 DEF StateInv
<1> QED BY <1>5, <1>6, <1>7, <1>8 DEF GraphInv

-----------------------------------------------------------------------------
(* The theorems *)

(* The invariant is about the values of the variables.                     *)
LEMMA GraphStays ==
  ASSUME NEW N, NEW D, NEW H, NEW g, GraphInv(N, D, H, g), UNCHANGED vars
  PROVE  GraphInv(N, D, H, g)'
<1>1. FileIs(N, D, H, g)'
  BY FileKept DEF GraphInv, vars
<1>2. ControlInv' /\ FaultInv(N, D, H, g)'
  BY DEF GraphInv, ControlInv, FaultInv, vars, ListsOnce
<1>3. StateInv(N, D, H, g)'
  <2>1. IsPruned' = IsPruned /\ (WholeInv(N, D, H, g) => WholeInv(N, D, H, g)')
    BY DEF IsPruned, WholeInv, Pending, NotStarted, vars
  <2>2. MarkedInv(tree, child_nodes, g) => MarkedInv(tree, child_nodes, g)'
    BY DEF MarkedInv, HasChange, Under, vars
  <2>3. HasChange(tree, <<>>)' <=> HasChange(tree, <<>>)
    BY DEF HasChange, Under, vars
  <2>4. ASSUME NEW T, NEW C, PrunedInv(T, C, N, D, H, g)
        PROVE  PrunedInv(T, C, N, D, H, g)'
    BY <2>4 DEF PrunedInv, MarkedInv, HasChange, Under, Kept, vars
  <2>5. UNCHANGED <<pc, outcome, changed_dp, build_state>>
    BY DEF vars
  <2> QED BY <2>1, <2>2, <2>3, <2>4, <2>5 DEF GraphInv, StateInv
<1> QED BY <1>1, <1>2, <1>3 DEF GraphInv

(* Every step keeps the invariant, for the values the run started with.    *)
LEMMA GraphNext ==
  ASSUME NEW N, NEW D, NEW H, NEW g, GraphInv(N, D, H, g), [Next]_vars
  PROVE  GraphInv(N, D, H, g)'
BY GraphStays, FindTargetKeeps, CalculateHashesKeeps, AddNodesKeeps,
   MarkTargetsKeeps, CleanupKeeps, CountThreadsKeeps DEF Next, Ended

(* The invariant of DepGraph                                               *)
LEMMA GraphAlways == Spec => [](\E N, D, H, g : GraphInv(N, D, H, g))
<1>1. (\E N, D, H, g : GraphInv(N, D, H, g)) /\ [Next]_vars
        => (\E N, D, H, g : GraphInv(N, D, H, g))'
  <2> SUFFICES ASSUME NEW N, NEW D, NEW H, NEW g, GraphInv(N, D, H, g), [Next]_vars
               PROVE  GraphInv(N, D, H, g)'
    OBVIOUS
  <2> QED BY GraphNext
<1> QED BY <1>1, GraphInit, PTL DEF Spec

(* Below, which the properties use, is what the proofs call BelowIn.       *)
LEMMA BelowIs ==
  ASSUME NEW N, NEW D, NEW H, NEW g, GraphInv(N, D, H, g)
  PROVE  /\ Name = N /\ Below = BelowIn(N, D, H, g)
         /\ \A a \in N : NeededBy(a) = Needs(N, D, H, g)[a]
<1>1. FileIs(N, D, H, g) /\ DOMAIN build_state \subseteq N
  BY AlwaysTree DEF GraphInv
<1>2. Name = N
  BY <1>1 DEF Name, FileIs
<1>3. ASSUME NEW a \in N PROVE NeededBy(a) = Needs(N, D, H, g)[a]
  <2>1. (a \in H <=> HasTarget(a)) /\ (a \in H => Dependencies(a) = D[a]) /\ in.goal = g
    BY <1>1, FileValues DEF FileIs
  <2> QED BY <2>1 DEF NeededBy, Expanded, Needs
<1>4. [a \in Name |-> NeededBy(a)] = Needs(N, D, H, g)
  <2>1. Needs(N, D, H, g) = [a \in N |-> Needs(N, D, H, g)[a]]
    BY DEF Needs
  <2> HIDE DEF Needs
  <2> QED BY <1>2, <1>3, <2>1
<1>5. Below = LeastClosed(Name, [a \in Name |-> NeededBy(a)])
  BY DEF Below, LeastClosed
<1>6. Below = BelowIn(N, D, H, g)
  BY ONLY <1>2, <1>4, <1>5 DEF BelowIn
<1> QED BY <1>2, <1>3, <1>6

(* Every variable of DepGraph keeps its type.                              *)
THEOREM GraphTypes == Spec => []TypeOK
<1>1. ASSUME NEW N, NEW D, NEW H, NEW g, GraphInv(N, D, H, g) PROVE TypeOK
  <2>1. TreeBase(tree, N, g) /\ DOMAIN child_nodes = DOMAIN tree
    BY <1>1, AlwaysTree
  <2>2. Name = N
    BY <1>1, BelowIs
  <2>3. ToSet(todo) \subseteq DOMAIN tree
    <3>1. CASE pc = "graph" \/ outcome \in {"cyclic", "invalid"}
      <4>1. ~IsPruned /\ Pending = ToSet(todo)
        BY <1>1, <3>1 DEF IsPruned, Pending, NotStarted, GraphInv, ControlInv
      <4> QED BY <1>1, <4>1 DEF GraphInv, StateInv, WholeInv, TreeShape
    <3>2. CASE ~(pc = "graph" \/ outcome \in {"cyclic", "invalid"})
      BY <1>1, <3>2 DEF GraphInv, ControlInv, ToSet
    <3> QED BY <3>1, <3>2
  <2> QED BY <1>1, <2>1, <2>2, <2>3 DEF TypeOK, GraphInv, ControlInv, StateInv, TreeBase
<1>2. (\E N, D, H, g : GraphInv(N, D, H, g)) => TypeOK
  BY <1>1
<1> QED BY <1>2, GraphAlways, PTL

(* The run goes on to mark the tree when the dependencies of the target    *)
(* are a happens-before relation, and stops with "cyclic" or "invalid"     *)
(* when they are not (file_check_cyclic_dependency); no node of the tree   *)
(* has the name of one above it.                                           *)
THEOREM OrdersOnly == Spec => []OnlyOrdersAreBuilt
<1>1. ASSUME NEW N, NEW D, NEW H, NEW g, GraphInv(N, D, H, g)
      PROVE  OnlyOrdersAreBuilt
  <2>1. Below = BelowIn(N, D, H, g) /\ Name = N /\ in.goal = g
    BY <1>1, BelowIs DEF GraphInv, FileIs
  <2>2. IsFile(N, D, H, g) /\ \A a \in N : a \in H <=> HasTarget(a)
    BY <1>1, FileIsFile, FileValues DEF GraphInv
  <2> DEFINE B == BelowIn(N, D, H, g)
             reached == {g} \cup B[g]
  <2>3. B \in [N -> SUBSET N] /\ g \in N /\ reached \subseteq N
    <3>1. Needs(N, D, H, g) \in [N -> SUBSET N] /\ g \in N
      BY <2>2, NeedsType DEF IsFile
    <3>2. B \in [N -> SUBSET N]
      BY ONLY <3>1, Closure DEF BelowIn
    <3> HIDE DEF B
    <3> QED BY <3>1, <3>2
  <2>4. ASSUME NEW a \in N PROVE IsFaulty(a) <=> a \notin Source \cup H \cup {g}
    BY <2>1, <2>2 DEF IsFaulty
  <2> HIDE DEF B
  <2>5. pc = "mark" => \A a \in reached : a \notin B[a] /\ ~IsFaulty(a)
    <3> SUFFICES ASSUME pc = "mark" PROVE \A a \in reached : a \notin B[a] /\ ~IsFaulty(a)
      OBVIOUS
    <3>1. outcome = "running" /\ todo = <<>>
      BY <1>1 DEF GraphInv, ControlInv
    <3>2. Pending = {} /\ ~IsPruned
      BY <3>1 DEF Pending, NotStarted, IsPruned, ToSet
    <3>3. TreeShape(tree, child_nodes, {}, N, D, H, g)
      BY <1>1, <3>2 DEF GraphInv, StateInv, WholeInv
    <3>4. \A a \in reached : a \notin B[a] /\ a \in Source \cup H \cup {g}
      BY <2>2, <3>3, CompleteIsOrder DEF B
    <3> QED BY <2>3, <2>4, <3>4
  <2>6. /\ outcome = "cyclic" => \E a \in reached : a \in B[a]
        /\ outcome = "invalid" => \E a \in reached : IsFaulty(a)
    BY <1>1, <2>3, <2>4 DEF GraphInv, FaultInv, B
  <2>7. \A n \in DOMAIN tree : \A k \in 0 .. Len(n) - 1 : tree[SubSeq(n, 1, k)] # tree[n]
    BY <1>1, AlwaysTree DEF TreeBase, Above
  <2> QED BY <2>1, <2>5, <2>6, <2>7 DEF OnlyOrdersAreBuilt, B
<1>2. (\E N, D, H, g : GraphInv(N, D, H, g)) => OnlyOrdersAreBuilt
  BY <1>1
<1> QED BY <1>2, GraphAlways, PTL

-----------------------------------------------------------------------------
(* What is left of the tree *)

(* A node with others below it has children, and is a target.              *)
LEMMA UpperNodes ==
  ASSUME NEW N, NEW D, NEW H, NEW g, NEW T, NEW C,
         TreeShape(T, C, {}, N, D, H, g), NEW m \in DOMAIN T, NEW n \in Above(m)
  PROVE  n \in DOMAIN T /\ C[n] # 0 /\ (n = <<>> \/ T[n] \notin Source)
<1>1. /\ m \in Path /\ n \in DOMAIN T /\ C[n] \in Nat
      /\ \A a \in Above(m) \cup {m} : a \in DOMAIN T
      /\ \A j \in Num : Append(n, j) \in DOMAIN T <=> j \in 1 .. C[n]
      /\ C[n] = IF n # <<>> /\ T[n] \in Source THEN 0 ELSE Len(D[T[n]])
  BY DEF TreeShape, TreeBase
<1>2. PICK j \in Num : Append(n, j) \in Above(m) \cup {m}
  BY <1>1, ChildBetween
<1>3. j \in 1 .. C[n]
  BY <1>1, <1>2
<1>4. C[n] # 0
  BY <1>1, <1>3
<1> QED BY <1>1, <1>4

(* A changed source is below a node when its name depends on one.          *)
LEMMA ChangeIsBelow ==
  ASSUME NEW N, NEW D, NEW H, NEW g, IsFile(N, D, H, g), NEW T, NEW C,
         TreeShape(T, C, {}, N, D, H, g), NEW n \in DOMAIN T
  PROVE  HasChange(T, n) <=> BelowIn(N, D, H, g)[T[n]] \cap in.changed # {}
<1>1. BelowIn(N, D, H, g)[T[n]] = {T[m] : m \in Under(T, n)}
  BY CompleteBelow
<1> QED BY ONLY <1>1 DEF HasChange

(* The names below the target, itself included, that a changed source is   *)
(* below; and those without dependencies that these need.                  *)
ToRebuild(B, g) == {t \in {g} \cup B[g] : B[t] \cap in.changed # {}}
Commands(B, E, H, g) == {c \in {g} \cup B[g] : /\ c \in H /\ E[c] = {}
                                               /\ \E t \in ToRebuild(B, g) : c \in E[t]}

(* The marked targets are those to rebuild, and their nodes stay.          *)
LEMMA MarksAre ==
  ASSUME NEW N, NEW D, NEW H, NEW g, IsFile(N, D, H, g), NEW T, NEW C,
         TreeShape(T, C, {}, N, D, H, g), MarkedInv(T, C, g)
  PROVE  /\ changed_dp = ToRebuild(BelowIn(N, D, H, g), g)
         /\ g \in changed_dp
         /\ \A n \in DOMAIN T : T[n] \in changed_dp =>
              HasChange(T, n) /\ n \in Kept(T, C, changed_dp)
<1> DEFINE B == BelowIn(N, D, H, g)
<1>1. /\ <<>> \in DOMAIN T /\ T[<<>>] = g /\ DOMAIN T \subseteq Path
      /\ \A n \in DOMAIN T : \A a \in Above(n) : a \in DOMAIN T
  BY DEF TreeShape, TreeBase
<1>2. changed_dp = {T[n] : n \in {m \in DOMAIN T : (m = <<>> \/ T[m] \notin Source)
                                                   /\ HasChange(T, m)}}
  BY DEF MarkedInv
<1>3. \A n \in DOMAIN T : HasChange(T, n) <=> B[T[n]] \cap in.changed # {}
  BY ChangeIsBelow
<1>4. {g} \cup B[g] = {T[n] : n \in DOMAIN T}
  <2>1. B[g] = {T[m] : m \in Under(T, <<>>)}
    BY <1>1, CompleteBelow
  <2>2. \A n \in DOMAIN T : n # <<>> => n \in Under(T, <<>>)
    BY <1>1, RootAbove DEF Under
  <2> HIDE DEF B
  <2> QED BY ONLY <1>1, <2>1, <2>2 DEF Under
<1>5. ASSUME NEW n \in DOMAIN T, HasChange(T, n) PROVE n = <<>> \/ T[n] \notin Source
  <2>1. PICK m \in DOMAIN T : n \in Above(m)
    BY <1>5 DEF HasChange, Under
  <2> QED BY <2>1, UpperNodes
<1>6. changed_dp = ToRebuild(B, g)
  <2> HIDE DEF B
  <2>1. \A n \in DOMAIN T : (n = <<>> \/ T[n] \notin Source) /\ HasChange(T, n)
                              <=> B[T[n]] \cap in.changed # {}
    BY <1>3, <1>5
  <2> QED BY ONLY <1>2, <1>4, <2>1 DEF ToRebuild
<1>7. g \in changed_dp
  BY <1>1, <1>2 DEF MarkedInv
<1>8. ASSUME NEW n \in DOMAIN T, T[n] \in changed_dp
      PROVE  HasChange(T, n) /\ n \in Kept(T, C, changed_dp)
  <2>1. HasChange(T, n)
    BY <1>3, <1>6, <1>8 DEF ToRebuild
  <2>2. PICK m \in DOMAIN T : n \in Above(m) /\ T[m] \in in.changed
    BY <2>1 DEF HasChange, Under
  <2>3. ASSUME NEW a \in Above(n) PROVE a \in DOMAIN T /\ HasChange(T, a)
    <3>1. a \in Above(m)
      BY <1>1, <2>2, AboveTransitive
    <3> QED BY <1>1, <2>2, <3>1 DEF HasChange, Under
  <2>4. \A a \in Above(n) \cup {n} : a \in DOMAIN T /\ HasChange(T, a)
    BY <2>1, <2>3
  <2>5. \A a \in Above(n) \cup {n} : (a = <<>> \/ T[a] \notin Source) /\ T[a] \in changed_dp
    BY <1>2, <1>5, <2>4
  <2> QED BY <2>1, <2>5 DEF Kept
<1> QED BY <1>6, <1>7, <1>8

(* The names of the nodes that are left                                    *)
LEMMA KeptNames ==
  ASSUME NEW N, NEW D, NEW H, NEW g, IsFile(N, D, H, g), NEW T, NEW C,
         TreeShape(T, C, {}, N, D, H, g), MarkedInv(T, C, g),
         NEW B, B = BelowIn(N, D, H, g), NEW E, E = Needs(N, D, H, g)
  PROVE  {T[n] : n \in Kept(T, C, changed_dp)}
           = ToRebuild(B, g) \cup (Commands(B, E, H, g) \ Source)
<1> DEFINE K == Kept(T, C, changed_dp)
<1>1. /\ <<>> \in DOMAIN T /\ T[<<>>] = g /\ DOMAIN T \subseteq Path
      /\ \A n \in DOMAIN T : C[n] \in Nat
      /\ \A n \in DOMAIN T \ {<<>>} : T[n] \in Source \cup H /\ Front(n) \in DOMAIN T
      /\ \A n \in DOMAIN T, j \in Num : Append(n, j) \in DOMAIN T <=> j \in 1 .. C[n]
  BY DEF TreeShape, TreeBase
<1>2. /\ changed_dp = ToRebuild(B, g) /\ g \in changed_dp
      /\ \A n \in DOMAIN T : T[n] \in changed_dp => n \in K
  BY MarksAre
<1>3. \A n \in DOMAIN T : E[T[n]] = {T[Append(n, j)] : j \in 1 .. C[n]}
  BY ChildNames
<1>4. {g} \cup B[g] = {T[n] : n \in DOMAIN T}
  <2>1. B[g] = {T[m] : m \in Under(T, <<>>)}
    BY <1>1, CompleteBelow
  <2>2. \A n \in DOMAIN T : n # <<>> => n \in Under(T, <<>>)
    BY <1>1, RootAbove DEF Under
  <2> QED BY ONLY <1>1, <2>1, <2>2 DEF Under
<1>5. ASSUME NEW n \in K PROVE T[n] \in ToRebuild(B, g) \cup (Commands(B, E, H, g) \ Source)
  <2>1. n \in DOMAIN T /\ \A a \in Above(n) \cup {n} :
          a = <<>> \/ (T[a] \notin Source /\ (T[a] \in changed_dp \/ C[a] = 0))
    BY DEF Kept
  <2>2. CASE T[n] \in changed_dp
    BY <1>2, <2>2
  <2>3. CASE T[n] \notin changed_dp
    <3>1. n # <<>> /\ T[n] \notin Source /\ C[n] = 0 /\ T[n] \in H
      BY <1>1, <1>2, <2>1, <2>3
    <3> DEFINE p == Front(n)
    <3>2. p \in Above(n) /\ p \in DOMAIN T /\ n = Append(p, Last(n)) /\ Last(n) \in Num
      BY <1>1, <2>1, <3>1, PathAbove, PathFront
    <3> HIDE DEF p, K
    <3>3. C[p] # 0
      BY <2>1, <3>2, UpperNodes
    <3>4. T[p] \in changed_dp
      BY <1>1, <1>2, <2>1, <3>2, <3>3
    <3>5. Last(n) \in 1 .. C[p]
      BY <1>1, <2>1, <3>2
    <3>6. T[n] \in E[T[p]]
      <4>1. T[Append(p, Last(n))] \in {T[Append(p, j)] : j \in 1 .. C[p]}
        BY ONLY <3>5
      <4>2. T[Append(p, Last(n))] = T[n]
        BY ONLY <3>2
      <4> QED BY ONLY <1>3, <3>2, <4>1, <4>2
    <3>7. E[T[n]] = {}
      <4>1. 1 .. C[n] = {}
        BY <3>1
      <4> QED BY <1>3, <2>1, <4>1
    <3>8. T[n] \in {g} \cup B[g]
      BY ONLY <1>4, <2>1
    <3> QED BY ONLY <1>2, <3>1, <3>4, <3>6, <3>7, <3>8 DEF Commands
  <2> QED BY <2>2, <2>3
<1>6. ASSUME NEW t \in ToRebuild(B, g)
      PROVE  \E n \in K : t = T[n] /\ n \in DOMAIN T
  <2>1. t \in {g} \cup B[g] /\ t \in changed_dp
    BY <1>2 DEF ToRebuild
  <2>2. PICK n \in DOMAIN T : t = T[n]
    BY ONLY <1>4, <2>1
  <2> HIDE DEF K
  <2> QED BY <1>2, <2>1, <2>2
<1>7. ASSUME NEW c \in Commands(B, E, H, g) \ Source PROVE \E n \in K : c = T[n]
  <2>1. PICK t \in ToRebuild(B, g) : c \in E[t] /\ E[c] = {} /\ c \notin Source
    BY DEF Commands
  <2>2. PICK m \in K : t = T[m] /\ m \in DOMAIN T
    BY <1>6
  <2>3. PICK j \in 1 .. C[m] : c = T[Append(m, j)]
    BY <1>3, <2>1, <2>2
  <2> DEFINE k == Append(m, j)
  <2>4. k \in DOMAIN T /\ Above(k) = Above(m) \cup {m}
    BY <2>2, ChildPlace
  <2>5. C[k] = 0
    <3> HIDE DEF k
    <3>1. {T[Append(k, i)] : i \in 1 .. C[k]} = {} /\ C[k] \in Nat
      BY <1>1, <1>3, <2>1, <2>3, <2>4 DEF k
    <3>2. 1 \notin 1 .. C[k]
      BY ONLY <3>1
    <3> QED BY ONLY <3>1, <3>2
  <2>6. k \in K
    <3>1. T[k] \notin Source
      BY <2>1, <2>3
    <3>2. \A a \in Above(m) \cup {m} :
            a = <<>> \/ (T[a] \notin Source /\ (T[a] \in changed_dp \/ C[a] = 0))
      BY DEF Kept
    <3> HIDE DEF k
    <3> QED BY ONLY <2>4, <2>5, <3>1, <3>2 DEF Kept
  <2> HIDE DEF K
  <2> QED BY <2>3, <2>6
<1> HIDE DEF K
<1>8. {T[n] : n \in K} = ToRebuild(B, g) \cup (Commands(B, E, H, g) \ Source)
  BY ONLY <1>5, <1>6, <1>7
<1> QED BY <1>8 DEF K

(* Everything that a changed source leads to is built again, and nothing   *)
(* else but the commands next to it (file_mark_all_targets_for_build,      *)
(* file_cleanup_nodes_for_unchanged_files).                                *)
THEOREM RebuildsDependents == Spec => []RebuildsWhatDepends
<1>1. ASSUME NEW N, NEW D, NEW H, NEW g, GraphInv(N, D, H, g)
      PROVE  RebuildsWhatDepends
  <2> DEFINE B == BelowIn(N, D, H, g)
             E == Needs(N, D, H, g)
  <2>1. /\ Below = B /\ in.goal = g /\ IsFile(N, D, H, g)
        /\ \A a \in N : NeededBy(a) = E[a] /\ (HasTarget(a) <=> a \in H)
    <3>1. FileIs(N, D, H, g) /\ IsFile(N, D, H, g) /\ in.goal = g
      BY <1>1, FileIsFile DEF GraphInv, FileIs
    <3>2. \A a \in N : a \in H <=> HasTarget(a)
      BY <3>1, FileValues
    <3>3. Below = B /\ \A a \in N : NeededBy(a) = E[a]
      <4> HIDE DEF B, E
      <4>1. Below = BelowIn(N, D, H, g) /\ \A a \in N : NeededBy(a) = Needs(N, D, H, g)[a]
        BY <1>1, BelowIs
      <4> QED BY ONLY <4>1 DEF B, E
    <3> HIDE DEF B, E
    <3> QED BY <3>1, <3>2, <3>3
  <2>2. /\ E \in [N -> SUBSET N] /\ B = LeastClosed(N, E) /\ g \in N
    BY <2>1, NeedsType DEF IsFile, BelowIn
  <2> HIDE DEF B, E
  <2>3. B \in [N -> SUBSET N] /\ \A a \in N : \A b \in B[a] : B[b] \subseteq B[a]
    BY ONLY <2>2, Closure
  <2>4. ASSUME outcome = "nothing new" PROVE ToRebuild(B, g) = {}
    <3>1. todo = <<>> /\ ~HasChange(tree, <<>>)
      BY <1>1, <2>4 DEF GraphInv, ControlInv, StateInv
    <3>2. Pending = {} /\ ~IsPruned
      <4>1. pc = "end"
        BY <1>1, <2>4 DEF GraphInv, ControlInv
      <4>2. ToSet(todo) = {}
        BY ONLY <3>1 DEF ToSet
      <4> QED BY <2>4, <4>1, <4>2 DEF Pending, NotStarted, IsPruned
    <3>3. TreeShape(tree, child_nodes, {}, N, D, H, g)
      BY <1>1, <3>2 DEF GraphInv, StateInv, WholeInv
    <3>4. <<>> \in DOMAIN tree /\ tree[<<>>] = g
      BY <3>3 DEF TreeShape, TreeBase
    <3>5. B[g] \cap in.changed = {}
      BY <2>1, <3>1, <3>3, <3>4, ChangeIsBelow DEF B
    <3> QED BY <2>2, <2>3, <3>5 DEF ToRebuild
  <2>5. ASSUME outcome = "scheduled"
        PROVE  {tree[n] : n \in DOMAIN tree}
                 = ToRebuild(B, g) \cup (Commands(B, E, H, g) \ Source)
    <3>1. PICK T, C : PrunedInv(T, C, N, D, H, g)
      BY <1>1, <2>5 DEF GraphInv, StateInv, IsPruned
    <3>2. TreeShape(T, C, {}, N, D, H, g) /\ MarkedInv(T, C, g)
          /\ tree = [n \in Kept(T, C, changed_dp) |-> T[n]]
      BY <3>1 DEF PrunedInv
    <3>3. {T[n] : n \in Kept(T, C, changed_dp)}
            = ToRebuild(B, g) \cup (Commands(B, E, H, g) \ Source)
      BY ONLY <2>1, <3>2, KeptNames DEF B, E
    <3>4. {tree[n] : n \in DOMAIN tree} = {T[n] : n \in Kept(T, C, changed_dp)}
      BY ONLY <3>2
    <3> QED BY <3>3, <3>4
  <2> DEFINE below == Below
             reached == {in.goal} \cup below[in.goal]
             toRebuild == {t \in reached : below[t] \cap in.changed # {}}
             commands == {c \in reached : HasTarget(c) /\ NeededBy(c) = {}
                                      /\ \E t \in toRebuild : c \in NeededBy(t)}
  <2>6. reached = {g} \cup B[g] /\ reached \subseteq N
    BY <2>1, <2>2, <2>3
  <2>7. toRebuild = ToRebuild(B, g)
    BY <2>1, <2>6 DEF ToRebuild
  <2>8. commands = Commands(B, E, H, g)
    <3>1. toRebuild \subseteq N
      BY <2>6
    <3> HIDE DEF toRebuild, reached
    <3>2. \A c \in reached : (HasTarget(c) /\ NeededBy(c) = {}
                                /\ \E t \in toRebuild : c \in NeededBy(t))
            <=> (c \in H /\ E[c] = {} /\ \E t \in ToRebuild(B, g) : c \in E[t])
      BY ONLY <2>1, <2>6, <2>7, <3>1
    <3> QED BY ONLY <2>6, <3>2 DEF Commands
  <2>9. outcome \in {"nothing new", "scheduled"} =>
          IF outcome = "nothing new" THEN toRebuild = {}
          ELSE {tree[n] : n \in DOMAIN tree} = toRebuild \cup (commands \ Source)
    <3> HIDE DEF toRebuild, commands
    <3> QED BY <2>4, <2>5, <2>7, <2>8
  <2> QED BY <2>9 DEF RebuildsWhatDepends
<1>2. (\E N, D, H, g : GraphInv(N, D, H, g)) => RebuildsWhatDepends
  BY <1>1
<1> QED BY <1>2, GraphAlways, PTL

-----------------------------------------------------------------------------
(* The order of the leaves *)

(* Paths neither of which is above the other are ordered.                  *)
LEMMA OneIsBefore ==
  ASSUME NEW m \in Path, NEW n \in Path, m # n, m \notin Above(n), n \notin Above(m)
  PROVE  IsBefore(m, n) \/ IsBefore(n, m)
<1> DEFINE X == {k \in DOMAIN m \cap DOMAIN n : m[k] # n[k]}
<1>1. /\ DOMAIN m = 1 .. Len(m) /\ Len(m) \in Nat /\ \A i \in DOMAIN m : m[i] \in Nat
      /\ DOMAIN n = 1 .. Len(n) /\ Len(n) \in Nat /\ \A i \in DOMAIN n : n[i] \in Nat
  BY SeqValues DEF Path, Num
<1>2. X # {}
  <2> SUFFICES ASSUME X = {} PROVE FALSE
    OBVIOUS
  <2>1. CASE Len(m) <= Len(n)
    <3>1. \A i \in 1 .. Len(m) : m[i] = n[i]
      BY <1>1, <2>1
    <3> QED BY <2>1, <3>1, StartsWith
  <2>2. CASE Len(n) <= Len(m)
    <3>1. \A i \in 1 .. Len(n) : n[i] = m[i]
      BY <1>1, <2>2
    <3> QED BY <2>2, <3>1, StartsWith
  <2> QED BY ONLY <1>1, <2>1, <2>2
<1>3. X \in SUBSET Nat
  BY <1>1
<1>4. PICK k \in X : \A y \in X : k <= y
  <2> HIDE DEF X
  <2> QED BY ONLY <1>2, <1>3, LeastNumber
<1>5. k \in DOMAIN m \cap DOMAIN n /\ m[k] # n[k] /\ k \in Nat
  BY <1>3
<1>6. \A l \in 1 .. k - 1 : m[l] = n[l] /\ n[l] = m[l]
  <2> SUFFICES ASSUME NEW l \in 1 .. k - 1, m[l] # n[l] PROVE FALSE
    OBVIOUS
  <2>1. l \in DOMAIN m \cap DOMAIN n /\ ~(k <= l)
    BY ONLY <1>1, <1>5, l \in 1 .. k - 1
  <2> QED BY <1>4, <2>1
<1>7. m[k] < n[k] \/ n[k] < m[k]
  <2>1. m[k] \in Nat /\ n[k] \in Nat
    BY <1>1, <1>5
  <2> QED BY ONLY <1>5, <2>1
<1> QED BY ONLY <1>5, <1>6, <1>7 DEF IsBefore

(* No path is before itself, and the order of paths is transitive.         *)
LEMMA BeforeIsOrder ==
  ASSUME NEW m \in Path, NEW n \in Path, NEW p \in Path
  PROVE  /\ ~IsBefore(n, n)
         /\ IsBefore(m, n) /\ IsBefore(n, p) => IsBefore(m, p)
<1>1. /\ DOMAIN m = 1 .. Len(m) /\ Len(m) \in Nat /\ \A i \in DOMAIN m : m[i] \in Nat
      /\ DOMAIN n = 1 .. Len(n) /\ Len(n) \in Nat /\ \A i \in DOMAIN n : n[i] \in Nat
      /\ DOMAIN p = 1 .. Len(p) /\ Len(p) \in Nat /\ \A i \in DOMAIN p : p[i] \in Nat
  BY SeqValues DEF Path, Num
<1>2. ~IsBefore(n, n)
  <2> SUFFICES ASSUME NEW k \in DOMAIN n, n[k] < n[k] PROVE FALSE
    BY DEF IsBefore
  <2>1. n[k] \in Nat
    BY <1>1
  <2> QED BY ONLY <2>1, n[k] < n[k]
<1>3. ASSUME IsBefore(m, n), IsBefore(n, p) PROVE IsBefore(m, p)
  <2>1. PICK k \in DOMAIN m \cap DOMAIN n :
          m[k] < n[k] /\ \A l \in 1 .. k - 1 : m[l] = n[l]
    BY <1>3 DEF IsBefore
  <2>2. PICK j \in DOMAIN n \cap DOMAIN p :
          n[j] < p[j] /\ \A l \in 1 .. j - 1 : n[l] = p[l]
    BY <1>3 DEF IsBefore
  <2>3. k \in Nat \ {0} /\ j \in Nat \ {0} /\ k <= Len(m) /\ k <= Len(n)
        /\ j <= Len(n) /\ j <= Len(p)
        /\ m[k] \in Nat /\ n[k] \in Nat /\ n[j] \in Nat /\ p[j] \in Nat
    BY <1>1
  <2>4. CASE k < j
    <3>1. k \in DOMAIN m \cap DOMAIN p
      BY ONLY <1>1, <2>3, <2>4
    <3>2. n[k] = p[k] /\ \A l \in 1 .. k - 1 : n[l] = p[l]
      BY ONLY <2>2, <2>3, <2>4
    <3>3. m[k] < p[k] /\ \A l \in 1 .. k - 1 : m[l] = p[l]
      BY ONLY <2>1, <3>2
    <3> QED BY ONLY <3>1, <3>3 DEF IsBefore
  <2>5. CASE j < k
    <3>1. j \in DOMAIN m \cap DOMAIN p
      BY ONLY <1>1, <2>3, <2>5
    <3>2. m[j] = n[j] /\ \A l \in 1 .. j - 1 : m[l] = n[l]
      BY ONLY <2>1, <2>3, <2>5
    <3>3. m[j] < p[j] /\ \A l \in 1 .. j - 1 : m[l] = p[l]
      BY ONLY <2>2, <3>2
    <3> QED BY ONLY <3>1, <3>3 DEF IsBefore
  <2>6. CASE j = k
    <3>1. m[k] < p[k]
      BY ONLY <2>1, <2>2, <2>3, <2>6, m[k] < n[k], n[j] < p[j]
    <3>2. \A l \in 1 .. k - 1 : m[l] = p[l]
      BY ONLY <2>1, <2>2, <2>6
    <3> QED BY ONLY <2>1, <2>2, <2>6, <3>1, <3>2 DEF IsBefore
  <2> QED BY ONLY <2>3, <2>4, <2>5, <2>6
<1> QED BY <1>2, <1>3

(* A finite set of paths none of which is above another is listed by the   *)
(* number of paths before each: every one once.                            *)
LEMMA ListedInOrder ==
  ASSUME NEW L \in SUBSET Path, IsFiniteSet(L), \A m, n \in L : m \notin Above(n),
         NEW q, q = [j \in 1 .. Cardinality(L) |->
                       CHOOSE n \in L : Cardinality({m \in L : IsBefore(m, n)}) = j - 1]
  PROVE  /\ q \in Seq(L) /\ Len(q) = Cardinality(L)
         /\ {q[j] : j \in DOMAIN q} = L
         /\ ListsOnce(q)
<1> DEFINE c == Cardinality(L)
           R == {p \in L \X L : IsBefore(p[1], p[2])}
<1>1. \A m, n \in L : <<m, n>> \in R <=> IsBefore(m, n)
  OBVIOUS
<1> HIDE DEF R
<1>2. IsOrder(R, L)
  <2>1. \A x, y \in L : x # y => IsBefore(x, y) \/ IsBefore(y, x)
    BY OneIsBefore
  <2>2. \A x, y, z \in L : /\ ~IsBefore(x, x)
                           /\ IsBefore(x, y) /\ IsBefore(y, z) => IsBefore(x, z)
    BY BeforeIsOrder
  <2> QED BY ONLY <1>1, <2>1, <2>2 DEF IsOrder
<1>3. /\ c \in Nat
      /\ \A j \in 1 .. c : Ranked(R, L, j) \in L
      /\ \A x \in L : \E j \in 1 .. c : Ranked(R, L, j) = x
      /\ \A j, k \in 1 .. c : Ranked(R, L, j) = Ranked(R, L, k) => j = k
  BY <1>2, RankedOnce
<1>4. q = [j \in 1 .. c |-> Ranked(R, L, j)]
  <2>1. \A n \in L : {m \in L : IsBefore(m, n)} = {m \in L : <<m, n>> \in R}
    BY ONLY <1>1
  <2> DEFINE F(j) == CHOOSE n \in L : Cardinality({m \in L : IsBefore(m, n)}) = j - 1
  <2>2. \A j : Ranked(R, L, j) = F(j)
    BY ONLY <2>1 DEF Ranked
  <2>3. q = [j \in 1 .. c |-> F(j)]
    OBVIOUS
  <2> HIDE DEF F, c
  <2> QED BY ONLY <2>2, <2>3
<1> HIDE DEF c
<1>5. PICK V : V = 1 .. c
  OBVIOUS
<1>6. /\ DOMAIN q = V /\ q \in [V -> L]
      /\ \A x \in L : \E j \in V : q[j] = x
      /\ \A j, k \in V : q[j] = q[k] => j = k
  BY ONLY <1>3, <1>4, <1>5
<1>7. q \in Seq(L) /\ Len(q) = c
  BY ONLY <1>3, <1>5, <1>6, LenProperties, SeqDef
<1>8. {q[j] : j \in DOMAIN q} = L /\ ListsOnce(q)
  BY ONLY <1>6 DEF ListsOnce
<1> QED BY <1>7, <1>8 DEF c

-----------------------------------------------------------------------------
(* What is left can be scheduled. *)

KeptBelow(n) == {c \in DOMAIN tree \ {<<>>} : Front(c) = n}

(* The children that are left of a node depend on its name only.           *)
LEMMA KeptChildren ==
  ASSUME NEW N, NEW D, NEW H, NEW g, IsFile(N, D, H, g), NEW T, NEW C,
         PrunedInv(T, C, N, D, H, g), NEW E, E = Needs(N, D, H, g),
         NEW n \in DOMAIN tree
  PROVE  {tree[c] : c \in KeptBelow(n)}
           = {x \in E[tree[n]] \ Source : x \in changed_dp \/ E[x] = {}}
<1> DEFINE K == Kept(T, C, changed_dp)
<1>1. TreeShape(T, C, {}, N, D, H, g) /\ tree = [m \in K |-> T[m]]
  BY DEF PrunedInv
<1>2. /\ DOMAIN tree = K /\ K \subseteq DOMAIN T /\ DOMAIN T \subseteq Path
      /\ \A m \in K : tree[m] = T[m]
      /\ \A m \in DOMAIN T : C[m] \in Nat
      /\ \A m \in DOMAIN T, j \in Num : Append(m, j) \in DOMAIN T <=> j \in 1 .. C[m]
      /\ \A m \in K : Above(m) \subseteq K
  <2>1. /\ DOMAIN tree = K /\ K \subseteq DOMAIN T /\ \A m \in K : tree[m] = T[m]
    BY <1>1 DEF Kept
  <2>2. \A m \in DOMAIN tree : \A a \in Above(m) : a \in DOMAIN tree
    BY KeptIsTree DEF TreeBase
  <2>3. /\ DOMAIN T \subseteq Path /\ \A m \in DOMAIN T : C[m] \in Nat
        /\ \A m \in DOMAIN T, j \in Num : Append(m, j) \in DOMAIN T <=> j \in 1 .. C[m]
    BY <1>1 DEF TreeShape, TreeBase
  <2> HIDE DEF K
  <2> QED BY <2>1, <2>2, <2>3
<1>3. \A m \in DOMAIN T : E[T[m]] = {T[Append(m, j)] : j \in 1 .. C[m]}
  BY <1>1, ChildNames
<1>4. ASSUME NEW m \in DOMAIN T PROVE C[m] = 0 <=> E[T[m]] = {}
  <2>1. C[m] \in Nat /\ E[T[m]] = {T[Append(m, j)] : j \in 1 .. C[m]}
    BY <1>2, <1>3
  <2>2. C[m] = 0 <=> 1 .. C[m] = {}
    <3>1. C[m] # 0 => 1 \in 1 .. C[m]
      BY ONLY <2>1
    <3> QED BY <2>1, <3>1
  <2> QED BY ONLY <2>1, <2>2
<1>5. ASSUME NEW c \in KeptBelow(n)
      PROVE  tree[c] \in E[tree[n]] \ Source /\ (tree[c] \in changed_dp \/ E[tree[c]] = {})
  <2>1. c \in K /\ c \in Path /\ c # <<>> /\ Front(c) = n
    BY <1>2 DEF KeptBelow
  <2>2. T[c] \notin Source /\ (T[c] \in changed_dp \/ C[c] = 0)
    BY <2>1 DEF Kept
  <2>3. c = Append(n, Last(c)) /\ Last(c) \in Num
    BY <2>1, PathFront
  <2> HIDE DEF K
  <2>4. Last(c) \in 1 .. C[n]
    BY <1>2, <2>1, <2>3
  <2>5. T[c] \in E[T[n]]
    <3>1. T[Append(n, Last(c))] \in {T[Append(n, j)] : j \in 1 .. C[n]}
      BY ONLY <2>4
    <3> QED BY <1>2, <1>3, <2>3, <3>1
  <2> QED BY <1>2, <1>4, <2>1, <2>2, <2>5
<1>6. ASSUME NEW x \in E[tree[n]] \ Source, x \in changed_dp \/ E[x] = {}
      PROVE  \E c \in KeptBelow(n) : x = tree[c]
  <2>1. n \in K /\ n \in DOMAIN T /\ tree[n] = T[n] /\ C[n] \in Nat
    <3> HIDE DEF K
    <3> QED BY <1>2
  <2>2. PICK j \in 1 .. C[n] : x = T[Append(n, j)]
    BY <1>3, <2>1
  <2> DEFINE c == Append(n, j)
  <2>3. c \in DOMAIN T /\ c # <<>> /\ Front(c) = n /\ Above(c) = Above(n) \cup {n}
    BY <1>1, <2>1, ChildPlace
  <2>4. T[c] \notin Source /\ (T[c] \in changed_dp \/ C[c] = 0)
    <3>1. T[c] = x
      BY <2>2
    <3> HIDE DEF c
    <3> QED BY <1>4, <1>6, <2>3, <3>1
  <2>5. \A a \in Above(n) \cup {n} :
          a = <<>> \/ (T[a] \notin Source /\ (T[a] \in changed_dp \/ C[a] = 0))
    BY <2>1 DEF Kept
  <2>6. c \in K
    <3> HIDE DEF c
    <3> QED BY ONLY <2>3, <2>4, <2>5 DEF Kept
  <2>7. T[c] = x
    BY <2>2
  <2> HIDE DEF c, K
  <2> QED BY <1>2, <2>3, <2>6, <2>7 DEF KeptBelow
<1> QED BY <1>5, <1>6

(* Leaves of a tree are not above each other, and there is one.            *)
LEMMA LeavesApart ==
  ASSUME NEW N, NEW g, TreeBase(tree, N, g), NEW L,
         L = {n \in DOMAIN tree : KeptBelow(n) = {}}
  PROVE  /\ L \in SUBSET Path /\ IsFiniteSet(L) /\ L # {}
         /\ \A m, n \in L : m \notin Above(n)
<1>1. /\ IsFiniteSet(DOMAIN tree) /\ DOMAIN tree \subseteq Path /\ <<>> \in DOMAIN tree
      /\ \A n \in DOMAIN tree : \A a \in Above(n) : a \in DOMAIN tree
  BY DEF TreeBase
<1>2. L \in SUBSET Path /\ IsFiniteSet(L)
  BY <1>1, FS_Subset
<1>3. L # {}
  <2>1. PICK n \in DOMAIN tree : \A m \in DOMAIN tree : Len(m) <= Len(n)
    BY <1>1, LongestPath
  <2>2. ASSUME NEW c \in KeptBelow(n) PROVE FALSE
    <3>1. c \in DOMAIN tree /\ c \in Path /\ c # <<>> /\ Front(c) = n
      BY <1>1 DEF KeptBelow
    <3>2. Len(n) = Len(c) - 1 /\ Len(c) \in Nat /\ Len(c) <= Len(n)
      BY <2>1, <3>1, PathFront DEF Path
    <3> QED BY ONLY <3>2
  <2> QED BY <2>2
<1>4. ASSUME NEW m \in L, NEW n \in L, m \in Above(n) PROVE FALSE
  <2>1. n \in DOMAIN tree /\ n \in Path /\ m \in DOMAIN tree /\ m \in Path
    BY <1>1
  <2>2. PICK j \in Num : Append(m, j) \in Above(n) \cup {n}
    BY <1>4, <2>1, ChildBetween
  <2>3. Append(m, j) \in DOMAIN tree
    BY <1>1, <2>1, <2>2
  <2>4. Append(m, j) \in KeptBelow(m)
    BY <2>1, <2>3, PathAppend DEF KeptBelow
  <2> QED BY <2>4
<1> QED BY <1>2, <1>3, <1>4

(* The tree handed to the build threads is one that Scheduler can run.     *)
THEOREM ReadyToSchedule == Spec => []IsReadyToSchedule
<1>1. ASSUME NEW N, NEW D, NEW H, NEW g, GraphInv(N, D, H, g), outcome = "scheduled"
      PROVE  /\ Left!IsTree /\ Left!IsShared /\ Left!ListsLeaves
             /\ \A n \in DOMAIN tree :
                  /\ build_state[tree[n]] = "READY"
                  /\ child_nodes[n] = Cardinality(Left!Child(n))
  <2>1. PICK T, C : PrunedInv(T, C, N, D, H, g)
    BY <1>1 DEF GraphInv, StateInv, IsPruned
  <2>2. /\ TreeShape(T, C, {}, N, D, H, g) /\ MarkedInv(T, C, g)
        /\ DOMAIN build_state = TargetsOf(T, g)
        /\ tree = [n \in Kept(T, C, changed_dp) |-> T[n]]
        /\ child_nodes = [n \in DOMAIN tree |->
                            Cardinality({c \in DOMAIN tree : c # <<>> /\ Front(c) = n})]
    BY <2>1 DEF PrunedInv
  <2>3. IsFile(N, D, H, g)
    BY <1>1, FileIsFile DEF GraphInv
  <2>4. /\ TreeBase(tree, N, g) /\ DOMAIN tree \subseteq DOMAIN T
        /\ \A n \in DOMAIN tree : tree[n] = T[n]
    BY <2>1, KeptIsTree
  <2>5. /\ IsFiniteSet(DOMAIN tree) /\ DOMAIN tree \subseteq Path /\ <<>> \in DOMAIN tree
        /\ tree \in [DOMAIN tree -> N] /\ tree[<<>>] = g
        /\ \A n \in DOMAIN tree \ {<<>>} : Front(n) \in DOMAIN tree
        /\ \A n \in DOMAIN tree : \A a \in Above(n) : a \in DOMAIN tree /\ tree[a] # tree[n]
    BY <2>4 DEF TreeBase
  <2>6. ASSUME NEW n \in DOMAIN tree PROVE Left!Child(n) = KeptBelow(n)
    BY DEF Left!Child, KeptBelow
  <2>7. ASSUME NEW n \in DOMAIN tree
        PROVE  /\ child_nodes[n] = Cardinality(Left!Child(n))
               /\ child_nodes[n] = 0 <=> KeptBelow(n) = {}
    <3>1. child_nodes[n] = Cardinality({c \in DOMAIN tree : c # <<>> /\ Front(c) = n})
      BY <2>2
    <3>2. {c \in DOMAIN tree : c # <<>> /\ Front(c) = n} = KeptBelow(n)
      BY DEF KeptBelow
    <3>3. KeptBelow(n) \in SUBSET (DOMAIN tree)
      BY DEF KeptBelow
    <3>4. IsFiniteSet(KeptBelow(n))
      BY ONLY <2>5, <3>3, FS_Subset
    <3>5. Cardinality(KeptBelow(n)) = 0 <=> KeptBelow(n) = {}
      BY ONLY <3>4, FS_EmptySet
    <3> QED BY ONLY <2>6, <3>1, <3>2, <3>5, n \in DOMAIN tree
  <2>8. ASSUME NEW n \in DOMAIN tree PROVE build_state[tree[n]] = "READY"
    <3>1. n \in DOMAIN T /\ tree[n] = T[n] /\ T[<<>>] = g /\ n \in Kept(T, C, changed_dp)
      BY <2>2, <2>4, <2>5
    <3>2. n = <<>> \/ (T[n] \notin Source /\ (T[n] \in changed_dp \/ C[n] = 0))
      BY <3>1 DEF Kept
    <3>3. T[n] \in DOMAIN build_state
      BY <2>2, <3>1, <3>2 DEF TargetsOf
    <3>4. T[n] \in changed_dp \/ C[n] = 0
      <4>1. g \in changed_dp
        BY <2>2, <2>3, MarksAre
      <4> QED BY <3>1, <3>2, <4>1
    <3> QED BY <2>2, <3>1, <3>3, <3>4 DEF MarkedInv
  <2>9. Left!IsTree
    <3>1. [n \in DOMAIN tree \ {<<>>} |-> Front(n)] \in [DOMAIN tree \ {<<>>} -> DOMAIN tree]
      BY <2>5
    <3>2. ASSUME NEW S \in SUBSET DOMAIN tree, <<>> \in S,
                 \A n \in S : Left!Child(n) \subseteq S
          PROVE  S = DOMAIN tree
      <4> DEFINE X == DOMAIN tree \ S
      <4>1. SUFFICES ASSUME X # {} PROVE FALSE
        OBVIOUS
      <4>2. PICK n \in X : \A m \in X : Len(n) <= Len(m)
        <5>1. X \in SUBSET Path
          BY <2>5
        <5> HIDE DEF X
        <5> QED BY ONLY <4>1, <5>1, ShortestPath
      <4>3. n \in DOMAIN tree /\ n \notin S /\ n # <<>> /\ n \in Path
        BY <2>5, <3>2
      <4>4. Front(n) \in DOMAIN tree /\ Len(Front(n)) = Len(n) - 1 /\ Len(n) \in Nat
        BY <2>5, <4>3, PathFront DEF Path
      <4>5. Front(n) \in S
        <5>1. ~(Len(n) <= Len(Front(n)))
          BY ONLY <4>4
        <5> QED BY <4>2, <4>4, <5>1
      <4>6. n \in Left!Child(Front(n))
        BY <2>6, <4>3, <4>4 DEF KeptBelow
      <4> QED BY <3>2, <4>3, <4>5, <4>6
    <3>3. Left!IsFiniteSet(DOMAIN tree)
      BY ONLY <2>5 DEF IsFiniteSet, Left!IsFiniteSet
    <3> QED BY <2>5, <3>1, <3>2, <3>3 DEF Left!IsTree
  <2>10. Left!IsShared
    <3>1. \A n \in DOMAIN tree \ {<<>>} : tree[n] # tree[<<>>]
      BY <2>5, RootAbove
    <3>2. ASSUME NEW m \in DOMAIN tree, NEW n \in DOMAIN tree, tree[m] = tree[n]
          PROVE  Left!ChildTargets(m) = Left!ChildTargets(n)
      <4>1. {tree[c] : c \in KeptBelow(m)} = {tree[c] : c \in KeptBelow(n)}
        <5>1. PICK E : E = Needs(N, D, H, g)
          OBVIOUS
        <5>2. \A k \in DOMAIN tree : {tree[c] : c \in KeptBelow(k)}
                = {x \in E[tree[k]] \ Source : x \in changed_dp \/ E[x] = {}}
          BY <2>1, <2>3, <5>1, KeptChildren
        <5> QED BY ONLY <3>2, <5>2, m \in DOMAIN tree, n \in DOMAIN tree
      <4> QED BY <2>6, <4>1 DEF Left!ChildTargets
    <3> QED BY <3>1, <3>2 DEF Left!IsShared
  <2>11. Left!ListsLeaves
    <3>1. Leaf = {n \in DOMAIN tree : KeptBelow(n) = {}}
      BY <2>7 DEF Leaf
    <3>2. /\ Leaf \in SUBSET Path /\ IsFiniteSet(Leaf) /\ Leaf # {}
          /\ \A m, n \in Leaf : m \notin Above(n)
      BY <2>4, <3>1, LeavesApart
    <3>3. /\ LeafOrder \in Seq(Leaf) /\ Len(LeafOrder) = Cardinality(Leaf)
          /\ {LeafOrder[j] : j \in DOMAIN LeafOrder} = Leaf
          /\ ListsOnce(LeafOrder)
      BY <3>2, ListedInOrder DEF LeafOrder
    <3>4. LeafOrder \in Seq(DOMAIN tree)
      <4>1. Leaf \subseteq DOMAIN tree
        BY DEF Leaf
      <4> QED BY ONLY <3>3, <4>1
    <3>5. LeafOrder # <<>>
      <4>1. Cardinality(Leaf) # 0
        BY <3>2, FS_EmptySet
      <4> QED BY ONLY <3>3, <4>1, Len(<<>>) = 0
    <3>6. Leaf = {n \in DOMAIN tree : Left!Child(n) = {}}
      BY <2>6, <3>1
    <3> QED BY <3>3, <3>4, <3>5, <3>6 DEF Left!ListsLeaves, ListsOnce
  <2> QED BY <2>7, <2>8, <2>9, <2>10, <2>11
<1>2. (\E N, D, H, g : GraphInv(N, D, H, g)) => IsReadyToSchedule
  BY <1>1 DEF IsReadyToSchedule
<1> QED BY <1>2, GraphAlways, PTL
=============================================================================
