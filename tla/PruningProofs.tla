--------------------------- MODULE PruningProofs ---------------------------
(***************************************************************************)
(* What Pruning promises, for every remodelfile: its two recursions touch  *)
(* no freed node, leave arrays without holes, and do what DepGraph does in *)
(* one step.                                                               *)
(*                                                                         *)
(* The first recursion goes through the tree in the order of paths, so     *)
(* that the nodes it has left are those before the place it is at: the     *)
(* freed ones among them are those that it takes out.  The second may      *)
(* count a node only on the way to its children, and every node that is    *)
(* not counted yet is below one that is still to come.                     *)
(***************************************************************************)
EXTENDS Pruning, GraphProofs

-----------------------------------------------------------------------------
(* Places in the tree *)

(* A path starts with the paths above it.                                  *)
LEMMA AboveAgrees ==
  ASSUME NEW n \in Path, NEW a \in Above(n)
  PROVE  \A k \in 1 .. Len(a) : a[k] = n[k]
<1>1. PICK k \in 0 .. Len(n) - 1 : a = SubSeq(n, 1, k)
  BY DEF Above
<1>2. Len(n) \in Nat /\ k \in Nat /\ \A i \in 1 .. k : n[i] \in Num
  <2>1. DOMAIN n = 1 .. Len(n) /\ Len(n) \in Nat /\ \A x \in DOMAIN n : n[x] \in Num
    BY SeqValues DEF Path
  <2> QED BY <2>1
<1>3. /\ Len(SubSeq(n, 1, k)) = IF 1 <= k THEN k-1+1 ELSE 0
      /\ \A i \in 1 .. k-1+1 : SubSeq(n, 1, k)[i] = n[1+i-1]
  BY ONLY <1>2, SubSeqProperties, 1 \in Int, k \in Int
<1>4. k-1+1 = k /\ (~(1 <= k) => k = 0) /\ \A i \in 1 .. k : 1+i-1 = i
  BY ONLY <1>2
<1> QED BY ONLY <1>1, <1>3, <1>4

(* What is before a child is before its parent, or from one of the         *)
(* children before it on.                                                  *)
LEMMA BeforeChild ==
  ASSUME NEW n \in Path, NEW x \in Path, NEW i \in Num
  PROVE  IsBefore(n, Append(x, i)) <=>
           \/ IsBefore(n, x)
           \/ \E j \in Num : j < i /\ Append(x, j) \in Above(n) \cup {n}
<1> DEFINE y == Append(x, i)
           l == Len(x)
<1>1. /\ DOMAIN n = 1 .. Len(n) /\ Len(n) \in Nat /\ \A k \in DOMAIN n : n[k] \in Num
      /\ DOMAIN x = 1 .. l /\ l \in Nat /\ \A k \in DOMAIN x : x[k] \in Num
  BY SeqValues DEF Path
<1>2. ASSUME NEW j \in Num
      PROVE  /\ Append(x, j) \in Path /\ DOMAIN Append(x, j) = 1 .. l + 1
             /\ Len(Append(x, j)) = l + 1
             /\ \A k \in 1 .. l : Append(x, j)[k] = x[k]
             /\ Append(x, j)[l + 1] = j
  BY AppendProperties DEF Path
<1>3. /\ DOMAIN y = 1 .. l + 1 /\ y[l + 1] = i /\ \A k \in 1 .. l : y[k] = x[k]
  BY <1>2
<1> HIDE DEF y, l
<1>4. ASSUME IsBefore(n, y)
      PROVE  \/ IsBefore(n, x)
             \/ \E j \in Num : j < i /\ Append(x, j) \in Above(n) \cup {n}
  <2>1. PICK k \in DOMAIN n \cap DOMAIN y :
          n[k] < y[k] /\ \A m \in 1 .. k - 1 : n[m] = y[m]
    BY <1>4 DEF IsBefore
  <2>2. CASE k \in 1 .. l
    <3>1. k \in DOMAIN n \cap DOMAIN x /\ n[k] < x[k]
      BY ONLY <1>1, <1>3, <2>1, <2>2
    <3>2. \A m \in 1 .. k - 1 : n[m] = x[m]
      <4>1. \A m \in 1 .. k - 1 : m \in 1 .. l
        BY ONLY <1>1, <2>2
      <4> QED BY ONLY <1>3, <2>1, <4>1
    <3> QED BY ONLY <3>1, <3>2 DEF IsBefore
  <2>3. CASE k = l + 1
    <3> DEFINE j == n[k]
    <3>1. j \in Num /\ j < i
      BY ONLY <1>1, <1>3, <2>1, <2>3
    <3>2. Len(Append(x, j)) = l + 1 /\ Append(x, j) \in Path /\ l + 1 <= Len(n)
      BY ONLY <1>1, <1>2, <2>1, <2>3, <3>1
    <3>3. ASSUME NEW m \in 1 .. l + 1 PROVE Append(x, j)[m] = n[m]
      <4>1. m \in 1 .. l \/ m = l + 1
        BY ONLY <1>1, m \in 1 .. l + 1
      <4>2. k - 1 = l
        BY ONLY <1>1, <2>3
      <4>3. \A a \in 1 .. l : n[a] = y[a] /\ y[a] = x[a]
        BY ONLY <1>3, <2>1, <4>2
      <4> QED BY ONLY <1>2, <2>3, <3>1, <4>1, <4>3 DEF j
    <3> HIDE DEF j
    <3>4. Append(x, j) = n \/ Append(x, j) \in Above(n)
      BY <3>2, <3>3, StartsWith
    <3> QED BY <3>1, <3>4
  <2>4. k \in 1 .. l \/ k = l + 1
    <3>1. k \in 1 .. l + 1
      BY ONLY <1>3, k \in DOMAIN n \cap DOMAIN y
    <3> QED BY ONLY <1>1, <3>1
  <2> QED BY <2>2, <2>3, <2>4
<1>5. ASSUME IsBefore(n, x) PROVE IsBefore(n, y)
  <2>1. PICK k \in DOMAIN n \cap DOMAIN x :
          n[k] < x[k] /\ \A m \in 1 .. k - 1 : n[m] = x[m]
    BY <1>5 DEF IsBefore
  <2>2. k \in 1 .. l /\ k \in DOMAIN n \cap DOMAIN y /\ \A m \in 1 .. k - 1 : m \in 1 .. l
    BY ONLY <1>1, <1>3, k \in DOMAIN n \cap DOMAIN x
  <2>3. n[k] < y[k] /\ \A m \in 1 .. k - 1 : n[m] = y[m]
    BY ONLY <1>3, <2>1, <2>2
  <2> QED BY ONLY <2>2, <2>3 DEF IsBefore
<1>6. ASSUME NEW j \in Num, j < i, Append(x, j) \in Above(n) \cup {n}
      PROVE  IsBefore(n, y)
  <2>1. l + 1 <= Len(n) /\ \A k \in 1 .. l + 1 : Append(x, j)[k] = n[k]
    <3>1. CASE Append(x, j) = n
      BY <1>1, <1>2, <3>1
    <3>2. CASE Append(x, j) \in Above(n)
      <4>1. Len(Append(x, j)) < Len(n) /\ \A k \in 1 .. Len(Append(x, j)) : Append(x, j)[k] = n[k]
        BY <3>2, AboveIsShorter, AboveAgrees
      <4> QED BY <1>1, <1>2, <4>1
    <3> QED BY <1>6, <3>1, <3>2
  <2>2. l + 1 \in DOMAIN n \cap DOMAIN y /\ \A k \in 1 .. (l + 1) - 1 : k \in 1 .. l /\ k \in 1 .. l + 1
    BY ONLY <1>1, <1>3, <2>1
  <2>3. n[l + 1] = j
    <3>1. l + 1 \in 1 .. l + 1
      BY ONLY <1>1
    <3> QED BY ONLY <1>2, <2>1, <3>1
  <2>4. n[l + 1] < y[l + 1]
    BY ONLY <1>3, <1>6, <2>3
  <2>5. \A k \in 1 .. (l + 1) - 1 : n[k] = y[k]
    BY ONLY <1>2, <1>3, <2>1, <2>2
  <2> QED BY ONLY <2>2, <2>4, <2>5 DEF IsBefore
<1> QED BY <1>4, <1>5, <1>6 DEF y

(* Nothing is before a node below it, or is what the node is before.       *)
LEMMA NotBeforeBelow ==
  ASSUME NEW n \in Path, NEW a \in Above(n)
  PROVE  ~IsBefore(a, n)
<1> SUFFICES ASSUME NEW k \in DOMAIN a \cap DOMAIN n, a[k] < n[k] PROVE FALSE
  BY DEF IsBefore
<1>1. a \in Path
  BY AboveIsShorter
<1>2. k \in 1 .. Len(a) /\ n[k] \in Nat
  BY <1>1, SeqValues DEF Path, Num
<1>3. a[k] = n[k]
  BY <1>2, AboveAgrees
<1> QED BY ONLY <1>2, <1>3, a[k] < n[k]

-----------------------------------------------------------------------------
(* The stacks *)

(* A list without its last member                                          *)
LEMMA FrontOf ==
  ASSUME NEW S, NEW q \in Seq(S), q # <<>>
  PROVE  /\ Len(q) \in Nat \ {0} /\ DOMAIN q = 1 .. Len(q)
         /\ \A j \in 1 .. Len(q) : q[j] \in S
         /\ Last(q) = q[Len(q)] /\ Last(q) \in S
         /\ Front(q) \in Seq(S) /\ Len(Front(q)) = Len(q) - 1
         /\ \A j \in 1 .. Len(q) - 1 : Front(q)[j] = q[j]
<1> DEFINE m == Len(q) - 1
<1>1. /\ Len(q) \in Nat \ {0} /\ DOMAIN q = 1 .. Len(q)
      /\ \A j \in 1 .. Len(q) : q[j] \in S
  BY SeqValues, EmptySeq
<1>2. m \in Nat /\ \A j \in 1 .. m : q[j] \in S
  BY <1>1
<1>3. Last(q) = q[Len(q)] /\ Last(q) \in S
  <2>1. Len(q) \in 1 .. Len(q)
    BY ONLY <1>1
  <2> QED BY <1>1, <2>1 DEF Last
<1>4. Front(q) = SubSeq(q, 1, m)
  BY DEF Front
<1> HIDE DEF m
<1>5. /\ SubSeq(q, 1, m) \in Seq(S)
      /\ Len(SubSeq(q, 1, m)) = IF 1 <= m THEN m-1+1 ELSE 0
      /\ \A i \in 1 .. m-1+1 : SubSeq(q, 1, m)[i] = q[1+i-1]
  BY ONLY <1>2, SubSeqProperties, 1 \in Int, m \in Int
<1>6. m-1+1 = m /\ (~(1 <= m) => m = 0) /\ \A i \in 1 .. m : 1+i-1 = i
  BY ONLY <1>2
<1>7. Front(q) \in Seq(S) /\ Len(Front(q)) = m /\ \A j \in 1 .. m : Front(q)[j] = q[j]
  BY ONLY <1>4, <1>5, <1>6
<1> QED BY <1>1, <1>3, <1>7 DEF m

(* One more member                                                         *)
LEMMA PutOnTop ==
  ASSUME NEW S, NEW q \in Seq(S), NEW f \in S, NEW r, r = Append(q, f)
  PROVE  /\ r \in Seq(S) /\ r # <<>> /\ Len(r) = Len(q) + 1 /\ Len(q) \in Nat
         /\ \A j \in 1 .. Len(q) : r[j] = q[j]
         /\ r[Len(q) + 1] = f
BY AppendProperties, SeqValues

Frame == [node : Path, i : Nat]

(* The nodes of the calls, each a child of the one before                  *)
Descends(q) ==
  /\ q \in Seq(Frame)
  /\ \A k \in 1 .. Len(q) : /\ Len(q[k].node) = k - 1
                           /\ q[k].node \in Above(Last(q).node) \cup {Last(q).node}

(* The top call goes on with e, and makes the call f.                      *)
Calls(q, e, f) == Append(Append(Front(q), e), f)
HasCalled(q, e, f, r) ==
  /\ Descends(r) /\ r # <<>> /\ Last(r) = f /\ Len(r) = Len(q) + 1
  /\ r[Len(q)] = e /\ \A k \in 1 .. Len(q) - 1 : r[k] = q[k]

LEMMA DescendStep ==
  ASSUME NEW q, Descends(q), q # <<>>, NEW e \in Frame, e.node = Last(q).node,
         NEW f \in Frame, NEW j \in Num, f.node = Append(e.node, j)
  PROVE  HasCalled(q, e, f, Calls(q, e, f))
<1> DEFINE r == Calls(q, e, f)
<1> USE DEF Calls
<1> DEFINE s == Append(Front(q), e)
           L == Len(q)
<1>1. /\ L \in Nat \ {0} /\ \A k \in 1 .. L : q[k] \in Frame
      /\ Last(q) = q[L] /\ Last(q) \in Frame
      /\ Front(q) \in Seq(Frame) /\ Len(Front(q)) = L - 1
      /\ \A k \in 1 .. L - 1 : Front(q)[k] = q[k]
  BY FrontOf DEF Descends
<1>2. /\ s \in Seq(Frame) /\ Len(s) = L /\ s[L] = e
      /\ \A k \in 1 .. L - 1 : s[k] = q[k]
  <2> HIDE DEF s
  <2> DEFINE b == Front(q)
  <2>1. s = Append(b, e) /\ b \in Seq(Frame)
    BY <1>1 DEF s
  <2> HIDE DEF b
  <2>2. /\ s \in Seq(Frame) /\ s # <<>> /\ Len(s) = Len(b) + 1 /\ Len(b) \in Nat
        /\ \A k \in 1 .. Len(b) : s[k] = b[k]
        /\ s[Len(b) + 1] = e
    BY ONLY <2>1, e \in Frame, PutOnTop
  <2>3. Len(b) = L - 1 /\ \A k \in 1 .. L - 1 : b[k] = q[k]
    BY <1>1 DEF b
  <2> HIDE DEF L
  <2>4. (L - 1) + 1 = L
    BY ONLY <1>1
  <2> QED BY ONLY <2>2, <2>3, <2>4
<1>3. /\ r \in Seq(Frame) /\ r # <<>> /\ Len(r) = L + 1 /\ Last(r) = f
      /\ \A k \in 1 .. L : r[k] = s[k]
      /\ r[L + 1] = f
  <2> HIDE DEF s, L
  <2>1. r = Append(s, f)
    BY DEF s
  <2>2. /\ r \in Seq(Frame) /\ r # <<>> /\ Len(r) = Len(s) + 1
        /\ \A k \in 1 .. Len(s) : r[k] = s[k]
        /\ r[Len(s) + 1] = f
    <3>1. s \in Seq(Frame)
      BY <1>2
    <3> QED BY ONLY <2>1, <3>1, f \in Frame, PutOnTop
  <2>3. Last(r) = r[Len(r)]
    BY DEF Last
  <2> QED BY ONLY <1>2, <2>2, <2>3
<1> HIDE DEF s
<1>4. \A k \in 1 .. L : r[k].node = q[k].node
  <2> HIDE DEF L
  <2>1. \A k \in 1 .. L : k = L \/ k \in 1 .. L - 1
    BY ONLY <1>1
  <2>2. e.node = q[L].node
    BY <1>1
  <2> QED BY ONLY <1>2, <1>3, <2>1, <2>2
<1>5. /\ e.node \in Path /\ Len(e.node) = L - 1
      /\ Above(f.node) = Above(e.node) \cup {e.node}
      /\ Len(f.node) = Len(e.node) + 1
  <2>1. e.node \in Path
    BY DEF Frame
  <2>2. L \in 1 .. L
    BY ONLY <1>1
  <2>3. Len(e.node) = L - 1
    BY <1>1, <2>2 DEF Descends
  <2> QED BY <2>1, <2>3, PathAppend
<1>6. ASSUME NEW k \in 1 .. L + 1
      PROVE  Len(r[k].node) = k - 1 /\ r[k].node \in Above(f.node) \cup {f.node}
  <2>1. CASE k = L + 1
    BY ONLY <1>1, <1>3, <1>5, <2>1
  <2>2. CASE k \in 1 .. L
    <3>1. Len(q[k].node) = k - 1 /\ q[k].node \in Above(e.node) \cup {e.node}
      BY <2>2 DEF Descends
    <3> QED BY ONLY <1>4, <1>5, <2>2, <3>1
  <2>3. k = L + 1 \/ k \in 1 .. L
    BY ONLY <1>1, k \in 1 .. L + 1
  <2> QED BY <2>1, <2>2, <2>3
<1>7. r[L] = e /\ \A k \in 1 .. L - 1 : r[k] = q[k]
  <2> HIDE DEF L
  <2>1. L \in 1 .. L /\ \A k \in 1 .. L - 1 : k \in 1 .. L
    BY ONLY <1>1
  <2> QED BY ONLY <1>2, <1>3, <2>1
<1>8. Descends(r)
  BY ONLY <1>3, <1>6 DEF Descends
<1> HIDE DEF Calls, r
<1> QED BY ONLY <1>3, <1>7, <1>8 DEF L, r, HasCalled

LEMMA DescendReturn ==
  ASSUME NEW q, Descends(q), q # <<>>
  PROVE  /\ Last(q) = q[Len(q)] /\ Last(q) \in Frame /\ Len(q) \in Nat \ {0}
         /\ Len(Last(q).node) = Len(q) - 1
         /\ Descends(Front(q)) /\ Len(Front(q)) = Len(q) - 1
         /\ \A k \in 1 .. Len(q) - 1 : Front(q)[k] = q[k]
         /\ Front(q) = <<>> => Last(q).node = <<>>
         /\ Front(q) # <<>> => /\ Last(Front(q)) = q[Len(q) - 1]
                              /\ Last(Front(q)).node \in Path /\ Last(q).node # <<>>
                              /\ Front(Last(q).node) = Last(Front(q)).node
<1> DEFINE L == Len(q)
           x == Last(q).node
           r == Front(q)
<1>1. /\ L \in Nat \ {0} /\ \A k \in 1 .. L : q[k] \in Frame
      /\ Last(q) = q[L] /\ Last(q) \in Frame
      /\ r \in Seq(Frame) /\ Len(r) = L - 1
      /\ \A k \in 1 .. L - 1 : r[k] = q[k]
  BY FrontOf DEF Descends
<1>2. /\ \A k \in 1 .. L : Len(q[k].node) = k - 1 /\ q[k].node \in Above(x) \cup {x}
      /\ x \in Path /\ Len(x) = L - 1
  <2>1. \A k \in 1 .. L : Len(q[k].node) = k - 1 /\ q[k].node \in Above(x) \cup {x}
    BY DEF Descends
  <2>2. L \in 1 .. L
    BY ONLY <1>1
  <2>3. x \in Path
    BY <1>1 DEF Frame
  <2> QED BY <1>1, <2>1, <2>2, <2>3
<1> HIDE DEF r, x
<1>3. CASE r = <<>>
  <2>1. L = 1
    BY ONLY <1>1, <1>3, Len(<<>>) = 0
  <2>2. x = <<>>
    BY ONLY <1>2, <2>1, EmptySeq DEF Path
  <2>3. Descends(r)
    BY ONLY <1>1, <1>3, <2>1 DEF Descends
  <2> QED BY <1>1, <1>2, <1>3, <2>2, <2>3 DEF r, x
<1>4. CASE r # <<>>
  <2> DEFINE p == Last(r).node
  <2>1. L - 1 \in Nat \ {0} /\ L - 1 \in 1 .. L - 1 /\ L - 1 \in 1 .. L
    <3>1. Len(r) # 0
      BY <1>1, <1>4, EmptySeq
    <3> QED BY ONLY <1>1, <3>1
  <2>2. Last(r) = q[L - 1]
    <3>1. Last(r) = r[Len(r)]
      BY DEF Last
    <3> QED BY ONLY <1>1, <2>1, <3>1
  <2>3. x # <<>>
    BY ONLY <1>1, <1>2, <2>1, Len(<<>>) = 0
  <2>4. /\ Above(x) = Above(Front(x)) \cup {Front(x)} /\ Front(x) \in Path
        /\ Len(Front(x)) = L - 2
    <3>1. Len(Front(x)) = Len(x) - 1 /\ Front(x) \in Path
      BY <1>2, <2>3, PathFront
    <3>2. (L - 1) - 1 = L - 2
      BY ONLY <1>1
    <3> QED BY <1>2, <2>3, <3>1, <3>2, PathAbove
  <2>5. ASSUME NEW k \in 1 .. L - 1 PROVE q[k].node \in Above(x)
    <3>1. k \in 1 .. L /\ k - 1 # L - 1
      BY ONLY <1>1, k \in 1 .. L - 1
    <3> QED BY ONLY <1>2, <3>1
  <2>6. p = Front(x)
    <3>1. p \in Above(x) /\ Len(p) = L - 2
      <4>1. Len(q[L - 1].node) = (L - 1) - 1 /\ (L - 1) - 1 = L - 2
        BY ONLY <1>1, <1>2, <2>1
      <4> QED BY <2>1, <2>2, <2>5, <4>1
    <3>2. p \notin Above(Front(x))
      <4> SUFFICES ASSUME p \in Above(Front(x)) PROVE FALSE
        OBVIOUS
      <4>1. Len(p) < Len(Front(x))
        BY <2>4, AboveIsShorter
      <4> QED BY ONLY <1>1, <2>4, <3>1, <4>1
    <3> QED BY <2>4, <3>1, <3>2
  <2>7. Descends(r)
    <3>1. \A k \in 1 .. L - 1 : Len(r[k].node) = k - 1 /\ r[k].node \in Above(p) \cup {p}
      <4>1. \A k \in 1 .. L - 1 : k \in 1 .. L
        BY ONLY <1>1
      <4> HIDE DEF p
      <4> QED BY ONLY <1>1, <1>2, <2>4, <2>5, <2>6, <4>1
    <3> QED BY <1>1, <3>1 DEF Descends
  <2> HIDE DEF p
  <2> QED BY <1>1, <1>2, <1>4, <2>2, <2>3, <2>4, <2>6, <2>7 DEF r, x, p
<1> QED BY <1>3, <1>4

-----------------------------------------------------------------------------
(* The first recursion *)

(* What the recursion over T takes out (IsRemoved()), and what it has left *)
(* already when q are its calls                                            *)
IsTaken(T, C, M, n) ==
  n # <<>> /\ (T[n] \in Source \/ (T[n] \notin M /\ C[n] # 0))
Taken(T, C, M, q) ==
  {n \in DOMAIN T : /\ IsTaken(T, C, M, n)
                    /\ q # <<>> => IsBefore(n, Append(Last(q).node, Last(q).i))}
(* The arrays without the nodes in F                                       *)
Pointers(T, C, F) ==
  [n \in DOMAIN T |->
     [j \in 1 .. C[n] |-> IF Append(n, j) \in F THEN NoNode ELSE Append(n, j)]]

(* The calls for the nodes on the way to one: each is a turn of the loop   *)
(* of the one before.                                                      *)
Walks(q, T) ==
  /\ Descends(q)
  /\ \A k \in 1 .. Len(q) : q[k].node \in DOMAIN T /\ q[k].i \in Num
  /\ \A k \in 1 .. Len(q) - 1 :
       q[k].i - 1 \in Num /\ q[k + 1].node = Append(q[k].node, q[k].i - 1)

(* A call for a child starts before anything below the child is left.      *)
Visiting(q) ==
  Calls(q, [node |-> Last(q).node, i |-> Last(q).i + 1],
        Call(Append(Last(q).node, Last(q).i)))
HasVisited(q, r, T, C, M) ==
  /\ Last(q).i \in 1 .. C[Last(q).node]
  /\ Append(Last(q).node, Last(q).i) \in DOMAIN T
  /\ Walks(r, T) /\ Taken(T, C, M, r) = Taken(T, C, M, q)

LEMMA EnterChild ==
  ASSUME NEW N, NEW D, NEW H, NEW g, NEW T, NEW C, TreeShape(T, C, {}, N, D, H, g),
         NEW q, Walks(q, T), q # <<>>, Last(q).i <= C[Last(q).node], NEW M
  PROVE  HasVisited(q, Visiting(q), T, C, M)
<1> DEFINE x == Last(q).node
           i == Last(q).i
           e == [node |-> x, i |-> i + 1]
           f == Call(Append(x, i))
           r == Visiting(q)
<1>0. /\ x = Last(q).node /\ i = Last(q).i /\ i <= C[x]
      /\ e = [node |-> x, i |-> i + 1] /\ r = Calls(q, e, f)
  BY DEF Visiting
<1> HIDE DEF x, i, e, r
<1>1. /\ x \in DOMAIN T /\ x \in Path /\ i \in Num /\ C[x] \in Nat
      /\ Len(q) \in Nat \ {0} /\ Last(q) = q[Len(q)]
  <2>1. Len(q) \in Nat \ {0} /\ Last(q) = q[Len(q)]
    BY DescendReturn DEF Walks
  <2>2. Len(q) \in 1 .. Len(q)
    BY ONLY <2>1
  <2> QED BY <1>0, <2>1, <2>2 DEF Walks, TreeShape, TreeBase
<1>2. i \in 1 .. C[x]
  BY ONLY <1>0, <1>1 DEF Num
<1>3. Append(x, i) \in DOMAIN T /\ Append(x, i) \in Path /\ 1 \in Num
  BY <1>1, <1>2 DEF TreeShape, TreeBase, Num
<1>4. e \in Frame /\ e.node = x /\ e.i = i + 1 /\ i + 1 \in Num /\ (i + 1) - 1 = i
  <2>1. i + 1 \in Nat /\ i + 1 \in Num /\ (i + 1) - 1 = i
    BY ONLY <1>1 DEF Num
  <2> QED BY ONLY <1>0, <1>1, <2>1 DEF Frame
<1>5. f \in Frame /\ f.node = Append(x, i) /\ f.i = 1
  BY <1>3 DEF Frame, Call
<1>6. /\ Descends(r) /\ r # <<>> /\ Last(r) = f /\ Len(r) = Len(q) + 1
      /\ r[Len(q)] = e /\ \A k \in 1 .. Len(q) - 1 : r[k] = q[k]
  <2> HIDE DEF f
  <2>1. Descends(q)
    BY DEF Walks
  <2>2. r = Calls(q, e, f)
    BY <1>0 DEF f
  <2>3. e \in Frame
    BY <1>4
  <2>4. e.node = Last(q).node
    BY <1>0, <1>4
  <2>5. f \in Frame
    BY <1>5
  <2>6. f.node = Append(e.node, i)
    BY <1>4, <1>5
  <2>7. i \in Num
    BY <1>1
  <2>8. HasCalled(q, e, f, Calls(q, e, f))
    BY ONLY <2>1, <2>3, <2>4, <2>5, <2>6, <2>7, q # <<>>, DescendStep
  <2> QED BY ONLY <2>2, <2>8 DEF HasCalled
<1>7. r[Len(q) + 1] = f
  BY <1>6 DEF Last
<1> HIDE DEF f
<1>8. \A k \in 1 .. Len(q) - 1 : /\ q[k].node \in DOMAIN T /\ q[k].i \in Num
                                /\ q[k].i - 1 \in Num
                                /\ q[k + 1].node = Append(q[k].node, q[k].i - 1)
  <2>1. \A k \in 1 .. Len(q) - 1 : k \in 1 .. Len(q)
    BY ONLY <1>1
  <2> QED BY <2>1 DEF Walks
<1>9. ASSUME NEW k \in 1 .. Len(r)
      PROVE  r[k].node \in DOMAIN T /\ r[k].i \in Num
  <2>1. k \in 1 .. Len(q) - 1 \/ k = Len(q) \/ k = Len(q) + 1
    BY ONLY <1>1, <1>6, k \in 1 .. Len(r)
  <2>2. CASE k \in 1 .. Len(q) - 1
    BY ONLY <1>6, <1>8, <2>2
  <2>3. CASE k = Len(q)
    BY ONLY <1>1, <1>4, <1>6, <2>3
  <2>4. CASE k = Len(q) + 1
    BY ONLY <1>3, <1>5, <1>7, <2>4
  <2> QED BY ONLY <2>1, <2>2, <2>3, <2>4
<1>10. ASSUME NEW k \in 1 .. Len(r) - 1
       PROVE  r[k].i - 1 \in Num /\ r[k + 1].node = Append(r[k].node, r[k].i - 1)
  <2>1. CASE k = Len(q)
    BY ONLY <1>1, <1>4, <1>5, <1>6, <1>7, <2>1
  <2>2. CASE k # Len(q)
    <3>1. k \in 1 .. Len(q) - 1 /\ (k + 1 \in 1 .. Len(q) - 1 \/ k + 1 = Len(q))
      BY ONLY <1>1, <1>6, <2>2, k \in 1 .. Len(r) - 1
    <3>2. r[k + 1].node = q[k + 1].node
      <4>1. CASE k + 1 \in 1 .. Len(q) - 1
        BY ONLY <1>6, <4>1
      <4>2. CASE k + 1 = Len(q)
        BY ONLY <1>1, <1>4, <1>6, <4>2, <1>0
      <4> QED BY ONLY <3>1, <4>1, <4>2
    <3> QED BY ONLY <1>6, <1>8, <3>1, <3>2
  <2> QED BY ONLY <2>1, <2>2
<1>11. Walks(r, T)
  BY ONLY <1>6, <1>9, <1>10 DEF Walks
<1>12. ASSUME NEW n \in DOMAIN T
       PROVE  IsBefore(n, Append(Append(x, i), 1)) <=> IsBefore(n, Append(x, i))
  <2>1. ~\E j \in Num : j < 1
    BY DEF Num
  <2>2. n \in Path
    BY DEF TreeShape, TreeBase
  <2> QED BY <1>3, <2>1, <2>2, BeforeChild
<1>13. Taken(T, C, M, r) = Taken(T, C, M, q)
  BY ONLY <1>0, <1>5, <1>6, <1>12, q # <<>> DEF Taken
<1> QED BY ONLY <1>0, <1>2, <1>3, <1>11, <1>13 DEF HasVisited, r

(* When a call ends, the node is the only one that has been left since its *)
(* last turn.                                                              *)
LEMMA LeaveCall ==
  ASSUME NEW N, NEW D, NEW H, NEW g, NEW T, NEW C, TreeShape(T, C, {}, N, D, H, g),
         NEW q, Walks(q, T), q # <<>>, NEW x, x = Last(q).node, C[x] < Last(q).i, NEW M
  PROVE  /\ x \in DOMAIN T /\ x \in Path
         /\ Walks(Front(q), T)
         /\ Taken(T, C, M, Front(q))
              = Taken(T, C, M, q) \cup {n \in {x} : IsTaken(T, C, M, n)}
<1> DEFINE L == Len(q)
           r == Front(q)
           i == Last(q).i
<1>1. /\ Last(q) = q[L] /\ L \in Nat \ {0} /\ Descends(r) /\ Len(r) = L - 1
      /\ \A k \in 1 .. L - 1 : r[k] = q[k]
      /\ r = <<>> => x = <<>>
      /\ r # <<>> => Last(r) = q[L - 1]
  BY DescendReturn DEF Walks
<1>2. x \in DOMAIN T /\ x \in Path /\ i \in Num /\ C[x] \in Nat
  <2>1. L \in 1 .. L
    BY ONLY <1>1
  <2> QED BY <1>1, <2>1 DEF Walks, TreeShape, TreeBase
<1>3. /\ \A k \in 1 .. L : q[k].node \in DOMAIN T /\ q[k].i \in Num
      /\ \A k \in 1 .. L - 1 :
           q[k].i - 1 \in Num /\ q[k + 1].node = Append(q[k].node, q[k].i - 1)
  BY DEF Walks
<1>4. /\ DOMAIN T \subseteq Path
      /\ \A n \in DOMAIN T : \A a \in Above(n) : a \in DOMAIN T
      /\ \A n \in DOMAIN T, j \in Num : Append(n, j) \in DOMAIN T <=> j \in 1 .. C[n]
  BY DEF TreeShape, TreeBase
<1> HIDE DEF L, r, i
<1>5. Walks(r, T)
  <2>1. \A k \in 1 .. L - 1 : k \in 1 .. L
    BY ONLY <1>1
  <2>2. \A k \in 1 .. (L - 1) - 1 : k \in 1 .. L - 1 /\ k + 1 \in 1 .. L - 1
    BY ONLY <1>1
  <2>3. \A k \in 1 .. L - 1 : r[k].node \in DOMAIN T /\ r[k].i \in Num
    BY ONLY <1>1, <1>3, <2>1
  <2>4. \A k \in 1 .. (L - 1) - 1 :
          r[k].i - 1 \in Num /\ r[k + 1].node = Append(r[k].node, r[k].i - 1)
    BY ONLY <1>1, <1>3, <2>2
  <2> QED BY ONLY <1>1, <2>3, <2>4 DEF Walks
<1>6. ASSUME NEW n \in DOMAIN T
      PROVE  IsBefore(n, Append(x, i)) <=> IsBefore(n, x) \/ x \in Above(n)
  <2>1. n \in Path
    BY <1>4
  <2>2. ASSUME NEW j \in Num, Append(x, j) \in Above(n) \cup {n} PROVE x \in Above(n)
    <3>1. Above(Append(x, j)) = Above(x) \cup {x}
      BY <1>2, PathAppend
    <3>2. Append(x, j) \in Above(n) => Above(Append(x, j)) \subseteq Above(n)
      BY <2>1, AboveTransitive
    <3> QED BY <2>2, <3>1, <3>2
  <2>3. ASSUME x \in Above(n)
        PROVE  \E j \in Num : j < i /\ Append(x, j) \in Above(n) \cup {n}
    <3>1. PICK j \in Num : Append(x, j) \in Above(n) \cup {n}
      BY <2>1, <2>3, ChildBetween
    <3>2. j \in 1 .. C[x]
      BY <1>2, <1>4, <3>1
    <3>3. j < i
      BY ONLY <1>2, <3>2, C[x] < Last(q).i DEF i, Num
    <3> QED BY <3>1, <3>3
  <2>4. IsBefore(n, Append(x, i)) <=>
           \/ IsBefore(n, x)
           \/ \E j \in Num : j < i /\ Append(x, j) \in Above(n) \cup {n}
    BY <1>2, <2>1, BeforeChild
  <2> QED BY ONLY <2>2, <2>3, <2>4
<1>7. CASE r = <<>>
  <2>1. x = <<>>
    BY <1>1, <1>7
  <2>2. \A n \in DOMAIN T : n # <<>> => x \in Above(n)
    BY <1>4, <2>1, RootAbove
  <2>3. \A n \in DOMAIN T : IsTaken(T, C, M, n) => n # <<>>
    BY DEF IsTaken
  <2>4. Taken(T, C, M, q) = {n \in DOMAIN T : IsTaken(T, C, M, n)}
    BY ONLY <1>6, <2>2, <2>3, q # <<>>, x = Last(q).node DEF Taken, i
  <2>5. Taken(T, C, M, r) = {n \in DOMAIN T : IsTaken(T, C, M, n)}
    BY ONLY <1>7 DEF Taken
  <2> QED BY <1>2, <1>5, <2>4, <2>5 DEF r
<1>8. CASE r # <<>>
  <2> DEFINE p == Last(r).node
             a == Last(r).i
  <2>1. p \in Path /\ a \in Num /\ a - 1 \in Num /\ x = Append(p, a - 1)
    <3>1. L - 1 \in 1 .. L - 1 /\ L - 1 \in 1 .. L /\ (L - 1) + 1 = L
      <4>1. Len(r) # 0
        BY <1>1, <1>8, EmptySeq DEF Descends
      <4> QED BY ONLY <1>1, <4>1
    <3>2. q[L - 1].node \in Path
      BY <1>3, <1>4, <3>1
    <3> QED BY ONLY <1>1, <1>3, <1>8, <3>1, <3>2, x = Last(q).node
  <2> HIDE DEF p, a
  <2>2. ASSUME NEW n \in DOMAIN T
        PROVE  IsBefore(n, Append(p, a)) <=> IsBefore(n, x) \/ x \in Above(n) \cup {n}
    <3> DEFINE B(j) == Append(p, j) \in Above(n) \cup {n}
    <3>1. n \in Path
      BY <1>4
    <3>2. \A j \in Num : j < a <=> j < a - 1 \/ j = a - 1
      BY ONLY <2>1 DEF Num
    <3>3. IsBefore(n, Append(p, a)) <=> IsBefore(n, p) \/ \E j \in Num : j < a /\ B(j)
      BY <2>1, <3>1, BeforeChild
    <3>4. IsBefore(n, Append(p, a - 1))
             <=> IsBefore(n, p) \/ \E j \in Num : j < a - 1 /\ B(j)
      BY <2>1, <3>1, BeforeChild
    <3>5. B(a - 1) <=> x \in Above(n) \cup {n}
      BY <2>1
    <3>6. x = Append(p, a - 1) /\ a - 1 \in Num
      BY <2>1
    <3> HIDE DEF B
    <3> QED BY ONLY <3>2, <3>3, <3>4, <3>5, <3>6
  <2>3. ASSUME NEW n \in DOMAIN T
        PROVE  IsBefore(n, Append(p, a)) <=> IsBefore(n, Append(x, i)) \/ n = x
    BY ONLY <1>6, <2>2, x = x
  <2>4. Taken(T, C, M, r) = {n \in DOMAIN T : IsTaken(T, C, M, n) /\ IsBefore(n, Append(p, a))}
    BY ONLY <1>8 DEF Taken, p, a
  <2>5. Taken(T, C, M, q) = {n \in DOMAIN T : IsTaken(T, C, M, n) /\ IsBefore(n, Append(x, i))}
    BY ONLY q # <<>>, x = Last(q).node DEF Taken, i
  <2>6. Taken(T, C, M, r) = Taken(T, C, M, q) \cup {n \in {x} : IsTaken(T, C, M, n)}
    BY ONLY <1>2, <2>3, <2>4, <2>5
  <2> QED BY <1>2, <1>5, <2>6 DEF r
<1> QED BY <1>7, <1>8

(* NULL is not a node.                                                     *)
LEMMA NoPath == NoNode \notin Path
<1> SUFFICES ASSUME NEW m \in Path PROVE m \in Seq(Nat)
  BY NoNodeAssumption
<1>1. DOMAIN m = 1 .. Len(m) /\ Len(m) \in Nat /\ \A i \in DOMAIN m : m[i] \in Num
  BY SeqValues DEF Path
<1> QED BY <1>1, SeqValues DEF Path, Num

(* The parent's pointer to a node is set to NULL.                          *)
Nulled(P, x) ==
  [P EXCEPT ![Front(x)] = [j \in DOMAIN @ |-> IF @[j] = x THEN NoNode ELSE @[j]]]

LEMMA TakenOut ==
  ASSUME NEW N, NEW D, NEW H, NEW g, NEW T, NEW C, TreeShape(T, C, {}, N, D, H, g),
         NEW F, NEW x \in DOMAIN T, x # <<>>
  PROVE  Nulled(Pointers(T, C, F), x) = Pointers(T, C, F \cup {x})
<1> USE DEF Nulled
<1> DEFINE P == Pointers(T, C, F)
           p == Front(x)
           A == P[p]
           Q == [P EXCEPT ![p] = [j \in DOMAIN A |-> IF A[j] = x THEN NoNode ELSE A[j]]]
           R == Pointers(T, C, F \cup {x})
<1>1. /\ DOMAIN T \subseteq Path /\ p \in DOMAIN T /\ C \in [DOMAIN T -> Nat]
      /\ x \in Path
  BY DEF TreeShape, TreeBase
<1>2. x # NoNode
  BY <1>1, NoPath
<1>3. ASSUME NEW n \in DOMAIN T, NEW j \in 1 .. C[n]
      PROVE  Append(n, j) = x => n = p
  <2>1. n \in Path /\ j \in Num
    BY <1>1 DEF Num
  <2>2. Front(Append(n, j)) = n
    BY <2>1, PathAppend
  <2> QED BY <2>2
<1>4. DOMAIN P = DOMAIN T
      /\ \A n \in DOMAIN T : P[n] = [j \in 1 .. C[n] |-> IF Append(n, j) \in F THEN NoNode
                                                        ELSE Append(n, j)]
  BY DEF Pointers
<1>5. DOMAIN R = DOMAIN T
      /\ \A n \in DOMAIN T : R[n] = [j \in 1 .. C[n] |->
            IF Append(n, j) \in F \cup {x} THEN NoNode ELSE Append(n, j)]
  BY DEF Pointers
<1> HIDE DEF p, P
<1>6. ASSUME NEW n \in DOMAIN T, n # p PROVE Q[n] = R[n]
  <2>1. Q[n] = P[n]
    BY ONLY <1>4, <1>6
  <2>2. \A j \in 1 .. C[n] : Append(n, j) \in F \cup {x} <=> Append(n, j) \in F
    BY <1>3, <1>6
  <2>3. Q[n] = [j \in 1 .. C[n] |-> IF Append(n, j) \in F THEN NoNode ELSE Append(n, j)]
    BY ONLY <1>4, <2>1
  <2>4. R[n] = [j \in 1 .. C[n] |->
                  IF Append(n, j) \in F \cup {x} THEN NoNode ELSE Append(n, j)]
    BY ONLY <1>5
  <2> HIDE DEF Q, R
  <2> QED BY ONLY <2>2, <2>3, <2>4
<1>7. Q[p] = R[p]
  <2>1. Q[p] = [j \in DOMAIN A |-> IF A[j] = x THEN NoNode ELSE A[j]]
    BY ONLY <1>1, <1>4
  <2>2. DOMAIN A = 1 .. C[p]
        /\ \A j \in 1 .. C[p] : A[j] = IF Append(p, j) \in F THEN NoNode ELSE Append(p, j)
    BY <1>1, <1>4
  <2> HIDE DEF A, Q, R
  <2>3. \A j \in 1 .. C[p] : (IF A[j] = x THEN NoNode ELSE A[j])
          = IF Append(p, j) \in F \cup {x} THEN NoNode ELSE Append(p, j)
    BY ONLY <1>2, <2>2
  <2>4. Q[p] = [j \in 1 .. C[p] |-> IF A[j] = x THEN NoNode ELSE A[j]]
    BY ONLY <2>1, <2>2
  <2>5. R[p] = [j \in 1 .. C[p] |->
                  IF Append(p, j) \in F \cup {x} THEN NoNode ELSE Append(p, j)]
    BY ONLY <1>1, <1>5
  <2> QED BY ONLY <2>3, <2>4, <2>5
<1>8. Q = [n \in DOMAIN T |-> Q[n]] /\ R = [n \in DOMAIN T |-> R[n]]
  <2>1. Q = [n \in DOMAIN T |-> Q[n]]
    BY ONLY <1>4
  <2>2. R = [n \in DOMAIN T |-> R[n]]
    BY ONLY <1>5 DEF Pointers
  <2> QED BY ONLY <2>1, <2>2
<1>9. Q = R
  <2> HIDE DEF Q, R
  <2> QED BY ONLY <1>6, <1>7, <1>8
<1> QED BY <1>9 DEF p, P

(* What the calls use has not been taken out.                              *)
LEMMA WalkIsLive ==
  ASSUME NEW N, NEW D, NEW H, NEW g, NEW T, NEW C, TreeShape(T, C, {}, N, D, H, g),
         NEW q, Walks(q, T), NEW M, NEW F, F = Taken(T, C, M, q), NEW k \in 1 .. Len(q)
  PROVE  /\ q[k].node \notin F
         /\ q[k].node # <<>> => Front(q[k].node) \notin F
         /\ ToSet(Pointers(T, C, F)[q[k].node]) \cap F = {}
<1> DEFINE x == Last(q).node
           y == Append(x, Last(q).i)
           n == q[k].node
<1>1. q # <<>>
  BY EmptySeq DEF Walks, Descends
<1>2. /\ Last(q) = q[Len(q)] /\ Len(q) \in Nat \ {0} /\ n \in Above(x) \cup {x}
      /\ n \in DOMAIN T
  BY <1>1, DescendReturn DEF Walks, Descends
<1>3. x \in Path /\ Last(q).i \in Num /\ n \in Path
  <2>1. Len(q) \in 1 .. Len(q)
    BY ONLY <1>2
  <2> QED BY <1>2, <2>1 DEF Walks, TreeShape, TreeBase
<1>4. y \in Path /\ Above(y) = Above(x) \cup {x}
  BY <1>3, PathAppend
<1> HIDE DEF x, y, n
<1>5. \A a \in Above(y) : a \notin F
  <2>1. \A a \in F : IsBefore(a, y)
    BY <1>1 DEF Taken, x, y
  <2> QED BY <1>4, <2>1, NotBeforeBelow
<1>6. n \notin F
  BY ONLY <1>2, <1>4, <1>5
<1>7. n # <<>> => Front(n) \notin F
  <2> SUFFICES ASSUME n # <<>> PROVE Front(n) \in Above(y)
    BY <1>5
  <2>1. Front(n) \in Above(n)
    BY <1>3, PathAbove
  <2>2. n \in Above(y)
    BY ONLY <1>2, <1>4
  <2>3. Above(n) \subseteq Above(y)
    BY <1>4, <2>2, AboveTransitive
  <2> QED BY <2>1, <2>3
<1>8. ASSUME NEW a \in ToSet(Pointers(T, C, F)[n]) PROVE a \notin F
  <2>1. NoNode \notin F
    <3>1. F \subseteq DOMAIN T /\ DOMAIN T \subseteq Path
      BY DEF Taken, TreeShape, TreeBase
    <3> QED BY <3>1, NoPath
  <2> QED BY <1>2, <2>1 DEF ToSet, Pointers
<1> QED BY <1>6, <1>7, <1>8 DEF n

(* The tree that is pruned                                                 *)
LEMMA CleanTree ==
  ASSUME NEW N, NEW D, NEW H, NEW g, GraphInv(N, D, H, g), pc = "clean"
  PROVE  TreeShape(tree, child_nodes, {}, N, D, H, g)
<1>1. /\ todo = <<>> /\ outcome = "running"
      /\ TreeShape(tree, child_nodes, Pending, N, D, H, g)
  BY DEF GraphInv, ControlInv, StateInv, IsPruned, WholeInv
<1>2. ToSet(todo) = {}
  BY <1>1 DEF ToSet
<1> QED BY <1>1, <1>2 DEF Pending, NotStarted

(* While file_remove_unnecessary_nodes() runs                              *)
RemoveInv(N, D, H, g) ==
  /\ pc = "clean" /\ GraphInv(N, D, H, g)
  /\ Walks(stack, tree)
  /\ freed = Taken(tree, child_nodes, changed_dp, stack)
  /\ children = Pointers(tree, child_nodes, freed)

LEMMA RemovedIsTaken ==
  ASSUME NEW n
  PROVE  IsRemoved(n) <=> IsTaken(tree, child_nodes, changed_dp, n)
BY DEF IsRemoved, IsTarget, IsTaken

(* The call for a child                                                    *)
LEMMA VisitChildKeeps ==
  ASSUME NEW N, NEW D, NEW H, NEW g, RemoveInv(N, D, H, g), VisitChild
  PROVE  RemoveInv(N, D, H, g)'
<1> DEFINE x == Node
           i == Index
           e == [node |-> x, i |-> i + 1]
           r == Visiting(stack)
<1>1. /\ pc = "clean" /\ GraphInv(N, D, H, g) /\ Walks(stack, tree) /\ stack # <<>>
      /\ TreeShape(tree, child_nodes, {}, N, D, H, g)
      /\ x = Last(stack).node /\ i = Last(stack).i /\ i <= child_nodes[x]
      /\ r = Append(Append(Front(stack), e), Call(Append(x, i)))
  BY CleanTree DEF RemoveInv, VisitChild, Node, Index, Visiting, Calls
<1> HIDE DEF x, i, r
<1>2. /\ i \in 1 .. child_nodes[x] /\ Append(x, i) \in DOMAIN tree
      /\ Walks(r, tree)
      /\ Taken(tree, child_nodes, changed_dp, r) = Taken(tree, child_nodes, changed_dp, stack)
  <2>1. Last(stack).i <= child_nodes[Last(stack).node]
    BY <1>1
  <2>2. HasVisited(stack, Visiting(stack), tree, child_nodes, changed_dp)
    BY ONLY <1>1, <2>1, EnterChild
  <2> QED BY <1>1, <2>2 DEF HasVisited, r
<1>3. x \in DOMAIN tree /\ Append(x, i) \in Path
  <2>1. /\ Last(stack) = stack[Len(stack)] /\ Len(stack) \in Nat \ {0}
    BY <1>1, DescendReturn DEF Walks
  <2>2. Len(stack) \in 1 .. Len(stack)
    BY ONLY <2>1
  <2> QED BY <1>1, <1>2, <2>1, <2>2 DEF Walks, TreeShape, TreeBase
<1>4. children[x][i] = Append(x, i)
  <2>1. Append(x, i) \notin freed
    <3>1. ~IsBefore(Append(x, i), Append(x, i))
      BY <1>3, BeforeIsOrder
    <3> QED BY <1>1, <3>1 DEF RemoveInv, Taken
  <2> QED BY <1>2, <1>3, <2>1 DEF RemoveInv, Pointers
<1>5. stack' = r
  <2>1. children[x][i] # NoNode
    BY <1>3, <1>4, NoPath
  <2>2. stack' = Append(AtNextIndex, Call(children[x][i]))
    BY <2>1 DEF VisitChild, x, i
  <2>3. AtNextIndex = Append(Front(stack), e)
    BY DEF AtNextIndex, x, i
  <2> QED BY <1>1, <1>4, <2>2, <2>3
<1>6. UNCHANGED vars /\ UNCHANGED <<children, freed>>
  BY DEF VisitChild, Working, vars
<1>7. GraphInv(N, D, H, g)'
  BY <1>1, <1>6, GraphStays
<1>8. UNCHANGED <<pc, tree, child_nodes, changed_dp, children, freed>>
  BY <1>6 DEF vars
<1> QED BY <1>1, <1>2, <1>5, <1>7, <1>8 DEF RemoveInv

(* The end of a call, with the node taken out or not                       *)
LEMMA LeaveNodeKeeps ==
  ASSUME NEW N, NEW D, NEW H, NEW g, RemoveInv(N, D, H, g), LeaveNode
  PROVE  RemoveInv(N, D, H, g)'
<1> DEFINE x == Node
           T == tree
           C == child_nodes
           M == changed_dp
           R == {n \in {x} : IsTaken(T, C, M, n)}
<1>1. /\ pc = "clean" /\ GraphInv(N, D, H, g) /\ Walks(stack, T) /\ stack # <<>>
      /\ TreeShape(T, C, {}, N, D, H, g) /\ x = Last(stack).node
      /\ freed = Taken(T, C, M, stack) /\ children = Pointers(T, C, freed)
  BY CleanTree DEF RemoveInv, LeaveNode, Node
<1>2. x \in DOMAIN T /\ Last(stack).i \in Num /\ C[x] \in Nat
  <2>1. /\ Last(stack) = stack[Len(stack)] /\ Len(stack) \in Nat \ {0}
    BY <1>1, DescendReturn DEF Walks
  <2>2. Len(stack) \in 1 .. Len(stack)
    BY ONLY <2>1
  <2> QED BY <1>1, <2>1, <2>2 DEF Walks, TreeShape
<1>3. C[x] < Last(stack).i
  <2>1. CASE ~IsTarget(x)
    <3>1. C[x] = 0
      BY <1>1, <1>2, <2>1 DEF TreeShape, IsTarget
    <3> QED BY ONLY <1>2, <3>1 DEF Num
  <2>2. CASE Index > C[x]
    BY <1>2, <2>2 DEF Index, Num
  <2> QED BY <2>1, <2>2 DEF LeaveNode
<1>4. /\ Walks(Front(stack), T)
      /\ Taken(T, C, M, Front(stack)) = Taken(T, C, M, stack) \cup R
  <2> HIDE DEF x
  <2> QED BY <1>1, <1>3, LeaveCall
<1>5. UNCHANGED vars /\ stack' = Front(stack)
  BY DEF LeaveNode, Working, TakeOut, vars, Return
<1>6. freed' = freed \cup R /\ children' = Pointers(T, C, freed \cup R)
  <2>1. CASE IsRemoved(x) /\ TakeOut(x)
    <3>1. R = {x} /\ x # <<>>
      BY <2>1, RemovedIsTaken DEF IsTaken
    <3>2. Nulled(Pointers(T, C, freed), x) = Pointers(T, C, freed \cup {x})
      BY <1>1, <1>2, <3>1, TakenOut
    <3>3. freed' = freed \cup {x} /\ children' = Nulled(children, x)
      BY <2>1 DEF TakeOut, Nulled
    <3> QED BY <1>1, <3>1, <3>2, <3>3
  <2>2. CASE ~IsRemoved(x) /\ UNCHANGED <<children, freed>>
    <3>1. R = {}
      BY <2>2, RemovedIsTaken
    <3> QED BY <1>1, <2>2, <3>1
  <2> QED BY <2>1, <2>2 DEF LeaveNode
<1>7. UNCHANGED <<pc, tree, child_nodes, changed_dp>>
  BY <1>5 DEF vars
<1>8. GraphInv(N, D, H, g)'
  BY <1>1, <1>5, GraphStays
<1> HIDE DEF R
<1> QED BY <1>1, <1>4, <1>5, <1>6, <1>7, <1>8 DEF RemoveInv

(* The recursion starts, with all the pointers there.                      *)
LEMMA BuildKeeps ==
  ASSUME NEW N, NEW D, NEW H, NEW g, GraphInv(N, D, H, g), freed = {}, Build,
         pc' = "clean"
  PROVE  RemoveInv(N, D, H, g)'
<1>1. GraphInv(N, D, H, g)'
  BY GraphNext DEF Build, Next
<1>2. TreeShape(tree', child_nodes', {}, N, D, H, g)
  <2>1. (GraphInv(N, D, H, g) /\ pc = "clean" => TreeShape(tree, child_nodes, {}, N, D, H, g))'
    BY CleanTree, PTL
  <2> QED BY <1>1, <2>1 DEF TreeShape, TreeBase, BelowIn, LeastClosed, Needs
<1>3. stack' = <<Call(<<>>)>> /\ freed' = {}
  BY DEF Build
<1>4. Walks(stack', tree')
  <2>1. <<>> \in DOMAIN tree' /\ <<>> \in Path
    BY <1>2 DEF TreeShape, TreeBase
  <2>2. Call(<<>>) \in Frame /\ Call(<<>>).node = <<>> /\ Call(<<>>).i = 1
    BY <2>1 DEF Frame, Call
  <2> DEFINE f == Call(<<>>)
  <2> HIDE DEF f
  <2>3. stack' = <<f>>
    BY <1>3 DEF f
  <2>4. stack' \in Seq(Frame) /\ Len(stack') = 1 /\ stack'[1] = f /\ Last(stack') = f
    BY <2>2, <2>3 DEF f, Last
  <2>5. \A k \in 1 .. 1 : k = 1
    OBVIOUS
  <2>6. f.node = <<>> /\ f.i \in Num /\ Len(<<>>) = 1 - 1
    BY <2>2 DEF f, Num
  <2>7. Descends(stack')
    BY ONLY <2>4, <2>5, <2>6 DEF Descends
  <2>8. \A k \in 1 .. 1 - 1 : FALSE
    OBVIOUS
  <2> QED BY ONLY <2>1, <2>4, <2>5, <2>6, <2>7, <2>8 DEF Walks
<1>5. Taken(tree', child_nodes', changed_dp', stack') = {}
  <2>1. Last(stack') = [node |-> <<>>, i |-> 1] /\ stack' # <<>>
    BY <1>3 DEF Call, Last
  <2>2. ASSUME NEW n \in DOMAIN tree' PROVE ~IsBefore(n, Append(<<>>, 1))
    <3>1. n \in Path /\ <<>> \in Path /\ 1 \in Num /\ ~\E j \in Num : j < 1
      BY <1>2 DEF TreeShape, TreeBase, Num
    <3>2. ~IsBefore(n, <<>>)
      BY DEF IsBefore
    <3> QED BY <3>1, <3>2, BeforeChild
  <2> QED BY <2>1, <2>2 DEF Taken
<1>6. children' = Pointers(tree', child_nodes', {})
  BY DEF Build, Pointers
<1> QED BY <1>1, <1>3, <1>4, <1>5, <1>6 DEF RemoveInv

-----------------------------------------------------------------------------
(* Arrays of pointers *)

(* A list that has every member of a set once has as many members.         *)
LEMMA ListCounts ==
  ASSUME NEW X, NEW q \in Seq(X), ListsOnce(q), ToSet(q) = X
  PROVE  IsFiniteSet(X) /\ Cardinality(X) = Len(q)
<1>1. DOMAIN q = 1 .. Len(q) /\ Len(q) \in Nat /\ \A j \in DOMAIN q : q[j] \in X
  BY SeqValues
<1>2. PICK V : V = 1 .. Len(q)
  OBVIOUS
<1>3. IsFiniteSet(V) /\ Cardinality(V) = Len(q)
  <2> DEFINE c == Len(q)
  <2>1. c \in Int /\ 1 \in Int /\ (IF 1 > c THEN 0 ELSE c-1+1) = c
    BY <1>1
  <2> HIDE DEF c
  <2>2. IsFiniteSet(1 .. c) /\ Cardinality(1 .. c) = IF 1 > c THEN 0 ELSE c-1+1
    BY ONLY <2>1, FS_Interval
  <2> QED BY <1>2, <2>1, <2>2 DEF c
<1>4. q \in [V -> X]
  <2>1. q = [j \in DOMAIN q |-> q[j]]
    BY SeqDef
  <2> QED BY ONLY <1>1, <1>2, <2>1
<1>5. q \in Bijection(V, X)
  <2>1. \A j, k \in V : q[j] = q[k] => j = k
    BY <1>1, <1>2 DEF ListsOnce
  <2>2. \A x \in X : \E j \in V : q[j] = x
    BY <1>1, <1>2 DEF ToSet
  <2> QED BY ONLY <1>4, <2>1, <2>2 DEF Bijection, Injection, Surjection, IsInjective
<1>6. ExistsBijection(V, X)
  BY <1>5 DEF ExistsBijection
<1> QED BY ONLY <1>3, <1>6, FS_Bijection

(* What is left of an array: the pointers that are not NULL, each once.    *)
Holds(a, X) == /\ a \in Seq(X \cup {NoNode}) /\ ToSet(a) \ {NoNode} = X
               /\ \A j, k \in DOMAIN a : a[j] = a[k] /\ a[j] # NoNode => j = k
HoldsAll(p, X) == p \in Seq(X) /\ ToSet(p) = X /\ ListsOnce(p)

LEMMA PresentHolds ==
  ASSUME NEW X, NoNode \notin X, NEW a, Holds(a, X)
  PROVE  HoldsAll(Present(a), X)
<1> DEFINE left == {k \in DOMAIN a : a[k] # NoNode}
           R == {s \in left \X left : s[1] < s[2]}
           c == Cardinality(left)
           p == Present(a)
<1>1. DOMAIN a = 1 .. Len(a) /\ Len(a) \in Nat
  BY SeqValues DEF Holds
<1>2. /\ \A k \in left : k \in Nat /\ a[k] \in X
      /\ \A x \in X : \E k \in left : a[k] = x
      /\ \A j, k \in left : a[j] = a[k] => j = k
  <2>1. \A k \in DOMAIN a : a[k] \in X \cup {NoNode} /\ k \in Nat
    BY <1>1, SeqValues DEF Holds
  <2>2. ToSet(a) \ {NoNode} = X
    BY DEF Holds
  <2> QED BY <2>1, <2>2 DEF ToSet, Holds
<1>3. IsFiniteSet(left)
  <2>1. left \in SUBSET Nat /\ \A k \in left : k <= Len(a)
    BY <1>1
  <2> HIDE DEF left
  <2> QED BY ONLY <1>1, <2>1, FS_BoundedSetOfNaturals
<1>4. \A j, k \in left : <<j, k>> \in R <=> j < k
  OBVIOUS
<1> HIDE DEF left, R
<1>5. IsOrder(R, left)
  <2>1. \A j, k, l \in left : /\ ~(j < j) /\ (j < k /\ k < l => j < l)
                              /\ (j # k => j < k \/ k < j)
    BY ONLY <1>2
  <2> QED BY ONLY <1>4, <2>1 DEF IsOrder
<1>6. /\ c \in Nat
      /\ \A j \in 1 .. c : Ranked(R, left, j) \in left
      /\ \A x \in left : \E j \in 1 .. c : Ranked(R, left, j) = x
      /\ \A j, k \in 1 .. c : Ranked(R, left, j) = Ranked(R, left, k) => j = k
  BY <1>3, <1>5, RankedOnce
<1>7. p = [j \in 1 .. c |-> a[Ranked(R, left, j)]]
  <2>1. \A n \in left : {m \in left : m < n} = {m \in left : <<m, n>> \in R}
    BY ONLY <1>4
  <2> DEFINE F(j) == CHOOSE k \in left : Cardinality({l \in left : l < k}) = j - 1
  <2>2. \A j : Ranked(R, left, j) = F(j)
    BY ONLY <2>1 DEF Ranked
  <2>3. p = [j \in 1 .. c |-> a[F(j)]]
    BY DEF Present, left
  <2> HIDE DEF F, c, p
  <2> QED BY ONLY <2>2, <2>3
<1> HIDE DEF c, p
<1>8. PICK V : V = 1 .. c
  OBVIOUS
<1>9. DOMAIN p = V /\ \A j \in V : p[j] = a[Ranked(R, left, j)]
  BY ONLY <1>7, <1>8
<1>10. p \in [V -> X]
  <2>1. p = [j \in V |-> a[Ranked(R, left, j)]]
    BY ONLY <1>7, <1>8
  <2>2. \A j \in V : a[Ranked(R, left, j)] \in X
    BY ONLY <1>2, <1>6, <1>8
  <2> QED BY ONLY <2>1, <2>2
<1>11. p \in Seq(X)
  BY ONLY <1>6, <1>8, <1>10, SeqDef
<1>12. ListsOnce(p)
  <2>1. ASSUME NEW j \in V, NEW k \in V, p[j] = p[k] PROVE j = k
    <3>1. Ranked(R, left, j) \in left /\ Ranked(R, left, k) \in left
      BY ONLY <1>6, <1>8, j \in V, k \in V
    <3>2. a[Ranked(R, left, j)] = a[Ranked(R, left, k)]
      BY <1>9, <2>1
    <3>3. Ranked(R, left, j) = Ranked(R, left, k)
      BY ONLY <1>2, <3>1, <3>2
    <3> QED BY ONLY <1>6, <1>8, <3>3, j \in V, k \in V
  <2> QED BY ONLY <1>9, <2>1 DEF ListsOnce
<1>13. ToSet(p) = X
  <2>1. ASSUME NEW x \in X PROVE \E j \in V : p[j] = x
    <3>1. PICK k \in left : a[k] = x
      BY <1>2
    <3>2. PICK j \in V : Ranked(R, left, j) = k
      BY ONLY <1>6, <1>8, <3>1
    <3> QED BY <1>9, <3>1, <3>2
  <2>2. \A j \in V : p[j] \in X
    BY ONLY <1>10
  <2> QED BY ONLY <1>9, <2>1, <2>2 DEF ToSet
<1> QED BY <1>11, <1>12, <1>13 DEF p, HoldsAll

-----------------------------------------------------------------------------
(* The second recursion: K are the nodes that are left, of which those in  *)
(* S have been counted.                                                    *)

KidsIn(K, n) == {c \in K \ {<<>>} : Front(c) = n}
AtOrAbove(n) == Above(n) \cup {n}
IsUpper(K) == K \subseteq Path /\ <<>> \in K /\ \A n \in K : Above(n) \subseteq K

(* A call in whose course node n is counted, if its array is A             *)
LeadsTo(f, A, n) ==
  \/ f.i = 0 /\ f.node \in AtOrAbove(n)
  \/ f.i > 0 /\ \E j \in DOMAIN A : j >= f.i /\ A[j] \in AtOrAbove(n)

Counts(K, S, q, A, c) ==
  /\ S \subseteq K /\ K \subseteq DOMAIN A /\ K \subseteq DOMAIN c
  /\ Descends(q)
  /\ \A k \in 1 .. Len(q) : q[k].node \in K /\ (q[k].i > 0 => q[k].node \in S)
  /\ \A n \in K : Holds(A[n], KidsIn(K, n))
  /\ \A n \in S : NoNode \notin ToSet(A[n]) /\ c[n] = Len(A[n])
  /\ \A n \in K \ S : \E k \in 1 .. Len(q) : LeadsTo(q[k], A[q[k].node], n)

(* The top call goes on with e.                                            *)
GoesOn(q, e, r) ==
  /\ Descends(r) /\ r # <<>> /\ Last(r) = e /\ Len(r) = Len(q) /\ r[Len(q)] = e
  /\ \A k \in 1 .. Len(q) - 1 : r[k] = q[k]

LEMMA DescendGoesOn ==
  ASSUME NEW q, Descends(q), q # <<>>, NEW e \in Frame, e.node = Last(q).node
  PROVE  GoesOn(q, e, Append(Front(q), e))
<1> DEFINE b == Front(q)
           r == Append(b, e)
           L == Len(q)
<1>1. /\ L \in Nat \ {0} /\ Last(q) = q[L]
      /\ b \in Seq(Frame) /\ Len(b) = L - 1
      /\ \A k \in 1 .. L - 1 : b[k] = q[k]
  BY FrontOf DEF Descends
<1> HIDE DEF b, L
<1>2. /\ r \in Seq(Frame) /\ r # <<>> /\ Len(r) = Len(b) + 1 /\ Len(b) \in Nat
      /\ \A k \in 1 .. Len(b) : r[k] = b[k]
      /\ r[Len(b) + 1] = e
  <2>1. b \in Seq(Frame)
    BY <1>1
  <2> HIDE DEF r
  <2>2. r = Append(b, e)
    BY DEF r
  <2> QED BY ONLY <2>1, <2>2, e \in Frame, PutOnTop
<1> HIDE DEF r
<1>3. (L - 1) + 1 = L
  BY ONLY <1>1
<1>4. /\ r \in Seq(Frame) /\ r # <<>> /\ Len(r) = L /\ r[L] = e
      /\ \A k \in 1 .. L - 1 : r[k] = q[k]
  BY ONLY <1>1, <1>2, <1>3
<1>5. Last(r) = e
  BY <1>4 DEF Last
<1>6. ASSUME NEW k \in 1 .. L
      PROVE  Len(r[k].node) = k - 1 /\ r[k].node \in Above(e.node) \cup {e.node}
  <2>1. Len(q[k].node) = k - 1 /\ q[k].node \in Above(e.node) \cup {e.node}
    BY DEF Descends, L
  <2>2. r[k].node = q[k].node
    <3>1. k = L \/ k \in 1 .. L - 1
      BY ONLY <1>1, k \in 1 .. L
    <3>2. r[L].node = q[L].node
      BY <1>1, <1>4
    <3> QED BY ONLY <1>4, <3>1, <3>2
  <2> QED BY <2>1, <2>2
<1>7. Descends(r)
  BY ONLY <1>4, <1>5, <1>6 DEF Descends
<1> QED BY ONLY <1>4, <1>5, <1>7 DEF GoesOn, L, r, b

(* The child of a node that another node of K below it is below, or is     *)
LEMMA KidBetween ==
  ASSUME NEW K, IsUpper(K), NEW n \in K, NEW x \in Above(n)
  PROVE  \E c \in KidsIn(K, x) : c \in AtOrAbove(n)
<1>1. n \in Path /\ x \in K /\ x \in Path /\ Above(n) \subseteq K
  BY DEF IsUpper
<1>2. PICK j \in Num : Append(x, j) \in Above(n) \cup {n}
  BY <1>1, ChildBetween
<1>3. Append(x, j) \in K /\ Append(x, j) # <<>> /\ Front(Append(x, j)) = x
  BY <1>1, <1>2, PathAppend
<1> QED BY <1>2, <1>3 DEF KidsIn, AtOrAbove

(* A call of file_update_children_count() puts a node's pointers together  *)
(* and counts them.  The nodes below it are still to come.                 *)
AfterOne(q, p) ==
  IF p = <<>> THEN Front(q)
  ELSE Append(Front(q), [node |-> Last(q).node, i |-> Last(q).i + 1])
Replaced(A, x, p) == [A EXCEPT ![x] = p]

LEMMA CountOne ==
  ASSUME NEW K, IsUpper(K), NEW S, NEW q, NEW A, NEW c, Counts(K, S, q, A, c), q # <<>>,
         NEW x, x = Last(q).node, Last(q).i = 0, NEW p, p = Present(A[x])
  PROVE  Counts(K, S \cup {x}, AfterOne(q, p), Replaced(A, x, p), Replaced(c, x, Len(p)))
<1> USE DEF AfterOne, Replaced
<1> DEFINE L == Len(q)
           e == [node |-> x, i |-> 1]
           r == AfterOne(q, p)
           A2 == Replaced(A, x, p)
           c2 == Replaced(c, x, Len(p))
<1>1. /\ L \in Nat \ {0} /\ Last(q) = q[L] /\ L \in 1 .. L
      /\ Descends(Front(q)) /\ Len(Front(q)) = L - 1
      /\ \A k \in 1 .. L - 1 : Front(q)[k] = q[k] /\ k \in 1 .. L
      /\ Last(q) \in Frame /\ Len(x) = L - 1
  <2>1. /\ L \in Nat \ {0} /\ Last(q) = q[L]
        /\ Descends(Front(q)) /\ Len(Front(q)) = L - 1
        /\ \A k \in 1 .. L - 1 : Front(q)[k] = q[k]
        /\ Last(q) \in Frame /\ Len(x) = L - 1
    BY DescendReturn DEF Counts
  <2> HIDE DEF L
  <2>2. L \in 1 .. L /\ \A k \in 1 .. L - 1 : k \in 1 .. L
    BY ONLY <2>1
  <2> QED BY <2>1, <2>2
<1>2. x \in K /\ x \in Path /\ q[L].node = x /\ q[L].i = 0
  BY <1>1 DEF Counts, IsUpper
<1>3. NoNode \notin K /\ \A n : NoNode \notin KidsIn(K, n)
  BY NoPath DEF IsUpper, KidsIn
<1>4. HoldsAll(p, KidsIn(K, x)) /\ Holds(A[x], KidsIn(K, x))
  <2>1. Holds(A[x], KidsIn(K, x))
    BY <1>2 DEF Counts
  <2> QED BY <1>3, <2>1, PresentHolds
<1>5. /\ DOMAIN A2 = DOMAIN A /\ DOMAIN c2 = DOMAIN c
      /\ A2[x] = p /\ c2[x] = Len(p)
      /\ \A n \in K \ {x} : A2[n] = A[n] /\ c2[n] = c[n]
  BY <1>2 DEF Counts
<1> HIDE DEF A2, c2
<1>6. Holds(p, KidsIn(K, x)) /\ NoNode \notin ToSet(p)
  <2> PICK X : X = KidsIn(K, x)
    OBVIOUS
  <2>1. p \in Seq(X) /\ ToSet(p) = X /\ ListsOnce(p) /\ NoNode \notin X
    BY ONLY <1>3, <1>4, X = KidsIn(K, x) DEF HoldsAll
  <2>2. p \in Seq(X \cup {NoNode})
    BY <2>1, SeqValues, SeqDef
  <2> QED BY ONLY <2>1, <2>2, X = KidsIn(K, x) DEF Holds, ListsOnce
<1>7. CASE p = <<>>
  <2>1. r = Front(q)
    BY <1>7
  <2> HIDE DEF r
  <2>2. \A k \in 1 .. L - 1 : r[k] = q[k]
    BY ONLY <1>1, <2>1
  <2>3. KidsIn(K, x) = {}
    BY <1>4, <1>7 DEF HoldsAll, ToSet
  <2>4. ASSUME NEW n \in K \ (S \cup {x})
        PROVE  \E k \in 1 .. Len(r) : LeadsTo(r[k], A2[r[k].node], n)
    <3>1. PICK k \in 1 .. L : LeadsTo(q[k], A[q[k].node], n)
      BY DEF Counts
    <3>2. k # L
      <4> SUFFICES ASSUME k = L PROVE FALSE
        OBVIOUS
      <4>1. x \in AtOrAbove(n)
        BY <1>2, <3>1 DEF LeadsTo
      <4>2. x \in Above(n)
        BY <4>1 DEF AtOrAbove
      <4> QED BY <2>3, <4>2, KidBetween
    <3>3. k \in 1 .. L - 1
      BY ONLY <1>1, <3>2, k \in 1 .. L
    <3>4. q[k].node \in K /\ q[k].node # x
      <4>1. q[k].node \in K /\ Len(q[k].node) = k - 1
        BY DEF Counts, Descends
      <4>2. k - 1 # L - 1
        BY ONLY <1>1, <3>3
      <4> QED BY ONLY <1>1, <4>1, <4>2
    <3> QED BY ONLY <1>1, <1>5, <2>1, <2>2, <3>1, <3>3, <3>4
  <2>5. ASSUME NEW k \in 1 .. Len(r)
        PROVE  r[k].node \in K /\ (r[k].i > 0 => r[k].node \in S)
    <3>1. k \in 1 .. L /\ r[k] = q[k]
      BY ONLY <1>1, <2>1, <2>2
    <3> QED BY <3>1 DEF Counts
  <2>6. S \subseteq K /\ K \subseteq DOMAIN A /\ K \subseteq DOMAIN c
        /\ (\A n \in K : Holds(A[n], KidsIn(K, n)))
        /\ \A n \in S : NoNode \notin ToSet(A[n]) /\ c[n] = Len(A[n])
    BY DEF Counts
  <2> QED BY ONLY <1>1, <1>2, <1>5, <1>6, <2>1, <2>4, <2>5, <2>6 DEF Counts, r, A2, c2
<1>8. CASE p # <<>>
  <2>1. GoesOn(q, e, r)
    <3>1. e \in Frame /\ e.node = Last(q).node
      BY <1>2 DEF Frame
    <3>2. Descends(q)
      BY DEF Counts
    <3>3. r = Append(Front(q), e)
      BY <1>8
    <3> HIDE DEF e
    <3>4. GoesOn(q, e, Append(Front(q), e))
      BY ONLY <3>1, <3>2, q # <<>>, DescendGoesOn
    <3> QED BY ONLY <3>3, <3>4
  <2> HIDE DEF r
  <2>2. /\ Descends(r) /\ Len(r) = L /\ r[L].node = x /\ r[L].i = 1
        /\ \A k \in 1 .. L - 1 : r[k] = q[k]
    BY <2>1 DEF GoesOn
  <2>3. ASSUME NEW n \in K \ (S \cup {x})
        PROVE  \E k \in 1 .. Len(r) : LeadsTo(r[k], A2[r[k].node], n)
    <3>1. PICK k \in 1 .. L : LeadsTo(q[k], A[q[k].node], n)
      BY DEF Counts
    <3>2. CASE k = L
      <4>1. x \in AtOrAbove(n)
        BY <1>2, <3>1, <3>2 DEF LeadsTo
      <4>2. x \in Above(n)
        BY <4>1 DEF AtOrAbove
      <4>3. PICK z \in KidsIn(K, x) : z \in AtOrAbove(n)
        BY <4>2, KidBetween
      <4>4. PICK j \in DOMAIN p : p[j] = z
        BY <1>4, <4>3 DEF HoldsAll, ToSet
      <4>5. j >= 1
        <5>1. DOMAIN p = 1 .. Len(p) /\ Len(p) \in Nat
          BY <1>4, SeqValues DEF HoldsAll
        <5> QED BY ONLY <5>1, j \in DOMAIN p
      <4>6. LeadsTo(r[L], A2[r[L].node], n)
        BY ONLY <1>5, <2>2, <4>3, <4>4, <4>5 DEF LeadsTo
      <4> QED BY ONLY <1>1, <2>2, <4>6
    <3>3. CASE k # L
      <4>1. k \in 1 .. L - 1
        BY ONLY <1>1, <3>3, k \in 1 .. L
      <4>2. q[k].node \in K /\ q[k].node # x
        <5>1. q[k].node \in K /\ Len(q[k].node) = k - 1
          BY DEF Counts, Descends
        <5>2. k - 1 # L - 1
          BY ONLY <1>1, <4>1
        <5> QED BY ONLY <1>1, <5>1, <5>2
      <4> QED BY ONLY <1>1, <1>5, <2>2, <3>1, <4>1, <4>2
    <3> QED BY <3>2, <3>3
  <2>4. ASSUME NEW k \in 1 .. Len(r)
        PROVE  r[k].node \in K /\ (r[k].i > 0 => r[k].node \in S \cup {x})
    <3>1. k = L \/ k \in 1 .. L - 1
      BY ONLY <1>1, <2>2, k \in 1 .. Len(r)
    <3>2. CASE k \in 1 .. L - 1
      <4>1. k \in 1 .. L /\ r[k] = q[k]
        BY ONLY <1>1, <2>2, <3>2
      <4> QED BY <4>1 DEF Counts
    <3> QED BY ONLY <1>2, <2>2, <3>1, <3>2
  <2>5. S \subseteq K /\ K \subseteq DOMAIN A /\ K \subseteq DOMAIN c
        /\ (\A n \in K : Holds(A[n], KidsIn(K, n)))
        /\ \A n \in S : NoNode \notin ToSet(A[n]) /\ c[n] = Len(A[n])
    BY DEF Counts
  <2> QED BY ONLY <1>1, <1>2, <1>5, <1>6, <2>2, <2>3, <2>4, <2>5 DEF Counts, r, A2, c2
<1> HIDE DEF AfterOne, Replaced
<1> QED BY <1>7, <1>8

(* The end of a loop: all that is below the node has been counted.         *)
LEMMA CountReturns ==
  ASSUME NEW K, IsUpper(K), NEW S, NEW q, NEW A, NEW c, Counts(K, S, q, A, c), q # <<>>,
         NEW x, x = Last(q).node, Last(q).i > 0, Last(q).i > c[x]
  PROVE  Counts(K, S, Front(q), A, c)
<1> DEFINE L == Len(q)
           r == Front(q)
<1>1. /\ L \in Nat \ {0} /\ Last(q) = q[L] /\ L \in 1 .. L
      /\ Descends(r) /\ Len(r) = L - 1
      /\ \A k \in 1 .. L - 1 : r[k] = q[k] /\ k \in 1 .. L
      /\ Last(q).i \in Nat
  <2>1. /\ L \in Nat \ {0} /\ Last(q) = q[L]
        /\ Descends(r) /\ Len(r) = L - 1
        /\ \A k \in 1 .. L - 1 : r[k] = q[k]
        /\ Last(q) \in Frame
    BY DescendReturn DEF Counts
  <2>2. Last(q).i \in Nat
    BY <2>1 DEF Frame
  <2> HIDE DEF L, r
  <2>3. L \in 1 .. L /\ \A k \in 1 .. L - 1 : k \in 1 .. L
    BY ONLY <2>1
  <2> QED BY <2>1, <2>2, <2>3
<1>2. x \in S /\ x \in K /\ Last(q).i > Len(A[x])
  BY <1>1 DEF Counts
<1>3. DOMAIN A[x] = 1 .. Len(A[x]) /\ Len(A[x]) \in Nat
  <2>1. Holds(A[x], KidsIn(K, x))
    BY <1>2 DEF Counts
  <2> QED BY <2>1, SeqValues DEF Holds
<1>4. ASSUME NEW n \in K \ S
      PROVE  \E k \in 1 .. Len(r) : LeadsTo(r[k], A[r[k].node], n)
  <2>1. PICK k \in 1 .. L : LeadsTo(q[k], A[q[k].node], n)
    BY DEF Counts
  <2>2. k # L
    <3> SUFFICES ASSUME k = L PROVE FALSE
      OBVIOUS
    <3>1. PICK j \in DOMAIN A[x] : j >= Last(q).i
      BY <1>1, <2>1 DEF LeadsTo
    <3> QED BY ONLY <1>1, <1>2, <1>3, <3>1
  <2>3. k \in 1 .. L - 1
    BY ONLY <1>1, <2>2, k \in 1 .. L
  <2> QED BY ONLY <1>1, <2>1, <2>3
<1>5. ASSUME NEW k \in 1 .. Len(r)
      PROVE  r[k].node \in K /\ (r[k].i > 0 => r[k].node \in S)
  <2>1. k \in 1 .. L /\ r[k] = q[k]
    BY ONLY <1>1, k \in 1 .. Len(r)
  <2> QED BY <2>1 DEF Counts
<1>6. S \subseteq K /\ K \subseteq DOMAIN A /\ K \subseteq DOMAIN c
      /\ (\A n \in K : Holds(A[n], KidsIn(K, n)))
      /\ \A n \in S : NoNode \notin ToSet(A[n]) /\ c[n] = Len(A[n])
  BY DEF Counts
<1> QED BY ONLY <1>1, <1>4, <1>5, <1>6 DEF Counts, r

(* A turn of the loop makes the call for the child.                        *)
LEMMA CountDescends ==
  ASSUME NEW K, IsUpper(K), NEW S, NEW q, NEW A, NEW c, Counts(K, S, q, A, c), q # <<>>,
         NEW x, x = Last(q).node, NEW i, i = Last(q).i, i > 0, i <= c[x]
  PROVE  Counts(K, S, Calls(q, [node |-> x, i |-> i + 1], [node |-> A[x][i], i |-> 0]), A, c)
<1> DEFINE L == Len(q)
           e == [node |-> x, i |-> i + 1]
           z == A[x][i]
           f == [node |-> z, i |-> 0]
           r == Calls(q, e, f)
<1>1. /\ L \in Nat \ {0} /\ Last(q) = q[L] /\ L \in 1 .. L /\ i \in Nat
      /\ \A k \in 1 .. L - 1 : k \in 1 .. L
  <2>1. L \in Nat \ {0} /\ Last(q) = q[L] /\ Last(q) \in Frame
    BY DescendReturn DEF Counts
  <2>2. i \in Nat
    BY <2>1 DEF Frame
  <2> HIDE DEF L
  <2>3. L \in 1 .. L /\ \A k \in 1 .. L - 1 : k \in 1 .. L
    BY ONLY <2>1
  <2> QED BY <2>1, <2>2, <2>3
<1>2. /\ x \in S /\ x \in K /\ i <= Len(A[x]) /\ Holds(A[x], KidsIn(K, x))
      /\ NoNode \notin ToSet(A[x])
  BY <1>1 DEF Counts
<1>3. DOMAIN A[x] = 1 .. Len(A[x]) /\ Len(A[x]) \in Nat
  BY <1>2, SeqValues DEF Holds
<1>4. i \in DOMAIN A[x]
  BY ONLY <1>1, <1>2, <1>3, i > 0
<1>5. z \in KidsIn(K, x)
  <2>1. z \in ToSet(A[x])
    BY <1>4 DEF ToSet
  <2> HIDE DEF z
  <2> QED BY <1>2, <2>1 DEF Holds
<1>6. /\ x \in Path /\ z \in K /\ z \in Path /\ z # <<>> /\ Front(z) = x
      /\ Last(z) \in Num /\ z = Append(x, Last(z))
  <2>1. z \in K /\ z # <<>> /\ Front(z) = x /\ K \subseteq Path
    BY <1>5 DEF KidsIn, IsUpper
  <2> HIDE DEF z
  <2> QED BY <1>2, <2>1, PathFront
<1> HIDE DEF z
<1>7. HasCalled(q, e, f, r)
  <2>1. e \in Frame /\ e.node = Last(q).node
    <3>1. i + 1 \in Nat
      BY ONLY <1>1
    <3> QED BY <1>6, <3>1 DEF Frame
  <2>2. f \in Frame
    BY <1>6 DEF Frame
  <2>3. f.node = Append(e.node, Last(z))
    BY <1>6
  <2>4. Descends(q)
    BY DEF Counts
  <2>5. Last(z) \in Num
    BY <1>6
  <2> HIDE DEF e, f
  <2> QED BY ONLY <2>1, <2>2, <2>3, <2>4, <2>5, q # <<>>, DescendStep DEF r
<1>8. /\ Descends(r) /\ Len(r) = L + 1 /\ r[L] = e /\ r[L + 1] = f
      /\ \A k \in 1 .. L - 1 : r[k] = q[k]
  <2> HIDE DEF e, f, r
  <2>1. Last(r) = r[Len(r)]
    BY DEF Last
  <2> QED BY <1>7, <2>1 DEF HasCalled
<1>9. e.node = x /\ e.i = i + 1 /\ f.node = z /\ f.i = 0 /\ i + 1 > 0
  BY <1>1
<1> HIDE DEF e, f, r
<1>10. ASSUME NEW n \in K \ S
       PROVE  \E k \in 1 .. Len(r) : LeadsTo(r[k], A[r[k].node], n)
  <2>1. PICK k \in 1 .. L : LeadsTo(q[k], A[q[k].node], n)
    BY DEF Counts
  <2>2. CASE k # L
    <3>1. k \in 1 .. L - 1 /\ k \in 1 .. Len(r)
      BY ONLY <1>1, <1>8, <2>2, k \in 1 .. L
    <3> QED BY ONLY <1>8, <2>1, <3>1
  <2>3. CASE k = L
    <3>1. PICK j \in DOMAIN A[x] : j >= i /\ A[x][j] \in AtOrAbove(n)
      BY <1>1, <2>1, <2>3 DEF LeadsTo
    <3>2. CASE j = i
      <4>1. LeadsTo(r[L + 1], A[r[L + 1].node], n)
        BY ONLY <1>8, <1>9, <3>1, <3>2 DEF LeadsTo, z
      <4>2. L + 1 \in 1 .. Len(r)
        BY ONLY <1>1, <1>8
      <4> QED BY <4>1, <4>2
    <3>3. CASE j # i
      <4>1. j >= i + 1
        BY ONLY <1>1, <1>3, <3>1, <3>3, j \in DOMAIN A[x]
      <4>2. LeadsTo(r[L], A[r[L].node], n)
        BY ONLY <1>8, <1>9, <3>1, <4>1, j \in DOMAIN A[x] DEF LeadsTo
      <4>3. L \in 1 .. Len(r)
        BY ONLY <1>1, <1>8
      <4> QED BY <4>2, <4>3
    <3> QED BY <3>2, <3>3
  <2> QED BY <2>2, <2>3
<1>11. ASSUME NEW k \in 1 .. Len(r)
       PROVE  r[k].node \in K /\ (r[k].i > 0 => r[k].node \in S)
  <2>1. k \in 1 .. L - 1 \/ k = L \/ k = L + 1
    BY ONLY <1>1, <1>8, k \in 1 .. Len(r)
  <2>2. CASE k \in 1 .. L - 1
    <3>1. k \in 1 .. L /\ r[k] = q[k]
      BY ONLY <1>1, <1>8, <2>2
    <3> QED BY <3>1 DEF Counts
  <2>3. CASE k = L
    BY ONLY <1>2, <1>8, <1>9, <2>3
  <2>4. CASE k = L + 1
    BY ONLY <1>6, <1>8, <1>9, <2>4
  <2> QED BY <2>1, <2>2, <2>3, <2>4
<1>12. S \subseteq K /\ K \subseteq DOMAIN A /\ K \subseteq DOMAIN c
       /\ (\A n \in K : Holds(A[n], KidsIn(K, n)))
       /\ \A n \in S : NoNode \notin ToSet(A[n]) /\ c[n] = Len(A[n])
  BY DEF Counts
<1>13. Counts(K, S, r, A, c)
  BY ONLY <1>8, <1>10, <1>11, <1>12 DEF Counts
<1> QED BY <1>13 DEF r, e, f, z

(* What is left of a tree: every node that the first recursion took        *)
(* nothing at or above of                                                  *)
LEMMA KeptIsUpper ==
  ASSUME NEW N, NEW D, NEW H, NEW g, NEW T, NEW C, TreeShape(T, C, {}, N, D, H, g),
         NEW M, NEW K, K = Kept(T, C, M)
  PROVE  /\ IsUpper(K) /\ K \subseteq DOMAIN T
         /\ \A n \in K : ~IsTaken(T, C, M, n)
         /\ \A n \in DOMAIN T \ {<<>>} : n \in K <=> Front(n) \in K /\ ~IsTaken(T, C, M, n)
<1>1. /\ DOMAIN T \subseteq Path /\ <<>> \in DOMAIN T /\ C \in [DOMAIN T -> Nat]
      /\ \A n \in DOMAIN T : \A a \in Above(n) : a \in DOMAIN T
  BY DEF TreeShape, TreeBase
<1>2. K = {n \in DOMAIN T : \A a \in Above(n) \cup {n} : ~IsTaken(T, C, M, a)}
  BY DEF Kept, IsTaken
<1>3. ASSUME NEW n \in K, NEW a \in Above(n) PROVE a \in K
  <2>1. Above(a) \subseteq Above(n)
    BY <1>1, <1>2, AboveTransitive
  <2> QED BY <1>1, <1>2, <2>1
<1>4. <<>> \in K
  BY <1>1, <1>2, PathRoot DEF IsTaken
<1>5. ASSUME NEW n \in DOMAIN T \ {<<>>}
      PROVE  n \in K <=> Front(n) \in K /\ ~IsTaken(T, C, M, n)
  <2>1. Above(n) = Above(Front(n)) \cup {Front(n)} /\ Front(n) \in DOMAIN T
    <3>1. Above(n) = Above(Front(n)) \cup {Front(n)}
      BY <1>1, PathAbove
    <3> QED BY <1>1, <3>1
  <2> QED BY ONLY <1>2, <2>1, n \in DOMAIN T \ {<<>>}
<1> QED BY <1>1, <1>2, <1>3, <1>4, <1>5 DEF IsUpper

(* The arrays as the first recursion leaves them have the children that    *)
(* are left.                                                               *)
LEMMA PointersHold ==
  ASSUME NEW N, NEW D, NEW H, NEW g, NEW T, NEW C, TreeShape(T, C, {}, N, D, H, g),
         NEW M, NEW K, K = Kept(T, C, M),
         NEW F, F = {n \in DOMAIN T : IsTaken(T, C, M, n)}, NEW n \in K
  PROVE  Holds(Pointers(T, C, F)[n], KidsIn(K, n))
<1> DEFINE a == Pointers(T, C, F)[n]
           X == KidsIn(K, n)
<1>1. /\ IsUpper(K) /\ K \subseteq DOMAIN T
      /\ \A m \in DOMAIN T \ {<<>>} : m \in K <=> Front(m) \in K /\ ~IsTaken(T, C, M, m)
  BY KeptIsUpper
<1>2. /\ n \in DOMAIN T /\ n \in Path /\ C[n] \in Nat /\ DOMAIN T \subseteq Path
      /\ \A j \in Num : Append(n, j) \in DOMAIN T <=> j \in 1 .. C[n]
  BY <1>1 DEF TreeShape, TreeBase
<1>3. DOMAIN a = 1 .. C[n]
      /\ \A j \in 1 .. C[n] : a[j] = IF Append(n, j) \in F THEN NoNode ELSE Append(n, j)
  BY <1>2 DEF Pointers
<1>4. PICK V : V = 1 .. C[n]
  OBVIOUS
<1>5. ASSUME NEW j \in V
      PROVE  /\ Append(n, j) \in X <=> Append(n, j) \notin F
             /\ Append(n, j) # NoNode /\ Last(Append(n, j)) = j
  <2>1. j \in Num
    BY <1>2, <1>4 DEF Num
  <2>2. /\ Append(n, j) \in Path /\ Append(n, j) # <<>> /\ Front(Append(n, j)) = n
        /\ Last(Append(n, j)) = j
    BY <1>2, <2>1, PathAppend
  <2>3. Append(n, j) \in DOMAIN T
    BY <1>2, <1>4, <2>1
  <2>4. Append(n, j) # NoNode
    BY <2>2, NoPath
  <2>5. Append(n, j) \in F <=> IsTaken(T, C, M, Append(n, j))
    BY <2>3
  <2> QED BY <1>1, <2>2, <2>3, <2>4, <2>5 DEF KidsIn
<1>6. DOMAIN a = V /\ \A j \in V : a[j] = IF Append(n, j) \in F THEN NoNode ELSE Append(n, j)
  BY ONLY <1>3, <1>4
<1> HIDE DEF a, X
<1>7. \A j \in V : a[j] \in X \cup {NoNode}
  BY ONLY <1>5, <1>6
<1>8. \A j \in V : a[j] # NoNode => a[j] = Append(n, j)
  BY ONLY <1>6
<1>9. a \in Seq(X \cup {NoNode})
  <2>1. a = [j \in V |-> a[j]]
    BY <1>2, <1>4 DEF a, Pointers
  <2>2. a \in [V -> X \cup {NoNode}]
    BY ONLY <1>7, <2>1
  <2> QED BY ONLY <1>2, <1>4, <2>2, SeqDef
<1>10. ASSUME NEW j \in V, NEW k \in V, a[j] = a[k], a[j] # NoNode PROVE j = k
  <2>1. Append(n, j) = Append(n, k)
    BY <1>8, <1>10
  <2>2. Last(Append(n, j)) = j /\ Last(Append(n, k)) = k
    BY <1>5
  <2> QED BY ONLY <2>1, <2>2
<1>11. ASSUME NEW c \in X PROVE c \in ToSet(a) \ {NoNode}
  <2>1. c \in K /\ c \in Path /\ c # <<>> /\ Front(c) = n /\ c \in DOMAIN T
    BY <1>1, <1>2 DEF X, KidsIn
  <2>2. Last(c) \in Num /\ c = Append(n, Last(c))
    BY <2>1, PathFront
  <2>3. Last(c) \in V
    BY <1>2, <1>4, <2>1, <2>2
  <2>4. a[Last(c)] = c
    BY <1>5, <1>6, <2>2, <2>3
  <2>5. c # NoNode
    BY <2>1, NoPath
  <2> QED BY <1>6, <2>3, <2>4, <2>5 DEF ToSet
<1>12. ToSet(a) \ {NoNode} = X
  <2>1. ASSUME NEW c \in ToSet(a) \ {NoNode} PROVE c \in X
    BY <1>6, <1>7 DEF ToSet
  <2> QED BY <1>11, <2>1
<1> QED BY <1>6, <1>9, <1>10, <1>12 DEF Holds, a, X

(* The second recursion starts at the root, above all that is left.        *)
LEMMA CountStarts ==
  ASSUME NEW K, IsUpper(K), NEW A, NEW c, K \subseteq DOMAIN A, K \subseteq DOMAIN c,
         \A n \in K : Holds(A[n], KidsIn(K, n))
  PROVE  Counts(K, {}, <<[node |-> <<>>, i |-> 0]>>, A, c)
<1> DEFINE f == [node |-> <<>>, i |-> 0]
           q == <<f>>
<1>1. <<>> \in K /\ K \subseteq Path
  BY DEF IsUpper
<1>2. f \in Frame /\ f.node = <<>> /\ f.i = 0
  BY <1>1 DEF Frame
<1> HIDE DEF f
<1>3. q \in Seq(Frame) /\ Len(q) = 1 /\ q[1] = f /\ Last(q) = f
  BY <1>2 DEF Last
<1> HIDE DEF q
<1>4. \A k \in 1 .. 1 : k = 1
  OBVIOUS
<1>5. Len(<<>>) = 1 - 1
  OBVIOUS
<1>6. Descends(q)
  BY ONLY <1>2, <1>3, <1>4, <1>5 DEF Descends
<1>7. ASSUME NEW n \in K PROVE LeadsTo(q[1], A[q[1].node], n)
  <2>1. n = <<>> \/ <<>> \in Above(n)
    BY <1>1, RootAbove
  <2> QED BY ONLY <1>2, <1>3, <2>1 DEF LeadsTo, AtOrAbove
<1>8. 1 \in 1 .. Len(q)
  BY ONLY <1>3
<1>9. \A k \in 1 .. Len(q) : q[k].node \in K /\ (q[k].i > 0 => q[k].node \in {})
  BY ONLY <1>1, <1>2, <1>3, <1>4
<1>10. Counts(K, {}, q, A, c)
  BY <1>6, <1>7, <1>8, <1>9 DEF Counts
<1> QED BY <1>10 DEF q, f

(* When it has ended, everything that is left has been counted, and the    *)
(* pointers lead to that.                                                  *)
LEMMA CountEnds ==
  ASSUME NEW K, IsUpper(K), NEW S, NEW A, NEW c, Counts(K, S, <<>>, A, c)
  PROVE  /\ \A n \in K : /\ NoNode \notin ToSet(A[n]) /\ c[n] = Len(A[n])
                         /\ c[n] = Cardinality(KidsIn(K, n))
         /\ \A n \in K : ToSet(A[n]) = KidsIn(K, n)
<1>1. \A k \in 1 .. Len(<<>>) : FALSE
  OBVIOUS
<1>2. K = S
  BY <1>1 DEF Counts
<1>3. ASSUME NEW n \in K PROVE NoNode \notin ToSet(A[n]) /\ c[n] = Len(A[n])
                               /\ ToSet(A[n]) = KidsIn(K, n)
  <2>1. NoNode \notin ToSet(A[n]) /\ c[n] = Len(A[n]) /\ Holds(A[n], KidsIn(K, n))
    BY <1>2 DEF Counts
  <2>2. ToSet(A[n]) \ {NoNode} = KidsIn(K, n)
    BY <2>1 DEF Holds
  <2> QED BY ONLY <2>1, <2>2
<1>4. ASSUME NEW n \in K PROVE Cardinality(KidsIn(K, n)) = Len(A[n])
  <2> DEFINE a == A[n]
             X == KidsIn(K, n)
  <2>1. Holds(a, X) /\ NoNode \notin ToSet(a) /\ ToSet(a) = X
    BY <1>3 DEF Counts
  <2> HIDE DEF a, X
  <2>2. DOMAIN a = 1 .. Len(a) /\ Len(a) \in Nat
    BY <2>1, SeqValues DEF Holds
  <2>3. \A j \in DOMAIN a : a[j] \in X /\ a[j] # NoNode
    BY <2>1 DEF ToSet
  <2>4. a \in Seq(X)
    BY <2>1, <2>2, <2>3, SeqDef DEF Holds
  <2>5. ListsOnce(a)
    BY <2>1, <2>3 DEF Holds, ListsOnce
  <2> QED BY <2>1, <2>4, <2>5, ListCounts DEF a, X
<1> QED BY <1>3, <1>4

-----------------------------------------------------------------------------
(* The inductive invariant *)

(* While file_update_children_count() runs: T was the tree, and C the      *)
(* numbers of children in it, K is what is left, and S has been counted.   *)
CountInv(T, C, K, S, N, D, H, g) ==
  /\ pc = "clean" /\ tree = T
  /\ TreeShape(T, C, {}, N, D, H, g)
  /\ K = Kept(T, C, changed_dp)
  /\ freed = {n \in DOMAIN T : IsTaken(T, C, changed_dp, n)}
  /\ Counts(K, S, stack, children, child_nodes)

DoneInv ==
  /\ \A n \in DOMAIN tree : child_nodes[n] = Len(children[n])
                            /\ NoNode \notin ToSet(children[n])
  /\ DOMAIN tree \cap freed = {}

PruneInv ==
  \/ /\ phase = "none" /\ stack = <<>> /\ freed = {}
     /\ pc \in {"target", "md5", "graph", "mark", "end"}
     /\ \E N, D, H, g : GraphInv(N, D, H, g)
  \/ /\ phase = "remove"
     /\ \E N, D, H, g : RemoveInv(N, D, H, g)
  \/ /\ phase = "count"
     /\ \E T, C, K, S, N, D, H, g : CountInv(T, C, K, S, N, D, H, g)
  \/ /\ phase = "done" /\ stack = <<>> /\ pc \in {"threads", "end"}
     /\ DoneInv

(* The actions before the pruning                                          *)
LEMMA BuildStep ==
  ASSUME PruneInv, Build
  PROVE  PruneInv'
<1>1. pc \in {"target", "md5", "graph", "mark"} /\ pc' \in {"md5", "graph", "mark", "clean", "end"}
  BY DEF Build, FindTarget, CalculateHashes, AddNodes, MarkTargets, Stop, Goto
<1>2. phase = "none" /\ stack = <<>> /\ freed = {}
  BY <1>1 DEF PruneInv, RemoveInv, CountInv
<1>3. PICK N, D, H, g : GraphInv(N, D, H, g)
  BY <1>2 DEF PruneInv
<1>4. CASE pc' = "clean"
  <2>1. RemoveInv(N, D, H, g)'
    BY <1>2, <1>3, <1>4, BuildKeeps
  <2>2. phase' = "remove"
    BY <1>4 DEF Build
  <2> QED BY <2>1, <2>2 DEF PruneInv
<1>5. CASE pc' # "clean"
  <2>1. GraphInv(N, D, H, g)'
    BY <1>3, GraphNext DEF Build, Next
  <2>2. phase' = "none" /\ stack' = <<>> /\ freed' = {}
    BY <1>2, <1>5 DEF Build
  <2> QED BY <1>1, <1>5, <2>1, <2>2 DEF PruneInv
<1> QED BY <1>4, <1>5

(* The second recursion takes over from the first.                         *)
LEMMA StartCountingStep ==
  ASSUME PruneInv, StartCounting
  PROVE  PruneInv'
<1>1. PICK N, D, H, g : RemoveInv(N, D, H, g)
  BY DEF PruneInv, StartCounting
<1>2. PICK T, C, M, K : T = tree /\ C = child_nodes /\ M = changed_dp /\ K = Kept(T, C, M)
  OBVIOUS
<1>3. TreeShape(T, C, {}, N, D, H, g) /\ pc = "clean"
  BY <1>1, <1>2, CleanTree DEF RemoveInv
<1>4. freed = {n \in DOMAIN T : IsTaken(T, C, M, n)} /\ children = Pointers(T, C, freed)
  BY <1>1, <1>2 DEF RemoveInv, Taken, StartCounting
<1>5. /\ UNCHANGED <<pc, tree, changed_dp, children, freed, child_nodes>>
      /\ stack' = <<[node |-> <<>>, i |-> 0]>> /\ phase' = "count"
  BY DEF StartCounting, Working
<1>6. IsUpper(K) /\ K \subseteq DOMAIN T
  BY <1>2, <1>3, KeptIsUpper
<1>7. \A n \in K : Holds(children[n], KidsIn(K, n))
  BY <1>2, <1>3, <1>4, PointersHold
<1>8. K \subseteq DOMAIN children /\ K \subseteq DOMAIN child_nodes
  BY <1>2, <1>3, <1>4, <1>6 DEF Pointers, TreeShape
<1>9. Counts(K, {}, stack', children, child_nodes)
  BY <1>5, <1>6, <1>7, <1>8, CountStarts
<1>10. CountInv(T, C, K, {}, N, D, H, g)'
  BY <1>2, <1>3, <1>4, <1>5, <1>9 DEF CountInv
<1> QED BY <1>5, <1>10 DEF PruneInv

(* A call of file_update_children_count() and the turns of its loop        *)
LEMMA CountStep ==
  ASSUME PruneInv, CountNode \/ CountChild
  PROVE  PruneInv'
<1>1. PICK T, C, K, S, N, D, H, g : CountInv(T, C, K, S, N, D, H, g)
  BY DEF PruneInv, CountNode, CountChild
<1>2. IsUpper(K)
  BY <1>1, KeptIsUpper DEF CountInv
<1>3. UNCHANGED <<pc, tree, changed_dp, freed, phase>> /\ phase = "count" /\ stack # <<>>
  BY DEF CountNode, CountChild, Working
<1>4. Counts(K, S, stack, children, child_nodes)
  BY <1>1 DEF CountInv
<1> DEFINE x == Node
           p == Present(children[x])
<1>5. x = Last(stack).node /\ Index = Last(stack).i
  BY DEF Node, Index
<1>6. SUFFICES \E S2 : Counts(K, S2, stack', children', child_nodes')
  <2> SUFFICES ASSUME NEW S2, Counts(K, S2, stack', children', child_nodes') PROVE PruneInv'
    BY <1>6
  <2>1. CountInv(T, C, K, S2, N, D, H, g)'
    BY <1>1, <1>3 DEF CountInv
  <2> QED BY <1>3, <2>1 DEF PruneInv
<1>7. CASE CountNode
  <2>1. /\ Last(stack).i = 0
        /\ children' = Replaced(children, x, p)
        /\ child_nodes' = Replaced(child_nodes, x, Len(p))
        /\ stack' = AfterOne(stack, p)
    BY <1>5, <1>7 DEF CountNode, NewCount, AfterCounting, Return, AtNextIndex,
                      AfterOne, Replaced
  <2> HIDE DEF x, p
  <2>2. p = Present(children[x])
    BY DEF p
  <2>3. Counts(K, S \cup {x}, AfterOne(stack, p), Replaced(children, x, p),
               Replaced(child_nodes, x, Len(p)))
    BY <1>2, <1>3, <1>4, <1>5, <2>1, <2>2, CountOne
  <2> QED BY <2>1, <2>3
<1>8. CASE CountChild
  <2>1. /\ UNCHANGED <<children, child_nodes>> /\ Last(stack).i > 0
        /\ stack' = IF Last(stack).i > child_nodes[x] THEN Front(stack)
                    ELSE Calls(stack, [node |-> x, i |-> Last(stack).i + 1],
                               [node |-> children[x][Last(stack).i], i |-> 0])
    BY <1>5, <1>8 DEF CountChild, Return, AtNextIndex, Calls
  <2> HIDE DEF x
  <2>2. Counts(K, S, stack', children, child_nodes)
    <3>1. CASE Last(stack).i > child_nodes[x]
      <4>1. Counts(K, S, Front(stack), children, child_nodes)
        BY <1>2, <1>3, <1>4, <1>5, <2>1, <3>1, CountReturns
      <4> QED BY <2>1, <3>1, <4>1
    <3>2. CASE ~(Last(stack).i > child_nodes[x])
      <4>1. Last(stack).i <= child_nodes[x]
        <5>1. Last(stack).i \in Nat
          BY <1>3, <1>4, DescendReturn DEF Counts, Frame
        <5>2. x \in S
          <6>1. Len(stack) \in Nat \ {0} /\ Last(stack) = stack[Len(stack)]
            BY <1>3, <1>4, DescendReturn DEF Counts
          <6>2. Len(stack) \in 1 .. Len(stack)
            BY ONLY <6>1
          <6> QED BY <1>4, <1>5, <2>1, <6>1, <6>2 DEF Counts
        <5>3. child_nodes[x] \in Nat
          <6>1. child_nodes[x] = Len(children[x]) /\ Holds(children[x], KidsIn(K, x))
            BY <1>4, <5>2 DEF Counts
          <6> QED BY <6>1, SeqValues DEF Holds
        <5> QED BY ONLY <3>2, <5>1, <5>3
      <4>2. Counts(K, S, Calls(stack, [node |-> x, i |-> Last(stack).i + 1],
                               [node |-> children[x][Last(stack).i], i |-> 0]),
                   children, child_nodes)
        BY <1>2, <1>3, <1>4, <1>5, <2>1, <4>1, CountDescends
      <4> QED BY <2>1, <3>2, <4>2
    <3> QED BY <3>1, <3>2
  <2> QED BY <2>1, <2>2
<1> QED BY <1>7, <1>8

(* The turns of file_remove_unnecessary_nodes()                            *)
LEMMA RemoveStep ==
  ASSUME PruneInv, VisitChild \/ LeaveNode
  PROVE  PruneInv'
<1>1. PICK N, D, H, g : RemoveInv(N, D, H, g)
  BY DEF PruneInv, VisitChild, LeaveNode
<1>2. RemoveInv(N, D, H, g)'
  BY <1>1, VisitChildKeeps, LeaveNodeKeeps
<1>3. phase' = "remove"
  BY DEF VisitChild, LeaveNode
<1> QED BY <1>2, <1>3 DEF PruneInv

(* The paths to a node, one by one                                         *)
LEMMA OnTheWay ==
  ASSUME NEW n \in Path, NEW k \in 1 .. Len(n)
  PROVE  /\ SubSeq(n, 1, k) \in Above(n) \cup {n} /\ SubSeq(n, 1, k) # <<>>
         /\ SubSeq(n, 1, k - 1) \in Above(n)
         /\ Front(SubSeq(n, 1, k)) = SubSeq(n, 1, k - 1)
<1> DEFINE m == SubSeq(n, 1, k)
           p == SubSeq(n, 1, k - 1)
           h == k - 1
<1>1. /\ Len(n) \in Nat /\ k \in Nat \ {0} /\ h \in Nat /\ h <= k /\ h \in 0 .. Len(n) - 1
      /\ k \in 0 .. Len(n) /\ h + 1 = k /\ \A i \in 1 .. k : n[i] \in Num
      /\ \A i \in 1 .. h : n[i] \in Num /\ i \in 1 .. k
  <2>1. DOMAIN n = 1 .. Len(n) /\ Len(n) \in Nat /\ \A x \in DOMAIN n : n[x] \in Num
    BY SeqValues DEF Path
  <2>2. \A i \in 1 .. k : i \in DOMAIN n
    BY ONLY <2>1, k \in 1 .. Len(n)
  <2>3. h \in Nat /\ h <= k /\ h \in 0 .. Len(n) - 1 /\ k \in 0 .. Len(n) /\ h + 1 = k
        /\ k \in Nat \ {0} /\ \A i \in 1 .. h : i \in 1 .. k
    BY ONLY <2>1, k \in 1 .. Len(n)
  <2> QED BY ONLY <2>1, <2>2, <2>3
<1>2. m \in Above(n) \cup {n} /\ p \in Above(n)
  <2>1. m \in {SubSeq(n, 1, i) : i \in 0 .. Len(n)}
    BY <1>1
  <2>2. p \in Above(n)
    BY <1>1 DEF Above
  <2> QED BY <2>1, <2>2, UpTo
<1> HIDE DEF h
<1>3. /\ SubSeq(n, 1, k) \in Seq(Num)
      /\ Len(SubSeq(n, 1, k)) = IF 1 <= k THEN k-1+1 ELSE 0
      /\ \A i \in 1 .. k-1+1 : SubSeq(n, 1, k)[i] = n[1+i-1]
  BY ONLY <1>1, SubSeqProperties, 1 \in Int, k \in Int
<1>4. /\ SubSeq(n, 1, h) \in Seq(Num)
      /\ Len(SubSeq(n, 1, h)) = IF 1 <= h THEN h-1+1 ELSE 0
      /\ \A i \in 1 .. h-1+1 : SubSeq(n, 1, h)[i] = n[1+i-1]
  BY ONLY <1>1, SubSeqProperties, 1 \in Int, h \in Int
<1>5. /\ k-1+1 = k /\ 1 <= k /\ h-1+1 = h /\ (~(1 <= h) => h = 0)
      /\ \A i \in 1 .. k : 1+i-1 = i
      /\ \A i \in 1 .. h : 1+i-1 = i
  BY ONLY <1>1
<1>6. /\ m \in Seq(Num) /\ Len(m) = k /\ \A i \in 1 .. k : m[i] = n[i]
      /\ p \in Seq(Num) /\ Len(p) = h /\ \A i \in 1 .. h : p[i] = n[i]
  <2>1. p = SubSeq(n, 1, h)
    BY DEF h
  <2> QED BY ONLY <1>3, <1>4, <1>5, <2>1
<1> HIDE DEF m, p
<1>7. m # <<>>
  BY ONLY <1>1, <1>6, Len(<<>>) = 0
<1>8. /\ Front(m) \in Seq(Num) /\ Len(Front(m)) = Len(m) - 1
      /\ \A j \in 1 .. Len(m) - 1 : Front(m)[j] = m[j]
  BY ONLY <1>6, <1>7, FrontOf
<1>9. Len(Front(m)) = Len(p) /\ \A i \in 1 .. Len(p) : Front(m)[i] = p[i]
  <2>1. Len(m) - 1 = h
    BY ONLY <1>1, <1>6
  <2> QED BY ONLY <1>1, <1>6, <1>8, <2>1
<1>10. Front(m) = p
  BY ONLY <1>6, <1>8, <1>9, SeqEqual
<1> QED BY <1>2, <1>7, <1>10 DEF m, p

(* The pointers lead to everything that is left.                           *)
LEMMA ReachedIs ==
  ASSUME NEW T, NEW C, NEW K, NEW S, NEW N, NEW D, NEW H, NEW g,
         CountInv(T, C, K, S, N, D, H, g), stack = <<>>
  PROVE  Reached = K
<1>1. /\ IsUpper(K) /\ K \subseteq DOMAIN tree /\ DOMAIN tree \subseteq Path
      /\ <<>> \in K
  <2>1. IsUpper(K) /\ K \subseteq DOMAIN T /\ T = tree
    BY KeptIsUpper DEF CountInv
  <2>2. DOMAIN T \subseteq Path
    BY DEF CountInv, TreeShape, TreeBase
  <2> QED BY <2>1, <2>2 DEF IsUpper
<1>2. \A n \in K : ToSet(children[n]) = KidsIn(K, n)
  BY <1>1, CountEnds DEF CountInv
<1>3. ASSUME NEW n \in K PROVE n \in Reached
  <2>1. n \in DOMAIN tree /\ n \in Path /\ Above(n) \cup {n} \subseteq K
    BY <1>1 DEF IsUpper
  <2>2. ASSUME NEW k \in 1 .. Len(n)
        PROVE  SubSeq(n, 1, k) \in ToSet(children[SubSeq(n, 1, k - 1)])
    <3>1. /\ SubSeq(n, 1, k) \in K /\ SubSeq(n, 1, k) # <<>>
          /\ SubSeq(n, 1, k - 1) \in K
          /\ Front(SubSeq(n, 1, k)) = SubSeq(n, 1, k - 1)
      BY <2>1, OnTheWay
    <3> QED BY <1>2, <3>1 DEF KidsIn
  <2> QED BY <2>1, <2>2 DEF Reached
<1>4. ASSUME NEW n \in Reached PROVE n \in K
  <2>1. n \in Path /\ Len(n) \in Nat
        /\ \A k \in 1 .. Len(n) : SubSeq(n, 1, k) \in ToSet(children[SubSeq(n, 1, k - 1)])
    <3>1. n \in Path
      BY <1>1 DEF Reached
    <3> QED BY <3>1, SeqValues DEF Reached, Path
  <2> DEFINE X == {k \in 0 .. Len(n) : SubSeq(n, 1, k) \notin K}
  <2>2. SubSeq(n, 1, Len(n)) = n /\ SubSeq(n, 1, 0) = <<>>
    BY <2>1, SubSeqFull, SubSeqEmpty DEF Path
  <2>3. SUFFICES ASSUME X # {} PROVE FALSE
    <3>1. Len(n) \in 0 .. Len(n)
      BY <2>1
    <3> QED BY <2>2, <2>3, <3>1
  <2>4. PICK k \in X : \A j \in X : k <= j
    <3>1. X \in SUBSET Nat
      BY <2>1
    <3> HIDE DEF X
    <3> QED BY <2>3, <3>1, LeastNumber
  <2>5. k # 0 /\ k \in 0 .. Len(n)
    BY <1>1, <2>2
  <2>6. k \in 1 .. Len(n) /\ k - 1 \in 0 .. Len(n) /\ ~(k <= k - 1)
    BY ONLY <2>1, <2>5
  <2>7. SubSeq(n, 1, k - 1) \in K
    BY <2>4, <2>6
  <2>8. SubSeq(n, 1, k) \in KidsIn(K, SubSeq(n, 1, k - 1))
    BY <1>2, <2>1, <2>6, <2>7
  <2> QED BY <2>4, <2>8 DEF KidsIn
<1> QED BY <1>3, <1>4

(* main goes on.                                                           *)
LEMMA FinishStep ==
  ASSUME PruneInv, FinishPruning
  PROVE  PruneInv'
<1>1. PICK T, C, K, S, N, D, H, g : CountInv(T, C, K, S, N, D, H, g)
  BY DEF PruneInv, FinishPruning
<1>2. Reached = K
  BY <1>1, ReachedIs DEF FinishPruning
<1>3. IsUpper(K) /\ K \subseteq DOMAIN T /\ \A n \in K : ~IsTaken(T, C, changed_dp, n)
  BY <1>1, KeptIsUpper DEF CountInv
<1>4. \A n \in K : NoNode \notin ToSet(children[n]) /\ child_nodes[n] = Len(children[n])
  BY <1>1, <1>3, CountEnds DEF CountInv, FinishPruning
<1>5. K \cap freed = {}
  BY <1>1, <1>3 DEF CountInv
<1>6. /\ DOMAIN tree' = K /\ child_nodes' = [n \in K |-> child_nodes[n]]
      /\ UNCHANGED <<children, freed, stack>> /\ phase' = "done" /\ pc' = "threads"
      /\ stack = <<>>
  BY <1>2 DEF FinishPruning, Goto
<1>7. DoneInv'
  BY <1>4, <1>5, <1>6 DEF DoneInv
<1> QED BY <1>6, <1>7 DEF PruneInv

(* The rest of the run                                                     *)
LEMMA GoOnStep ==
  ASSUME PruneInv, GoOn
  PROVE  PruneInv'
<1>1. UNCHANGED <<phase, stack, children, freed>>
  BY DEF GoOn, pruneVars
<1>2. CASE CountThreads
  <2>1. pc = "threads" /\ pc' = "end" /\ UNCHANGED <<tree, child_nodes>>
    BY <1>2 DEF CountThreads, Stop
  <2>2. phase = "done" /\ stack = <<>> /\ DoneInv
    BY <2>1 DEF PruneInv, RemoveInv, CountInv
  <2> QED BY <1>1, <2>1, <2>2 DEF PruneInv, DoneInv
<1>3. CASE Ended
  <2>1. pc = "end" /\ UNCHANGED vars
    BY <1>3 DEF Ended
  <2>2. UNCHANGED <<pc, tree, child_nodes>>
    BY <2>1 DEF vars
  <2>3. CASE phase = "none" /\ \E N, D, H, g : GraphInv(N, D, H, g)
    <3>1. stack = <<>> /\ freed = {}
      BY <2>3 DEF PruneInv
    <3> QED BY <1>1, <2>1, <2>2, <2>3, <3>1, GraphStays DEF PruneInv
  <2>4. CASE phase = "done" /\ stack = <<>> /\ DoneInv
    BY <1>1, <2>1, <2>2, <2>4 DEF PruneInv, DoneInv
  <2> QED BY <2>1, <2>3, <2>4 DEF PruneInv, RemoveInv, CountInv
<1> QED BY <1>2, <1>3 DEF GoOn

(* The invariant is about the values of the variables.                     *)
LEMMA PruneStays ==
  ASSUME PruneInv, UNCHANGED <<vars, pruneVars>>
  PROVE  PruneInv'
<1>1. UNCHANGED vars /\ UNCHANGED <<phase, stack, children, freed>>
  BY DEF pruneVars
<1>2. UNCHANGED <<pc, tree, child_nodes, changed_dp>>
  BY <1>1 DEF vars
<1>3. ASSUME NEW N, NEW D, NEW H, NEW g, GraphInv(N, D, H, g)
      PROVE  GraphInv(N, D, H, g)'
  BY <1>1, <1>3, GraphStays
<1>4. CASE phase = "none"
  BY <1>1, <1>2, <1>3, <1>4 DEF PruneInv
<1>5. CASE phase = "remove"
  <2>1. PICK N, D, H, g : RemoveInv(N, D, H, g)
    BY <1>5 DEF PruneInv
  <2>2. RemoveInv(N, D, H, g)'
    BY <1>1, <1>2, <1>3, <2>1 DEF RemoveInv
  <2> QED BY <1>1, <1>5, <2>2 DEF PruneInv
<1>6. CASE phase = "count"
  <2>1. PICK T, C, K, S, N, D, H, g : CountInv(T, C, K, S, N, D, H, g)
    BY <1>6 DEF PruneInv
  <2>2. CountInv(T, C, K, S, N, D, H, g)'
    BY <1>1, <1>2, <2>1 DEF CountInv
  <2> QED BY <1>1, <1>6, <2>2 DEF PruneInv
<1>7. CASE phase = "done"
  BY <1>1, <1>2, <1>7 DEF PruneInv, DoneInv
<1> QED BY <1>4, <1>5, <1>6, <1>7 DEF PruneInv

LEMMA PruneAlways == PruneSpec => []PruneInv
<1>1. PruneInit => PruneInv
  <2> SUFFICES ASSUME PruneInit PROVE PruneInv
    OBVIOUS
  <2>1. \E N, D, H, g : GraphInv(N, D, H, g)
    BY GraphInit DEF PruneInit
  <2> QED BY <2>1 DEF PruneInv, PruneInit, Init
<1>2. PruneInv /\ [PruneNext]_<<vars, pruneVars>> => PruneInv'
  BY BuildStep, RemoveStep, StartCountingStep, CountStep, FinishStep, GoOnStep,
     PruneStays DEF PruneNext
<1> QED BY <1>1, <1>2, PTL DEF PruneSpec

-----------------------------------------------------------------------------
(* The theorems *)

(* Neither recursion uses a freed node: the first one has taken out only   *)
(* nodes before the place it is at, and its calls are for nodes above that *)
(* place; the second one goes through the nodes that are left, and the     *)
(* pointers in their arrays lead to such nodes, or are NULL.               *)
THEOREM PointersLive == PruneSpec => []PointersAreLive
<1>1. ASSUME PruneInv, NEW j \in DOMAIN stack, NEW n, n = stack[j].node
      PROVE  /\ n \notin freed
             /\ n # <<>> => Front(n) \notin freed
             /\ ToSet(children[n]) \cap freed = {}
  <2>1. CASE phase = "remove"
    <3>1. PICK N, D, H, g : RemoveInv(N, D, H, g)
      BY <1>1, <2>1 DEF PruneInv
    <3>2. PICK T, C, M : T = tree /\ C = child_nodes /\ M = changed_dp
      OBVIOUS
    <3>3. /\ TreeShape(T, C, {}, N, D, H, g) /\ Walks(stack, T)
          /\ freed = Taken(T, C, M, stack) /\ children = Pointers(T, C, freed)
      BY <3>1, <3>2, CleanTree DEF RemoveInv
    <3>4. j \in 1 .. Len(stack)
      BY <3>3, SeqValues DEF Walks, Descends
    <3> QED BY <1>1, <3>3, <3>4, WalkIsLive
  <2>2. CASE phase = "count"
    <3>1. PICK T, C, K, S, N, D, H, g : CountInv(T, C, K, S, N, D, H, g)
      BY <1>1, <2>2 DEF PruneInv
    <3>2. PICK M : M = changed_dp
      OBVIOUS
    <3>3. /\ TreeShape(T, C, {}, N, D, H, g) /\ K = Kept(T, C, M)
          /\ freed = {m \in DOMAIN T : IsTaken(T, C, M, m)}
          /\ Counts(K, S, stack, children, child_nodes)
      BY <3>1, <3>2 DEF CountInv
    <3>4. IsUpper(K) /\ \A m \in K : ~IsTaken(T, C, M, m)
      BY <3>3, KeptIsUpper
    <3>5. K \cap freed = {}
      BY <3>3, <3>4
    <3>6. NoNode \notin freed
      <4>1. DOMAIN T \subseteq Path
        BY <3>3 DEF TreeShape, TreeBase
      <4> QED BY <3>3, <4>1, NoPath
    <3>7. n \in K
      <4>1. j \in 1 .. Len(stack)
        BY <3>3, SeqValues DEF Counts, Descends
      <4> QED BY <1>1, <3>3, <4>1 DEF Counts
    <3>8. n # <<>> => Front(n) \in K
      <4>1. n # <<>> => Above(n) = Above(Front(n)) \cup {Front(n)}
        BY <3>4, <3>7, PathAbove DEF IsUpper
      <4> QED BY <3>4, <3>7, <4>1 DEF IsUpper
    <3>9. ToSet(children[n]) \subseteq K \cup {NoNode}
      <4>1. Holds(children[n], KidsIn(K, n))
        BY <3>3, <3>7 DEF Counts
      <4> QED BY <4>1 DEF Holds, KidsIn
    <3> QED BY <3>5, <3>6, <3>7, <3>8, <3>9
  <2>3. CASE phase # "remove" /\ phase # "count"
    <3>1. stack = <<>>
      BY <1>1, <2>3 DEF PruneInv
    <3>2. DOMAIN <<>> = {}
      OBVIOUS
    <3> QED BY <1>1, <3>1, <3>2
  <2> QED BY <2>1, <2>2, <2>3
<1>2. PruneInv => PointersAreLive
  BY <1>1 DEF PointersAreLive
<1> QED BY <1>2, PruneAlways, PTL

(* What main goes on with has arrays as long as child_nodes says, without  *)
(* holes, of nodes that have not been freed.                               *)
THEOREM ArraysDense == PruneSpec => []ArraysAreDense
<1>1. PruneInv => ArraysAreDense
  BY DEF PruneInv, DoneInv, ArraysAreDense
<1> QED BY <1>1, PruneAlways, PTL

-----------------------------------------------------------------------------
(* The refinement *)

(* In a whole tree child_nodes counts the children.                        *)
LEMMA AllCounted ==
  ASSUME NEW N, NEW D, NEW H, NEW g, NEW C, TreeShape(tree, C, {}, N, D, H, g)
  PROVE  [n \in DOMAIN tree |-> AllChildren(n)] = C
<1>1. /\ C \in [DOMAIN tree -> Nat] /\ DOMAIN tree \subseteq Path
      /\ \A n \in DOMAIN tree : \A j \in Num : Append(n, j) \in DOMAIN tree <=> j \in 1 .. C[n]
  BY DEF TreeShape, TreeBase
<1>2. ASSUME NEW n \in DOMAIN tree PROVE AllChildren(n) = C[n]
  <2> DEFINE X == {m \in DOMAIN tree : m # <<>> /\ Front(m) = n}
  <2>1. n \in Path /\ C[n] \in Nat
    BY <1>1
  <2>2. PICK V : V = 1 .. C[n]
    OBVIOUS
  <2>3. ASSUME NEW j \in V
        PROVE  Append(n, j) \in X /\ Last(Append(n, j)) = j
    <3>1. j \in Num
      BY <2>1, <2>2 DEF Num
    <3>2. Append(n, j) # <<>> /\ Front(Append(n, j)) = n /\ Last(Append(n, j)) = j
      BY <2>1, <3>1, PathAppend
    <3>3. Append(n, j) \in DOMAIN tree
      BY <1>1, <2>2, <3>1
    <3> QED BY <3>2, <3>3
  <2>4. ASSUME NEW c \in X PROVE Last(c) \in V /\ c = Append(n, Last(c))
    <3>1. c \in Path /\ c # <<>> /\ Front(c) = n /\ c \in DOMAIN tree
      BY <1>1
    <3>2. Last(c) \in Num /\ c = Append(n, Last(c))
      BY <3>1, PathFront
    <3> QED BY <1>1, <2>2, <3>1, <3>2
  <2>5. AllChildren(n) = Cardinality(X)
    BY DEF AllChildren
  <2> HIDE DEF X
  <2> DEFINE q == [j \in V |-> Append(n, j)]
  <2>6. DOMAIN q = V /\ \A j \in V : q[j] = Append(n, j)
    OBVIOUS
  <2>7. q \in [V -> X]
    BY <2>3
  <2> HIDE DEF q
  <2>8. q \in Seq(X)
    BY ONLY <2>1, <2>2, <2>7, SeqDef
  <2>9. ListsOnce(q)
    <3>1. ASSUME NEW j \in V, NEW k \in V, q[j] = q[k] PROVE j = k
      <4>1. Append(n, j) = Append(n, k)
        BY <2>6, <3>1
      <4>2. Last(Append(n, j)) = j /\ Last(Append(n, k)) = k
        BY <2>3
      <4> QED BY ONLY <4>1, <4>2
    <3> QED BY ONLY <2>6, <3>1 DEF ListsOnce
  <2>10. ToSet(q) = X
    BY <2>3, <2>4, <2>6 DEF ToSet
  <2>11. Len(q) = C[n]
    <3>1. DOMAIN q = 1 .. Len(q) /\ Len(q) \in Nat
      BY <2>8, SeqValues
    <3>2. 1 .. Len(q) = 1 .. C[n]
      BY <2>2, <2>6, <3>1
    <3> QED BY ONLY <2>1, <3>1, <3>2
  <2> QED BY <2>5, <2>8, <2>9, <2>10, <2>11, ListCounts
<1>3. C = [n \in DOMAIN tree |-> C[n]]
  BY <1>1
<1> QED BY <1>2, <1>3

(* DepGraph's copies of the library's operators                            *)
LEMMA SameLibrary ==
  /\ \A q : Whole!Reverse(q) = Reverse(q) /\ Whole!ToSet(q) = ToSet(q)
  /\ \A q : Whole!Front(q) = Front(q) /\ Whole!Last(q) = Last(q)
  /\ \A X : Whole!Cardinality(X) = Cardinality(X)
<1>1. \A q : Whole!Reverse(q) = Reverse(q)
  BY DEF Reverse, Whole!Reverse
<1>2. \A q : Whole!ToSet(q) = ToSet(q)
  BY DEF ToSet, Whole!ToSet
<1>3. \A q : Whole!Front(q) = Front(q) /\ Whole!Last(q) = Last(q)
  BY DEF Front, Whole!Front, Last, Whole!Last
<1>4. \A X : Whole!Cardinality(X) = Cardinality(X)
  BY DEF Cardinality, Whole!Cardinality
<1> QED BY <1>1, <1>2, <1>3, <1>4

(* The numbers of children that DepGraph sees                              *)
SeenCounts == IF phase = "count" THEN [n \in DOMAIN tree |-> AllChildren(n)]
              ELSE child_nodes

(* The changes that the counts c lead to                                   *)
ChangesWith(c) ==
  LET changes[n \in DOMAIN tree] ==
        IF n = <<>> \/ tree[n] \notin Source
        THEN \E m \in {Append(n, j) : j \in 1 .. c[n]} \cap DOMAIN tree : changes[m]
        ELSE tree[n] \in in.changed
  IN  changes

LEMMA ChangesSeen == SeenCounts = child_nodes => Whole!Changes = Changes
<1>1. Changes = ChangesWith(child_nodes)
  BY DEF Changes, ChangesWith, IsTarget, Children
<1>2. Whole!Changes = ChangesWith(SeenCounts)
  BY DEF Whole!Changes, ChangesWith, Whole!IsTarget, Whole!Children, SeenCounts
<1> QED BY <1>1, <1>2

(* DepGraph's variables stay, if those here and the counts seen do.        *)
LEMMA SeenStays ==
  ASSUME UNCHANGED <<in, pc, outcome, tree, todo, changed_dp, build_state, total_threads>>,
         UNCHANGED SeenCounts
  PROVE  UNCHANGED Whole!vars
BY DEF Whole!vars, SeenCounts

(* The steps before the pruning are DepGraph's.                            *)
LEMMA BuildRefines ==
  ASSUME PruneInv, PruneInv', Build
  PROVE  Whole!Next
<1>1. pc \in {"target", "md5", "graph", "mark"}
  BY DEF Build, FindTarget, CalculateHashes, AddNodes, MarkTargets
<1>2. phase = "none" /\ phase' \in {"none", "remove"}
  BY <1>1 DEF PruneInv, RemoveInv, CountInv, Build
<1>3. phase # "count" /\ phase' # "count"
  BY <1>2
<1>4. CASE FindTarget
  <2>1. Whole!FindTarget
    BY <1>3, <1>4, SameLibrary DEF FindTarget, Whole!FindTarget, HasTarget, Whole!HasTarget, Productions,
       Whole!Productions, IsCommand, Whole!IsCommand, Target, Whole!Target, Dependencies,
       Whole!Dependencies, Stop, Whole!Stop, Goto, Whole!Goto
  <2> QED BY <2>1 DEF Whole!Next
<1>5. CASE CalculateHashes
  <2>1. Whole!CalculateHashes
    BY <1>3, <1>5, SameLibrary DEF CalculateHashes, Whole!CalculateHashes, SourceList, Whole!SourceList,
       Stop, Whole!Stop, Goto, Whole!Goto
  <2> QED BY <2>1 DEF Whole!Next
<1>6. CASE AddNodes
  <2>1. Whole!AddNodes
    <3>1. \A n, d : Whole!Fault(n, d) = Fault(n, d)
      BY DEF Fault, Whole!Fault, HasTarget, Whole!HasTarget, Productions,
             Whole!Productions, IsBelowItself, Whole!IsBelowItself
    <3>2. \A a : Whole!Dependencies(a) = Dependencies(a)
      BY SameLibrary DEF Target, Whole!Target, Dependencies, Whole!Dependencies,
             Productions, Whole!Productions
    <3>3. \A n : Whole!IsTarget(n) <=> IsTarget(n)
      BY DEF IsTarget, Whole!IsTarget
    <3> QED BY <1>3, <1>6, <3>1, <3>2, <3>3, SameLibrary DEF AddNodes, Whole!AddNodes,
               Stop, Whole!Stop, Goto, Whole!Goto
  <2> QED BY <2>1 DEF Whole!Next
<1>7. CASE MarkTargets
  <2>1. Whole!MarkTargets
    <3>1. Whole!Changes = Changes
      BY <1>3, ChangesSeen DEF SeenCounts
    <3>2. \A n : Whole!IsTarget(n) <=> IsTarget(n)
      BY DEF IsTarget, Whole!IsTarget
    <3> QED BY <1>3, <1>7, <3>1, <3>2 DEF MarkTargets, Whole!MarkTargets,
               Stop, Whole!Stop, Goto, Whole!Goto
  <2> QED BY <2>1 DEF Whole!Next
<1> QED BY <1>4, <1>5, <1>6, <1>7 DEF Build

(* DepGraph does not see the turns of the recursions.                      *)
LEMMA TurnsStutter ==
  ASSUME PruneInv, VisitChild \/ LeaveNode \/ StartCounting \/ CountNode \/ CountChild
  PROVE  UNCHANGED Whole!vars
<1>1. UNCHANGED <<in, pc, outcome, tree, todo, changed_dp, build_state, total_threads>>
  BY DEF VisitChild, LeaveNode, StartCounting, CountNode, CountChild, Working
<1>2. CASE VisitChild \/ LeaveNode
  <2>1. phase = "remove" /\ UNCHANGED <<phase, child_nodes>>
    BY <1>2 DEF VisitChild, LeaveNode, TakeOut
  <2> QED BY <1>1, <2>1, SeenStays DEF SeenCounts
<1>3. CASE StartCounting
  <2>1. PICK N, D, H, g : RemoveInv(N, D, H, g)
    BY <1>3 DEF PruneInv, StartCounting
  <2>2. TreeShape(tree, child_nodes, {}, N, D, H, g)
    BY <2>1, CleanTree DEF RemoveInv
  <2>3. [n \in DOMAIN tree |-> AllChildren(n)] = child_nodes
    BY <2>2, AllCounted
  <2>4. phase = "remove" /\ phase' = "count"
    BY <1>3 DEF StartCounting
  <2> QED BY <1>1, <2>3, <2>4, SeenStays DEF SeenCounts, AllChildren
<1>4. CASE CountNode \/ CountChild
  <2>1. phase = "count" /\ UNCHANGED phase
    BY <1>4 DEF CountNode, CountChild
  <2> QED BY <1>1, <2>1, SeenStays DEF SeenCounts, AllChildren
<1> QED BY <1>2, <1>3, <1>4

(* With the last one the nodes that are taken out are gone for it.         *)
LEMMA FinishRefines ==
  ASSUME PruneInv, FinishPruning
  PROVE  Whole!Cleanup
<1>1. PICK T, C, K, S, N, D, H, g : CountInv(T, C, K, S, N, D, H, g)
  BY DEF PruneInv, FinishPruning
<1>2. /\ tree = T /\ TreeShape(tree, C, {}, N, D, H, g) /\ K = Kept(T, C, changed_dp)
      /\ TreeShape(T, C, {}, N, D, H, g) /\ Counts(K, S, <<>>, children, child_nodes)
  BY <1>1 DEF CountInv, FinishPruning
<1>3. SeenCounts = C
  BY <1>2, AllCounted DEF SeenCounts, FinishPruning
<1>4. IsUpper(K) /\ K \subseteq DOMAIN tree /\ DOMAIN tree \subseteq Path
  <2>1. IsUpper(K) /\ K \subseteq DOMAIN T
    BY <1>2, KeptIsUpper
  <2>2. DOMAIN T \subseteq Path
    BY <1>2 DEF TreeShape, TreeBase
  <2> QED BY <1>2, <2>1, <2>2
<1> DEFINE kept == {n \in DOMAIN tree :
                      \A k \in 0 .. Len(n) : ~Whole!IsRemoved(SubSeq(n, 1, k))}
<1>5. kept = K
  <2>1. ASSUME NEW n \in DOMAIN tree
        PROVE  (\A k \in 0 .. Len(n) : ~Whole!IsRemoved(SubSeq(n, 1, k)))
                 <=> \A a \in Above(n) \cup {n} : ~Whole!IsRemoved(a)
    <3>1. {SubSeq(n, 1, k) : k \in 0 .. Len(n)} = Above(n) \cup {n}
      BY <1>4, UpTo
    <3> QED BY ONLY <3>1
  <2>2. \A a : ~Whole!IsRemoved(a) <=>
          a = <<>> \/ (tree[a] \notin Source /\ (tree[a] \in changed_dp \/ SeenCounts[a] = 0))
    BY DEF Whole!IsRemoved, Whole!IsTarget, SeenCounts
  <2> QED BY <1>2, <1>3, <2>1, <2>2 DEF Kept
<1>6. Reached = K
  BY <1>1, ReachedIs DEF FinishPruning
<1>7. \A n \in K : child_nodes[n] = Cardinality(KidsIn(K, n))
  BY <1>2, <1>4, CountEnds
<1>8. \A n : Whole!CountChildren(n, kept) = Cardinality(KidsIn(K, n))
  <2>1. \A n : {c \in kept : c # <<>> /\ Front(c) = n} = KidsIn(K, n)
    BY <1>5 DEF KidsIn
  <2> HIDE DEF kept
  <2> QED BY <2>1, SameLibrary DEF Whole!CountChildren
<1>9. /\ tree' = [n \in kept |-> tree[n]] /\ pc = "clean" /\ pc' = "threads"
      /\ UNCHANGED <<in, todo, changed_dp, build_state, total_threads, outcome>>
      /\ phase' = "done" /\ child_nodes' = [n \in K |-> child_nodes[n]]
  BY <1>5, <1>6 DEF FinishPruning, Goto
<1>10. SeenCounts' = [n \in kept |-> Whole!CountChildren(n, kept)]
  <2>1. SeenCounts' = child_nodes'
    BY <1>9 DEF SeenCounts
  <2> HIDE DEF kept
  <2> QED BY <1>5, <1>7, <1>8, <1>9, <2>1
<1> QED BY <1>9, <1>10 DEF Whole!Cleanup, Whole!Goto, SeenCounts

LEMMA GoOnRefines ==
  ASSUME PruneInv, GoOn
  PROVE  Whole!Next
<1>1. phase # "count" /\ UNCHANGED phase
  <2>1. pc # "clean"
    BY DEF GoOn, CountThreads, Ended
  <2> QED BY <2>1 DEF PruneInv, CountInv, GoOn, pruneVars
<1>2. CASE CountThreads
  <2>1. Whole!CountThreads
    <3> DEFINE IsRoot(k, n) == k * k <= n /\ n < (k + 1) * (k + 1)
    <3>1. UNCHANGED <<in, tree, todo, SeenCounts, changed_dp, build_state>>
      BY <1>1, <1>2 DEF SeenCounts, CountThreads
    <3>2. Whole!TotalNodes = TotalNodes
      BY SameLibrary DEF TotalNodes, Whole!TotalNodes
    <3>3. LET root == CHOOSE k \in 0 .. TotalNodes : IsRoot(k, TotalNodes)
          IN  total_threads' = IF root = 0 THEN 1 ELSE root
      BY <1>2 DEF CountThreads
    <3>4. LET root == CHOOSE k \in 0 .. Whole!TotalNodes : IsRoot(k, Whole!TotalNodes)
          IN  total_threads' = IF root = 0 THEN 1 ELSE root
      <4> HIDE DEF IsRoot
      <4> QED BY ONLY <3>2, <3>3
    <3>5. pc = "threads" /\ Whole!Stop("scheduled")
      BY <1>2 DEF CountThreads, Stop, Whole!Stop
    <3> QED BY ONLY <3>1, <3>4, <3>5 DEF Whole!CountThreads, SeenCounts
  <2> QED BY <2>1 DEF Whole!Next
<1>3. CASE Ended
  <2>1. Whole!Ended
    BY <1>1, <1>3 DEF Ended, Whole!Ended, vars, Whole!vars
  <2> QED BY <2>1 DEF Whole!Next
<1> QED BY <1>2, <1>3 DEF GoOn

(* The two recursions over arrays do what DepGraph does in one step.       *)
THEOREM CleanupImplemented == PruneSpec => ImplementsCleanup
<1>1. PruneInit => Whole!Init
  BY DEF PruneInit, Init, Whole!Init
<1>2. PruneInv /\ PruneInv' /\ [PruneNext]_<<vars, pruneVars>> => [Whole!Next]_(Whole!vars)
  <2> SUFFICES ASSUME PruneInv, PruneInv', [PruneNext]_<<vars, pruneVars>>
               PROVE  [Whole!Next]_(Whole!vars)
    OBVIOUS
  <2>1. CASE Build
    BY <2>1, BuildRefines
  <2>2. CASE VisitChild \/ LeaveNode \/ StartCounting \/ CountNode \/ CountChild
    BY <2>2, TurnsStutter
  <2>3. CASE FinishPruning
    BY <2>3, FinishRefines DEF Whole!Next
  <2>4. CASE GoOn
    BY <2>4, GoOnRefines
  <2>5. CASE UNCHANGED <<vars, pruneVars>>
    <3>1. UNCHANGED <<in, pc, outcome, tree, todo, changed_dp, build_state, total_threads>>
          /\ UNCHANGED <<child_nodes, phase>>
      BY <2>5 DEF vars, pruneVars
    <3> QED BY <3>1, SeenStays DEF SeenCounts, AllChildren
  <2> QED BY <2>1, <2>2, <2>3, <2>4, <2>5 DEF PruneNext
<1> QED BY <1>1, <1>2, PruneAlways, PTL DEF PruneSpec, ImplementsCleanup, Whole!Spec
=============================================================================
