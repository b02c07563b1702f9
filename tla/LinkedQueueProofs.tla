-------------------------- MODULE LinkedQueueProofs --------------------------
(***************************************************************************)
(* The lists of queue.c read the same both ways, their ends agree where    *)
(* the code looks at them, and they implement sequences, for any number of *)
(* processes, queues and nodes.                                            *)
(*                                                                         *)
(* The inductive invariant says of every moment, also inside the mutexes,  *)
(* which sequence is on each queue and what its cells, its ends and the    *)
(* node in each hand look like, with what the process that has the mutex   *)
(* still has to put right.  It is stated for a family L of sequences: a    *)
(* step lemma names the L after the step and shows that it has the shape;  *)
(* ListsAfter then says that this L is what Listed() finds.  A step writes *)
(* to cells that no other queue or hand has, so all the rest is kept       *)
(* (OwnPart, OutsideStep).                                                 *)
(***************************************************************************)
EXTENDS LinkedQueue, FiniteSetTheorems, SequenceTheorems, Numbers

(* The cells of a list, when l goes from its first cell to its last.       *)
IsList(l, first, last, before) ==
  /\ l = <<>> => first = NULL
  /\ l # <<>> => l[1] = first /\ l[Len(l)] = last
  /\ \A j \in 1 .. Len(l) - 1 : l[j] # last /\ before[l[j]] = l[j + 1]

(* Walk(), the recursive function, finds the list that is there.           *)
LEMMA WalkIsList ==
  ASSUME NEW first \in Cell \cup {NULL}, NEW last,
         NEW before \in [Cell -> Cell \cup {NULL}],
         NEW l \in Seq(Cell), Len(l) <= Cardinality(Cell),
         IsList(l, first, last, before)
  PROVE  Walk(first, last, before) = l
<1> DEFINE N == Cardinality(Cell)
           S == Cell \cup {NULL}
           F == [c \in S |-> IF c \in {NULL, last} THEN NULL ELSE before[c]]
           Rec(g) == [k \in 1 .. N |-> IF k = 1 THEN first
                                       ELSE LET c == g[k - 1]
                                            IN  IF c \in {NULL, last} THEN NULL
                                                ELSE before[c]]
           from == CHOOSE g : g = Rec(g)
           cells == {k \in 1 .. N : from[k] # NULL}
<1>1. N \in Nat
  BY ClientAssumption, FS_CardinalityType
<1>2. F \in [S -> S]
  OBVIOUS
<1>3. \E g : g = Rec(g)
  <2>1. PICK g : Iterates(g, F, first, N, S)
    <3> HIDE DEF N, S, F
    <3>1. first \in S
      BY DEF S
    <3> QED BY ONLY <1>1, <1>2, <3>1, Iteration
  <2>2. \A k \in 1 .. N : k # 1 => g[k - 1] \in S
    BY <1>1, <2>1 DEF Iterates
  <2>3. g = Rec(g)
    BY <2>1, <2>2 DEF Iterates
  <2> QED BY <2>3
<1>4. from = Rec(from)
  BY <1>3
<1>5. Walk(first, last, before) = [k \in cells |-> from[k]]
  BY DEF Walk
<1>6. ASSUME NEW k \in 1 .. N
      PROVE  from[k] = IF k = 1 THEN first
                       ELSE IF from[k - 1] \in {NULL, last} THEN NULL
                       ELSE before[from[k - 1]]
  BY <1>4
<1> HIDE DEF from, N
<1> DEFINE T == {k \in Nat : k \in 1 .. N =>
                   from[k] = IF k <= Len(l) THEN l[k] ELSE NULL}
<1>7. Len(l) \in Nat /\ \A j \in 1 .. Len(l) : l[j] \in Cell
  OBVIOUS
<1>8. ASSUME NEW k \in T, k + 1 \in 1 .. N
      PROVE  from[k + 1] = IF k + 1 <= Len(l) THEN l[k + 1] ELSE NULL
  <2>1. CASE k = 0
    <3>1. from[1] = first
      BY <1>6, <1>8, <2>1
    <3> QED BY <1>7, <2>1, <3>1 DEF IsList
  <2>2. CASE k # 0
    <3>1. k \in 1 .. N /\ k + 1 # 1 /\ (k + 1) - 1 = k
      BY <1>1, <1>8, <2>2
    <3>2. from[k + 1] = IF from[k] \in {NULL, last} THEN NULL ELSE before[from[k]]
      BY <1>6, <1>8, <3>1
    <3>3. from[k] = IF k <= Len(l) THEN l[k] ELSE NULL
      BY <3>1
    <3>4. CASE k + 1 <= Len(l)
      <4>1. k \in 1 .. Len(l) - 1
        BY <1>7, <2>2, <3>4
      <4>2. l[k] \in Cell /\ l[k] # last /\ before[l[k]] = l[k + 1]
        BY <1>7, <4>1 DEF IsList
      <4> QED BY <3>2, <3>3, <3>4, <4>1, <4>2, ClientAssumption
    <3>5. CASE k = Len(l)
      <4>1. from[k] = last
        BY <2>2, <3>3, <3>5 DEF IsList
      <4> QED BY <1>7, <3>2, <3>5, <4>1
    <3>6. CASE k > Len(l)
      BY <1>7, <3>2, <3>3, <3>6
    <3> QED BY <1>7, <3>4, <3>5, <3>6
  <2> QED BY <2>1, <2>2
<1>9. T = Nat
  <2>1. 0 \in T /\ T \in SUBSET Nat
    OBVIOUS
  <2>2. \A k \in T : k + 1 \in T
    BY <1>8
  <2> HIDE DEF T
  <2> QED BY <2>1, <2>2, Induction
<1>10. \A k \in 1 .. N : from[k] = IF k <= Len(l) THEN l[k] ELSE NULL
  <2>1. ASSUME NEW k \in 1 .. N PROVE k \in T
    <3>1. k \in Nat
      BY <1>1
    <3> HIDE DEF T
    <3> QED BY <1>9, <3>1
  <2> QED BY <2>1
<1>11. cells = 1 .. Len(l)
  BY <1>1, <1>7, <1>10, ClientAssumption DEF N
<1>12. \A k \in 1 .. Len(l) : from[k] = l[k]
  BY <1>1, <1>7, <1>10 DEF N
<1> HIDE DEF cells
<1>13. [k \in cells |-> from[k]] = [k \in 1 .. Len(l) |-> l[k]]
  BY <1>11, <1>12
<1> QED BY <1>5, <1>13

-----------------------------------------------------------------------------
(* The inductive invariant: L[q] is what is listed on q.                   *)

Cells(l) == {l[j] : j \in DOMAIN l}

(* The process that has the mutex of q is at one of the given places.      *)
HolderIn(q, places) == mtx[q] # NULL /\ pc[mtx[q]] \in places

QueueShape(q, l) ==
  /\ \A j, k \in 1 .. Len(l) : l[j] = l[k] => j = k
  /\ IsList(l, tail[q], head[q], prev)
  /\ \A j \in 1 .. Len(l) - 1 : next[l[j + 1]] = l[j]
  /\ l = <<>> /\ ~HolderIn(q, {"relink", "tail"}) => head[q] = NULL
  /\ l # <<>> /\ ~HolderIn(q, {"head", "clear"}) => prev[l[Len(l)]] = NULL
  /\ l # <<>> /\ ~HolderIn(q, {"relink"}) => next[l[1]] = NULL

NodeShape(p, L) ==
  LET q == at[p]
  IN  /\ pc[p] \in Adding \cup {"unlink", "relink"} => node[p] \in Cell
      /\ pc[p] = "get" => node[p] = NULL
      /\ pc[p] = "unlink" => L[q] # <<>> /\ node[p] = tail[q]
      /\ pc[p] = "relink" => prev[node[p]] = tail[q]
      /\ pc[p] = "tail" => L[q] = <<>> /\ head[q] = node[p]
      /\ pc[p] = "head" => L[q] # <<>> /\ prev[head[q]] = node[p]
                                       /\ next[node[p]] = head[q]
      /\ pc[p] \in {"clear", "release"} => L[q] # <<>> /\ node[p] = head[q]
      /\ pc[p] \notin {"unlink", "clear", "release"} =>
           \A r \in Queue : node[p] \notin Cells(L[r])

Apart(L) == \A q, r \in Queue : q # r => Cells(L[q]) \cap Cells(L[r]) = {}
HandsApart == \A p, z \in Process : p # z /\ node[p] # NULL => node[p] # node[z]

Shape(L) ==
  /\ \A q \in Queue : QueueShape(q, L[q])
  /\ \A p \in Process : NodeShape(p, L)
  /\ Apart(L)
  /\ HandsApart

LinkInv == Lists \in [Queue -> Seq(Cell)] /\ Shape(Lists)

(* A list fits in the memory, as no cell is on it twice.                   *)
LEMMA ListFits ==
  ASSUME NEW l \in Seq(Cell), \A j, k \in 1 .. Len(l) : l[j] = l[k] => j = k
  PROVE  Len(l) <= Cardinality(Cell)
<1>1. l \in Injection(1 .. Len(l), Cell)
  BY DEF Injection, IsInjective
<1>2. Len(l) \in Nat /\ Cardinality(1 .. Len(l)) = Len(l)
  BY FS_Interval
<1> QED BY <1>1, <1>2, FS_Injection, ClientAssumption

(* and so does Listed(q), for a queue of the right shape.                  *)
LEMMA ShapeIsListed ==
  ASSUME TypeOK, NEW q \in Queue, NEW l \in Seq(Cell), QueueShape(q, l)
  PROVE  Listed(q) = l
BY ListFits, WalkIsList DEF TypeOK, QueueShape, Listed

(* A queue that a step leaves alone                                        *)
LEMMA QueueKept ==
  ASSUME NEW q \in Queue, NEW l \in Seq(Cell), QueueShape(q, l),
         head'[q] = head[q], tail'[q] = tail[q], mtx'[q] = mtx[q],
         mtx[q] # NULL => pc'[mtx[q]] = pc[mtx[q]],
         \A c \in Cells(l) : next'[c] = next[c] /\ prev'[c] = prev[c]
  PROVE  QueueShape(q, l)'
<1>1. \A j \in 1 .. Len(l) : next'[l[j]] = next[l[j]] /\ prev'[l[j]] = prev[l[j]]
  BY DEF Cells
<1>2. Len(l) \in Nat
  OBVIOUS
<1>3. IsList(l, tail'[q], head'[q], prev')
  BY <1>1, <1>2 DEF QueueShape, IsList
<1>4. \A X : HolderIn(q, X)' <=> HolderIn(q, X)
  BY DEF HolderIn
<1> HIDE DEF HolderIn
<1> QED BY <1>1, <1>2, <1>3, <1>4 DEF QueueShape

(* A process whose queue and node a step leaves alone                      *)
LEMMA NodeKept ==
  ASSUME NEW p \in Process, NEW L, NEW M, NodeShape(p, L),
         pc'[p] = pc[p], node'[p] = node[p], at'[p] = at[p],
         \A q \in Queue : node[p] \in Cells(M[q]) => node[p] \in Cells(L[q]),
         pc[p] # "idle" =>
           /\ M[at[p]] = L[at[p]]
           /\ head'[at[p]] = head[at[p]] /\ tail'[at[p]] = tail[at[p]],
         pc[p] \in {"relink", "head"} =>
           next'[node[p]] = next[node[p]] /\ prev'[node[p]] = prev[node[p]],
         pc[p] = "head" => prev'[head[at[p]]] = prev[head[at[p]]]
  PROVE  NodeShape(p, M)'
BY DEF NodeShape, Adding

(* What a step of p on q must see to: its own part of the invariant.  It   *)
(* writes to the cells in W, and leaves the rest alone.                    *)
StepOf(p, q, W, L, M) ==
  /\ \A z \in Process \ {p} :
       /\ pc'[z] = pc[z] /\ node'[z] = node[z] /\ at'[z] = at[z]
       /\ pc[z] # "idle" => at[z] # q
       /\ node[z] \notin W
       /\ node[z] \in Cells(M[q]) => node[z] \in Cells(L[q])
  /\ \A r \in Queue \ {q} :
       /\ head'[r] = head[r] /\ tail'[r] = tail[r] /\ mtx'[r] = mtx[r]
       /\ M[r] = L[r] /\ mtx[r] # p
       /\ W \cap Cells(L[r]) = {}
       /\ Cells(M[q]) \cap Cells(L[r]) = {}
  /\ \A c \in Cell \ W : next'[c] = next[c] /\ prev'[c] = prev[c]

(* Then the invariant holds after the step.                                *)
LEMMA OwnPart ==
  ASSUME TypeOK, NEW L \in [Queue -> Seq(Cell)], Shape(L),
         NEW M \in [Queue -> Seq(Cell)], NEW p \in Process, NEW q \in Queue,
         NEW W \in SUBSET Cell, StepOf(p, q, W, L, M),
         QueueShape(q, M[q])', NodeShape(p, M)', HandsApart'
  PROVE  Shape(M)'
<1> USE ClientAssumption DEF TypeOK
<1>1. \A r \in Queue : Cells(L[r]) \subseteq Cell
  BY DEF Cells
<1>2. ASSUME NEW r \in Queue \ {q} PROVE QueueShape(r, M[r])'
  <2>1. M[r] = L[r] /\ M[r] \in Seq(Cell) /\ QueueShape(r, M[r])
    BY DEF StepOf, Shape
  <2>2. mtx[r] # NULL => mtx[r] \in Process \ {p}
    BY DEF StepOf
  <2>3. \A c \in Cells(M[r]) : next'[c] = next[c] /\ prev'[c] = prev[c]
    BY <1>1, <2>1 DEF StepOf
  <2>4. mtx[r] # NULL => pc'[mtx[r]] = pc[mtx[r]]
    BY <2>2 DEF StepOf
  <2>5. head'[r] = head[r] /\ tail'[r] = tail[r] /\ mtx'[r] = mtx[r]
    BY DEF StepOf
  <2> QED BY ONLY <2>1, <2>3, <2>4, <2>5, QueueKept, r \in Queue
<1>3. ASSUME NEW z \in Process \ {p} PROVE NodeShape(z, M)'
  <2>1. NodeShape(z, L)
    BY DEF Shape
  <2>2. pc'[z] = pc[z] /\ node'[z] = node[z] /\ at'[z] = at[z] /\ at[z] \in Queue
    BY DEF StepOf
  <2>3. \A r \in Queue : node[z] \in Cells(M[r]) => node[z] \in Cells(L[r])
    BY DEF StepOf
  <2>4. pc[z] # "idle" => /\ M[at[z]] = L[at[z]]
                          /\ head'[at[z]] = head[at[z]] /\ tail'[at[z]] = tail[at[z]]
    BY <2>2 DEF StepOf
  <2>5. pc[z] \in {"relink", "head"} =>
           next'[node[z]] = next[node[z]] /\ prev'[node[z]] = prev[node[z]]
    BY <2>1 DEF StepOf, NodeShape, Adding
  <2>6. pc[z] = "head" => prev'[head[at[z]]] = prev[head[at[z]]]
    <3>1. SUFFICES ASSUME pc[z] = "head"
                   PROVE  prev'[head[at[z]]] = prev[head[at[z]]]
      OBVIOUS
    <3>2. L[at[z]] # <<>> /\ L[at[z]] \in Seq(Cell) /\ at[z] # q
      BY <2>1, <2>2, <3>1 DEF NodeShape, StepOf
    <3>3. head[at[z]] = L[at[z]][Len(L[at[z]])]
      BY <2>2, <3>2 DEF Shape, QueueShape, IsList
    <3>4. head[at[z]] \in Cells(L[at[z]])
      BY <3>2, <3>3 DEF Cells
    <3> QED BY <1>1, <2>2, <3>2, <3>4 DEF StepOf
  <2> QED BY ONLY <2>1, <2>2, <2>3, <2>4, <2>5, <2>6, NodeKept, z \in Process
<1>4. Apart(M)
  <2>1. \A r, x \in Queue : r # x => Cells(L[r]) \cap Cells(L[x]) = {}
    BY DEF Shape, Apart
  <2>2. \A r \in Queue \ {q} : M[r] = L[r] /\ Cells(M[q]) \cap Cells(L[r]) = {}
    BY DEF StepOf
  <2>3. ASSUME NEW r \in Queue, NEW x \in Queue, r # x
        PROVE  Cells(M[r]) \cap Cells(M[x]) = {}
    <3>1. CASE r = q
      BY <2>2, <2>3, <3>1
    <3>2. CASE x = q
      <4>1. M[r] = L[r] /\ Cells(M[q]) \cap Cells(L[r]) = {}
        BY <2>2, <2>3, <3>2
      <4> QED BY <3>2, <4>1
    <3>3. CASE r # q /\ x # q
      BY <2>1, <2>2, <2>3, <3>3
    <3> QED BY <3>1, <3>2, <3>3
  <2> QED BY <2>3 DEF Apart
<1> QED BY <1>2, <1>3, <1>4 DEF Shape, Apart

-----------------------------------------------------------------------------
(* Who is inside a mutex is alone on its queue.                            *)

LEMMA Alone ==
  ASSUME TypeOK, NEW p \in Process, pc[p] # "idle"
  PROVE  /\ at[p] \in Queue /\ mtx[at[p]] = p
         /\ \A z \in Process \ {p} : pc[z] # "idle" => at[z] # at[p]
         /\ \A r \in Queue \ {at[p]} : mtx[r] # p
BY DEF TypeOK

(* A node in hand that is on a list is on that of the queue that its       *)
(* process works on, in the three places where that may be.                *)
LEMMA OnOwnQueue ==
  ASSUME TypeOK, NEW L \in [Queue -> Seq(Cell)], Shape(L),
         NEW z \in Process, NEW r \in Queue, node[z] \in Cells(L[r])
  PROVE  pc[z] \in {"unlink", "clear", "release"} /\ at[z] = r
<1>1. pc[z] \in {"unlink", "clear", "release"}
  BY DEF Shape, NodeShape
<1>2. L[at[z]] # <<>> /\ L[at[z]] \in Seq(Cell) /\ at[z] \in Queue
      /\ node[z] \in {tail[at[z]], head[at[z]]}
  BY <1>1 DEF TypeOK, Shape, NodeShape
<1>3. node[z] \in Cells(L[at[z]])
  BY <1>2 DEF Shape, QueueShape, IsList, Cells
<1> QED BY <1>1, <1>2, <1>3 DEF Shape, Apart

(* The cells in hand and on other queues are none of p's business.         *)
LEMMA OthersApart ==
  ASSUME TypeOK, NEW L \in [Queue -> Seq(Cell)], Shape(L),
         NEW p \in Process, pc[p] # "idle"
  PROVE  /\ \A z \in Process \ {p} : node[z] \notin Cells(L[at[p]])
         /\ \A r \in Queue \ {at[p]} : Cells(L[at[p]]) \cap Cells(L[r]) = {}
         /\ node[p] # NULL => \A z \in Process \ {p} : node[z] # node[p]
<1>1. \A z \in Process \ {p} : node[z] \notin Cells(L[at[p]])
  <2>1. at[p] \in Queue
    BY Alone
  <2> QED BY <2>1, Alone, OnOwnQueue DEF Adding, Getting
<1> QED BY <1>1, Alone DEF Shape, Apart, HandsApart

(* queue_get_node() finds nothing.                                         *)
LEMMA GetNothingStep ==
  ASSUME TypeOK, NEW L \in [Queue -> Seq(Cell)], Shape(L),
         NEW p \in Process, NEW q \in Queue, at[p] = q, GetNothing(p)
  PROVE  TypeOK' /\ Shape(L)'
<1>1. /\ pc[p] = "get" /\ pc' = [pc EXCEPT ![p] = "unlock"]
      /\ UNCHANGED <<head, tail, mtx, next, prev, at, node>>
  BY DEF GetNothing, Goto, listVars, linkVars
<1>2. TypeOK'
  BY <1>1 DEF TypeOK, Getting
<1>3. /\ pc'[p] = "unlock" /\ \A z \in Process \ {p} : pc'[z] = pc[z]
  BY <1>1 DEF TypeOK
<1>4. /\ q \in Queue /\ mtx[q] = p
      /\ \A z \in Process \ {p} : pc[z] # "idle" => at[z] # q
      /\ \A r \in Queue \ {q} : mtx[r] # p
  BY <1>1, Alone
<1>5. QueueShape(q, L[q]) /\ NodeShape(p, L)
  BY <1>4 DEF Shape
<1>6. QueueShape(q, L[q])'
  BY <1>1, <1>3, <1>4, <1>5 DEF QueueShape, HolderIn
<1>7. NodeShape(p, L)'
  BY <1>1, <1>3, <1>5 DEF NodeShape, Adding
<1>8. HandsApart'
  BY <1>1 DEF Shape, HandsApart
<1>9. StepOf(p, q, {}, L, L)
  BY <1>1, <1>3, <1>4, OthersApart DEF StepOf, Shape, Apart
<1> QED BY <1>2, <1>4, <1>6, <1>7, <1>8, <1>9, OwnPart

(* It takes the pointer to the last node,                                  *)
LEMMA GetTailStep ==
  ASSUME TypeOK, NEW L \in [Queue -> Seq(Cell)], Shape(L),
         NEW p \in Process, NEW q \in Queue, at[p] = q, GetTail(p)
  PROVE  TypeOK' /\ Shape(L)'
<1>1. /\ pc[p] = "get" /\ pc' = [pc EXCEPT ![p] = "unlink"] /\ head[q] # NULL
      /\ node' = [node EXCEPT ![p] = tail[q]]
      /\ UNCHANGED <<head, tail, mtx, next, prev, at>>
  BY DEF GetTail, Goto, IsEmpty, listVars, linkVars
<1>2. TypeOK'
  BY <1>1 DEF TypeOK, Getting
<1>3. /\ pc'[p] = "unlink" /\ node'[p] = tail[q]
      /\ \A z \in Process \ {p} : pc'[z] = pc[z] /\ node'[z] = node[z]
  BY <1>1 DEF TypeOK
<1>4. /\ mtx[q] = p
      /\ \A z \in Process \ {p} : pc[z] # "idle" => at[z] # q
      /\ \A r \in Queue \ {q} : mtx[r] # p
  BY <1>1, Alone
<1>5. QueueShape(q, L[q]) /\ NodeShape(p, L)
  BY <1>4 DEF Shape
<1>6. QueueShape(q, L[q])'
  BY <1>1, <1>3, <1>4, <1>5 DEF QueueShape, HolderIn
<1>7. /\ L[q] # <<>> /\ tail[q] = L[q][1] /\ L[q][1] \in Cell
      /\ tail[q] \in Cells(L[q])
  <2>1. L[q] # <<>>
    BY <1>1, <1>4, <1>5 DEF QueueShape, HolderIn
  <2> QED BY <1>5, <2>1 DEF QueueShape, IsList, Cells
<1>8. NodeShape(p, L)'
  BY <1>1, <1>3, <1>7 DEF NodeShape, Adding
<1>9. HandsApart'
  <2>1. \A z \in Process \ {p} : node[z] # tail[q]
    BY <1>1, <1>7, OthersApart
  <2> QED BY <1>3, <2>1 DEF Shape, HandsApart
<1>10. StepOf(p, q, {}, L, L)
  BY <1>1, <1>3, <1>4, OthersApart DEF StepOf
<1> QED BY <1>2, <1>4, <1>6, <1>8, <1>9, <1>10, OwnPart

(* What is left of a list without its first cell                           *)
LEMMA TailOfList ==
  ASSUME NEW l \in Seq(Cell), l # <<>>
  PROVE  /\ Tail(l) \in Seq(Cell) /\ Len(Tail(l)) = Len(l) - 1
         /\ \A j \in 1 .. Len(l) - 1 : Tail(l)[j] = l[j + 1]
         /\ Cells(Tail(l)) \subseteq Cells(l)
         /\ (\A j, k \in 1 .. Len(l) : l[j] = l[k] => j = k)
              => l[1] \notin Cells(Tail(l))
<1>1. Tail(l) \in Seq(Cell) /\ Len(Tail(l)) = Len(l) - 1 /\ Len(l) \in Nat
      /\ \A j \in 1 .. Len(l) - 1 : Tail(l)[j] = l[j + 1]
  OBVIOUS
<1>2. DOMAIN Tail(l) = 1 .. Len(l) - 1 /\ DOMAIN l = 1 .. Len(l)
  BY <1>1
<1>3. \A j \in 1 .. Len(l) - 1 : j + 1 \in 1 .. Len(l) /\ j + 1 # 1 /\ 1 \in 1 .. Len(l)
  BY <1>1
<1> QED BY <1>1, <1>2, <1>3 DEF Cells

(* M is L, except that l is on q.                                          *)
Becomes(L, q, l, M) == M[q] = l /\ \A r \in Queue \ {q} : M[r] = L[r]

(* moves the tail, which takes the node off the list,                      *)
LEMMA UnlinkStep ==
  ASSUME TypeOK, NEW L \in [Queue -> Seq(Cell)], Shape(L),
         NEW p \in Process, NEW q \in Queue, at[p] = q, Unlink(p),
         NEW M \in [Queue -> Seq(Cell)], Becomes(L, q, Tail(L[q]), M)
  PROVE  node[p] = L[q][1] /\ TypeOK' /\ Shape(M)'
<1>1. /\ pc[p] = "unlink" /\ pc' = [pc EXCEPT ![p] = "relink"]
      /\ tail' = [tail EXCEPT ![q] = prev[node[p]]]
      /\ UNCHANGED <<head, mtx, next, prev, at, node>>
  BY DEF Unlink, Goto, listVars, linkVars
<1>3. /\ pc'[p] = "relink" /\ \A z \in Process \ {p} : pc'[z] = pc[z]
      /\ tail'[q] = prev[node[p]] /\ \A r \in Queue \ {q} : tail'[r] = tail[r]
  BY <1>1 DEF TypeOK
<1>4. /\ mtx[q] = p
      /\ \A z \in Process \ {p} : pc[z] # "idle" => at[z] # q
      /\ \A r \in Queue \ {q} : mtx[r] # p
  BY <1>1, Alone
<1>5. QueueShape(q, L[q]) /\ NodeShape(p, L)
  BY <1>4 DEF Shape
<1>6. L[q] # <<>> /\ node[p] = L[q][1] /\ node[p] \in Cell
  BY <1>1, <1>5 DEF NodeShape, QueueShape, IsList, Adding
<1>2. TypeOK'
  BY <1>1, <1>6 DEF TypeOK, Getting
<1>7. /\ M[q] = Tail(L[q]) /\ \A r \in Queue \ {q} : M[r] = L[r]
      /\ M[q] \in Seq(Cell)
  BY DEF Becomes
<1>8. /\ Len(M[q]) = Len(L[q]) - 1 /\ Len(L[q]) \in Nat \ {0}
      /\ \A j \in 1 .. Len(L[q]) - 1 : M[q][j] = L[q][j + 1]
      /\ Cells(M[q]) \subseteq Cells(L[q]) /\ node[p] \notin Cells(M[q])
  BY <1>5, <1>6, <1>7, TailOfList DEF QueueShape
<1>9. /\ \A j \in 1 .. Len(L[q]) - 1 : L[q][j] # head[q] /\ prev[L[q][j]] = L[q][j + 1]
      /\ L[q][Len(L[q])] = head[q]
      /\ prev[L[q][Len(L[q])]] = NULL
  BY <1>1, <1>4, <1>5, <1>6 DEF QueueShape, IsList, HolderIn
<1>10. IsList(M[q], tail'[q], head[q], prev)
  <2>1. CASE Len(L[q]) = 1
    BY <1>3, <1>6, <1>7, <1>8, <1>9, <2>1 DEF IsList
  <2>2. CASE Len(L[q]) > 1
    <3>1. tail'[q] = M[q][1] /\ M[q][Len(M[q])] = head[q]
      <4>1. /\ 1 \in 1 .. Len(L[q]) - 1 /\ Len(L[q]) - 1 \in 1 .. Len(L[q]) - 1
            /\ (Len(L[q]) - 1) + 1 = Len(L[q])
        BY <1>8, <2>2
      <4>2. M[q][1] = L[q][1 + 1] /\ prev[L[q][1]] = L[q][1 + 1]
        BY ONLY <1>8, <1>9, <4>1
      <4>3. M[q][Len(L[q]) - 1] = L[q][(Len(L[q]) - 1) + 1]
        BY ONLY <1>8, <4>1
      <4> QED BY ONLY <1>3, <1>6, <1>8, <1>9, <4>1, <4>2, <4>3
    <3>2. ASSUME NEW j \in 1 .. Len(M[q]) - 1
          PROVE  M[q][j] # head[q] /\ prev[M[q][j]] = M[q][j + 1]
      <4>1. /\ j \in 1 .. Len(L[q]) - 1 /\ j + 1 \in 1 .. Len(L[q]) - 1
            /\ (j + 1) + 1 = j + 2
        BY <1>8, <2>2
      <4>2. M[q][j] = L[q][j + 1] /\ M[q][j + 1] = L[q][(j + 1) + 1]
        BY ONLY <1>8, <4>1
      <4> QED BY ONLY <1>9, <4>1, <4>2
    <3>3. M[q] # <<>>
      BY ONLY <1>7, <1>8, <2>2, Len(<<>>) = 0
    <3> QED BY ONLY <3>1, <3>2, <3>3 DEF IsList
  <2> QED BY <1>8, <2>1, <2>2
<1>11. QueueShape(q, M[q])'
  <2>1. ASSUME NEW j \in 1 .. Len(M[q]), NEW k \in 1 .. Len(M[q]), M[q][j] = M[q][k]
        PROVE  j = k
    <3>1. /\ j \in 1 .. Len(L[q]) - 1 /\ k \in 1 .. Len(L[q]) - 1
          /\ j + 1 \in 1 .. Len(L[q]) /\ k + 1 \in 1 .. Len(L[q])
      BY <1>8
    <3>2. L[q][j + 1] = L[q][k + 1]
      BY ONLY <1>8, <2>1, <3>1
    <3>3. j + 1 = k + 1
      BY <1>5, <3>1, <3>2 DEF QueueShape
    <3> QED BY ONLY <3>1, <3>3, <1>8
  <2>2. ASSUME NEW j \in 1 .. Len(M[q]) - 1 PROVE next[M[q][j + 1]] = M[q][j]
    <3>1. j \in 1 .. Len(L[q]) - 1 /\ j + 1 \in 1 .. Len(L[q]) - 1
      BY <1>8
    <3>2. M[q][j] = L[q][j + 1] /\ M[q][j + 1] = L[q][(j + 1) + 1]
      BY ONLY <1>8, <3>1
    <3> QED BY <1>5, <3>1, <3>2 DEF QueueShape
  <2>3. M[q] # <<>> => prev[M[q][Len(M[q])]] = NULL
    BY <1>7, <1>8, <1>9
  <2>4. HolderIn(q, {"relink", "tail"})' /\ HolderIn(q, {"relink"})'
    BY <1>1, <1>3, <1>4, ClientAssumption DEF HolderIn
  <2> QED BY <1>1, <1>10, <2>1, <2>2, <2>3, <2>4 DEF QueueShape
<1>12. NodeShape(p, M)'
  <2>1. ASSUME NEW r \in Queue PROVE node[p] \notin Cells(M[r])
    <3>1. node[p] \in Cells(L[q])
      BY ONLY <1>6, L[q] \in Seq(Cell) DEF Cells
    <3>2. CASE r = q
      BY <1>8, <3>2
    <3>3. CASE r # q
      <4>1. Cells(L[q]) \cap Cells(L[r]) = {} /\ M[r] = L[r]
        BY <1>1, <1>7, <3>3, OthersApart
      <4> QED BY <3>1, <4>1
    <3> QED BY <3>2, <3>3
  <2> QED BY <1>1, <1>3, <1>6, <2>1 DEF NodeShape, Adding
<1>13. HandsApart'
  BY <1>1 DEF Shape, HandsApart
<1>14. StepOf(p, q, {}, L, M)
  <2>1. ASSUME NEW z \in Process \ {p}
        PROVE  /\ pc'[z] = pc[z] /\ node'[z] = node[z] /\ at'[z] = at[z]
               /\ pc[z] # "idle" => at[z] # q
               /\ node[z] \in Cells(M[q]) => node[z] \in Cells(L[q])
    BY <1>1, <1>3, <1>4, <1>8, OthersApart
  <2>2. ASSUME NEW r \in Queue \ {q}
        PROVE  /\ head'[r] = head[r] /\ tail'[r] = tail[r] /\ mtx'[r] = mtx[r]
               /\ M[r] = L[r] /\ mtx[r] # p
               /\ Cells(M[q]) \cap Cells(L[r]) = {}
    BY <1>1, <1>3, <1>4, <1>7, <1>8, OthersApart
  <2> QED BY <1>1, <1>3, <1>4, <2>1, <2>2 DEF StepOf
<1>15. Shape(M)'
  <2>1. {} \in SUBSET Cell
    OBVIOUS
  <2> QED BY <1>11, <1>12, <1>13, <1>14, <2>1, OwnPart
<1> QED BY <1>2, <1>6, <1>15

(* The cells that p may write to when it is inside: those of its queue and *)
(* the one in its hand.                                                    *)
Mine(p, L) == Cells(L[at[p]]) \cup ({node[p]} \cap Cell)

(* OwnPart, with what p may write to.                                      *)
LEMMA InsideStep ==
  ASSUME TypeOK, NEW L \in [Queue -> Seq(Cell)], Shape(L),
         NEW M \in [Queue -> Seq(Cell)], NEW p \in Process, NEW q \in Queue,
         at[p] = q, pc[p] # "idle",
         NEW W \in SUBSET Cell, W \subseteq Mine(p, L), Cells(M[q]) \subseteq Mine(p, L),
         \A z \in Process \ {p} : pc'[z] = pc[z] /\ node'[z] = node[z] /\ at'[z] = at[z],
         \A r \in Queue \ {q} : /\ head'[r] = head[r] /\ tail'[r] = tail[r]
                                /\ mtx'[r] = mtx[r] /\ M[r] = L[r],
         \A c \in Cell \ W : next'[c] = next[c] /\ prev'[c] = prev[c],
         QueueShape(q, M[q])', NodeShape(p, M)', HandsApart'
  PROVE  Shape(M)'
<1>1. \A z \in Process \ {p} : node[z] \notin Mine(p, L)
  <2>1. \A z \in Process \ {p} : node[z] \notin Cells(L[q])
    BY OthersApart
  <2>2. node[p] \in Cell => \A z \in Process \ {p} : node[z] # node[p]
    BY OthersApart, ClientAssumption
  <2> QED BY <2>1, <2>2 DEF Mine
<1>2. \A r \in Queue \ {q} : Mine(p, L) \cap Cells(L[r]) = {}
  <2>1. \A r \in Queue \ {q} : Cells(L[q]) \cap Cells(L[r]) = {}
    BY OthersApart
  <2>2. \A r \in Queue \ {q} : node[p] \notin Cells(L[r])
    BY OnOwnQueue
  <2> QED BY <2>1, <2>2 DEF Mine
<1>3. /\ \A z \in Process \ {p} : pc[z] # "idle" => at[z] # q
      /\ \A r \in Queue \ {q} : mtx[r] # p
  BY Alone
<1>4. StepOf(p, q, W, L, M)
  BY <1>1, <1>2, <1>3 DEF StepOf
<1> QED BY <1>4, OwnPart

(* and mends the new last node, or the head of a queue that is empty now.  *)
LEMMA RelinkStep ==
  ASSUME TypeOK, NEW L \in [Queue -> Seq(Cell)], Shape(L),
         NEW p \in Process, NEW q \in Queue, at[p] = q, Relink(p)
  PROVE  TypeOK' /\ Shape(L)'
<1>1. /\ pc[p] = "relink" /\ pc' = [pc EXCEPT ![p] = "unlock"]
      /\ UNCHANGED <<tail, mtx, prev, at, node>>
  BY DEF Relink, Goto
<1>2. \/ /\ prev[node[p]] # NULL /\ next' = [next EXCEPT ![prev[node[p]]] = NULL]
         /\ UNCHANGED head
      \/ /\ prev[node[p]] = NULL /\ head' = [head EXCEPT ![q] = NULL]
         /\ UNCHANGED next
  BY DEF Relink, ClearNext, ClearHead
<1>3. TypeOK'
  <2>1. node[p] \in Cell
    BY <1>1 DEF Shape, NodeShape, Adding
  <2>2. /\ next' \in [Cell -> Cell \cup {NULL}]
        /\ head' \in [Queue -> Cell \cup {NULL}]
    BY <1>2 DEF TypeOK
  <2> QED BY <1>1, <2>2 DEF TypeOK, Getting
<1>4. /\ pc'[p] = "unlock" /\ \A z \in Process \ {p} : pc'[z] = pc[z]
      /\ \A r \in Queue \ {q} : head'[r] = head[r]
  BY <1>1, <1>2 DEF TypeOK
<1>5. mtx[q] = p /\ QueueShape(q, L[q]) /\ NodeShape(p, L)
  BY <1>1, Alone DEF Shape
<1>6. prev[node[p]] = tail[q] /\ tail[q] \in Cell \cup {NULL}
  BY <1>1, <1>5 DEF NodeShape, TypeOK
<1>7. NodeShape(p, L)'
  BY <1>1, <1>4, <1>5 DEF NodeShape, Adding
<1>8. HandsApart'
  BY <1>1 DEF Shape, HandsApart
<1>9. Len(L[q]) \in Nat /\ \A j \in 1 .. Len(L[q]) : L[q][j] \in Cell
  OBVIOUS
<1>10. CASE prev[node[p]] # NULL
  <2>1. L[q] # <<>> /\ L[q][1] = tail[q] /\ tail[q] \in Cell /\ 1 \in 1 .. Len(L[q])
    BY <1>5, <1>6, <1>10 DEF QueueShape, IsList
  <2>2. /\ next'[tail[q]] = NULL /\ \A c \in Cell \ {tail[q]} : next'[c] = next[c]
        /\ head' = head
    BY <1>2, <1>6, <1>10, <2>1 DEF TypeOK
  <2>3. ASSUME NEW j \in 1 .. Len(L[q]) - 1 PROVE next'[L[q][j + 1]] = L[q][j]
    <3>1. j + 1 \in 1 .. Len(L[q]) /\ j + 1 # 1
      BY <1>9
    <3>2. L[q][j + 1] # tail[q] /\ L[q][j + 1] \in Cell
      BY <1>5, <1>9, <2>1, <3>1 DEF QueueShape
    <3> QED BY <1>5, <2>2, <3>2 DEF QueueShape
  <2>4. prev[L[q][Len(L[q])]] = NULL
    BY <1>1, <1>5, <2>1 DEF QueueShape, HolderIn
  <2>5. QueueShape(q, L[q])'
    BY <1>1, <1>5, <2>1, <2>2, <2>3, <2>4 DEF QueueShape, IsList
  <2>6. {tail[q]} \in SUBSET Cell /\ {tail[q]} \subseteq Mine(p, L)
        /\ Cells(L[q]) \subseteq Mine(p, L)
    BY <2>1 DEF Mine, Cells
  <2> QED BY <1>1, <1>3, <1>4, <1>7, <1>8, <2>2, <2>5, <2>6, InsideStep
<1>11. CASE prev[node[p]] = NULL
  <2>1. L[q] = <<>>
    BY <1>5, <1>6, <1>9, <1>11, ClientAssumption DEF QueueShape, IsList
  <2>2. head'[q] = NULL /\ next' = next
    BY <1>2, <1>11 DEF TypeOK
  <2>3. QueueShape(q, L[q])'
    BY <1>1, <1>6, <1>11, <2>1, <2>2 DEF QueueShape, IsList
  <2>4. {} \in SUBSET Cell /\ {} \subseteq Mine(p, L) /\ Cells(L[q]) \subseteq Mine(p, L)
    BY DEF Mine
  <2> QED BY <1>1, <1>3, <1>4, <1>7, <1>8, <2>2, <2>3, <2>4, InsideStep
<1> QED BY <1>10, <1>11

(* queue_add_node() on an empty queue sets the head,                       *)
LEMMA AddFirstStep ==
  ASSUME TypeOK, NEW L \in [Queue -> Seq(Cell)], Shape(L),
         NEW p \in Process, NEW q \in Queue, at[p] = q, AddFirst(p)
  PROVE  TypeOK' /\ Shape(L)'
<1>1. /\ pc[p] = "add" /\ pc' = [pc EXCEPT ![p] = "tail"]
      /\ head[q] = NULL /\ head' = [head EXCEPT ![q] = node[p]]
      /\ UNCHANGED <<tail, mtx, next, prev, at, node>>
  BY DEF AddFirst, Goto, IsEmpty, linkVars
<1>2. TypeOK'
  BY <1>1 DEF TypeOK, Adding
<1>3. /\ pc'[p] = "tail" /\ \A z \in Process \ {p} : pc'[z] = pc[z]
      /\ head'[q] = node[p] /\ \A r \in Queue \ {q} : head'[r] = head[r]
  BY <1>1 DEF TypeOK
<1>4. mtx[q] = p /\ QueueShape(q, L[q]) /\ NodeShape(p, L)
  BY <1>1, Alone DEF Shape
<1>5. L[q] = <<>>
  BY <1>1, <1>4, ClientAssumption DEF QueueShape, IsList
<1>6. QueueShape(q, L[q])'
  BY <1>1, <1>3, <1>4, <1>5, ClientAssumption DEF QueueShape, IsList, HolderIn
<1>7. NodeShape(p, L)'
  BY <1>1, <1>3, <1>4, <1>5 DEF NodeShape, Adding
<1>8. HandsApart'
  BY <1>1 DEF Shape, HandsApart
<1>9. {} \in SUBSET Cell /\ {} \subseteq Mine(p, L) /\ Cells(L[q]) \subseteq Mine(p, L)
  BY DEF Mine
<1> QED BY <1>1, <1>2, <1>3, <1>6, <1>7, <1>8, <1>9, InsideStep

(* and the tail, which puts the node on the list.                          *)
LEMMA SetTailStep ==
  ASSUME TypeOK, NEW L \in [Queue -> Seq(Cell)], Shape(L),
         NEW p \in Process, NEW q \in Queue, at[p] = q, SetTail(p),
         NEW M, M = [L EXCEPT ![q] = <<node[p]>>]
  PROVE  /\ L[q] = <<>> /\ node[p] \in Cell
         /\ M \in [Queue -> Seq(Cell)]
         /\ TypeOK' /\ Shape(M)'
<1>1. /\ pc[p] = "tail" /\ pc' = [pc EXCEPT ![p] = "clear"]
      /\ tail' = [tail EXCEPT ![q] = node[p]]
      /\ next' = [next EXCEPT ![node[p]] = NULL]
      /\ UNCHANGED <<head, mtx, prev, at, node>>
  BY DEF SetTail, Goto
<1>2. mtx[q] = p /\ QueueShape(q, L[q]) /\ NodeShape(p, L)
  BY <1>1, Alone DEF Shape
<1>3. L[q] = <<>> /\ node[p] \in Cell /\ head[q] = node[p]
  BY <1>1, <1>2 DEF NodeShape, Adding
<1>4. TypeOK'
  BY <1>1, <1>3 DEF TypeOK, Adding
<1>5. /\ pc'[p] = "clear" /\ \A z \in Process \ {p} : pc'[z] = pc[z]
      /\ tail'[q] = node[p] /\ \A r \in Queue \ {q} : tail'[r] = tail[r]
      /\ next'[node[p]] = NULL /\ \A c \in Cell \ {node[p]} : next'[c] = next[c]
  BY <1>1, <1>3 DEF TypeOK
<1>6. /\ M[q] = <<node[p]>> /\ \A r \in Queue \ {q} : M[r] = L[r]
      /\ M \in [Queue -> Seq(Cell)]
  BY <1>3
<1>7. /\ M[q][1] = node[p] /\ Len(M[q]) = 1 /\ M[q] # <<>>
      /\ Cells(M[q]) = {node[p]}
  BY <1>6 DEF Cells
<1>8. QueueShape(q, M[q])'
  <2>1. IsList(M[q], tail'[q], head[q], prev)
    BY <1>3, <1>5, <1>7 DEF IsList
  <2>2. HolderIn(q, {"head", "clear"})'
    BY <1>1, <1>2, <1>5, ClientAssumption DEF HolderIn
  <2> QED BY <1>1, <1>5, <1>7, <2>1, <2>2 DEF QueueShape
<1>9. NodeShape(p, M)'
  BY <1>1, <1>3, <1>5, <1>7 DEF NodeShape, Adding
<1>10. HandsApart'
  BY <1>1 DEF Shape, HandsApart
<1>11. {node[p]} \in SUBSET Cell /\ {node[p]} \subseteq Mine(p, L)
       /\ Cells(M[q]) \subseteq Mine(p, L)
  BY <1>3, <1>7 DEF Mine
<1>12. Shape(M)'
  <2>1. M \in [Queue -> Seq(Cell)]
    BY <1>6
  <2>2. pc[p] # "idle"
    BY <1>1
  <2> QED BY ONLY ZenonT(40), TypeOK, Shape(L), <1>1, <1>5, <1>6, <1>8, <1>9, <1>10, <1>11,
              <2>1, <2>2, InsideStep, L \in [Queue -> Seq(Cell)], p \in Process,
              q \in Queue, at[p] = q
<1> QED BY <1>3, <1>4, <1>6, <1>12

(* On another it links the node and the first one,                         *)
LEMMA AddInFrontStep ==
  ASSUME TypeOK, NEW L \in [Queue -> Seq(Cell)], Shape(L),
         NEW p \in Process, NEW q \in Queue, at[p] = q, AddInFront(p)
  PROVE  TypeOK' /\ Shape(L)'
<1>1. /\ pc[p] = "add" /\ pc' = [pc EXCEPT ![p] = "head"] /\ head[q] # NULL
      /\ next' = [next EXCEPT ![node[p]] = head[q]]
      /\ prev' = [prev EXCEPT ![head[q]] = node[p]]
      /\ UNCHANGED <<head, tail, mtx, at, node>>
  BY DEF AddInFront, Goto, IsEmpty, listVars
<1>2. mtx[q] = p /\ QueueShape(q, L[q]) /\ NodeShape(p, L)
  BY <1>1, Alone DEF Shape
<1>3. node[p] \in Cell /\ head[q] \in Cell /\ node[p] \notin Cells(L[q])
  BY <1>1, <1>2 DEF NodeShape, Adding, TypeOK
<1>4. TypeOK'
  BY <1>1, <1>3 DEF TypeOK, Adding
<1>5. /\ pc'[p] = "head" /\ \A z \in Process \ {p} : pc'[z] = pc[z]
      /\ next'[node[p]] = head[q] /\ \A c \in Cell \ {node[p]} : next'[c] = next[c]
      /\ prev'[head[q]] = node[p] /\ \A c \in Cell \ {head[q]} : prev'[c] = prev[c]
  BY <1>1, <1>3 DEF TypeOK
<1>6. L[q] # <<>>
  BY <1>1, <1>2, ClientAssumption DEF QueueShape, HolderIn
<1>7. /\ Len(L[q]) \in Nat \ {0}
      /\ \A j \in 1 .. Len(L[q]) : /\ L[q][j] \in Cell \ {node[p]}
                                   /\ L[q][j] \in Cells(L[q])
  <2>1. \A j \in 1 .. Len(L[q]) : L[q][j] \in Cell /\ L[q][j] \in Cells(L[q])
    BY DEF Cells
  <2> QED BY <1>3, <1>6, <2>1
<1>8. /\ L[q][1] = tail[q] /\ L[q][Len(L[q])] = head[q] /\ head[q] \in Cells(L[q])
      /\ next[L[q][1]] = NULL
  BY <1>1, <1>2, <1>6, <1>7, ClientAssumption DEF QueueShape, IsList, HolderIn
<1>9. QueueShape(q, L[q])'
  <2>1. IsList(L[q], tail[q], head[q], prev')
    BY <1>2, <1>5, <1>6, <1>7 DEF QueueShape, IsList
  <2>2. \A j \in 1 .. Len(L[q]) - 1 : next'[L[q][j + 1]] = L[q][j]
    BY <1>2, <1>5, <1>7 DEF QueueShape
  <2>3. HolderIn(q, {"head", "clear"})' /\ next'[L[q][1]] = NULL
    BY <1>1, <1>2, <1>5, <1>7, <1>8, ClientAssumption DEF HolderIn
  <2> QED BY <1>1, <1>2, <1>6, <2>1, <2>2, <2>3 DEF QueueShape
<1>10. NodeShape(p, L)'
  BY <1>1, <1>2, <1>3, <1>5, <1>6 DEF NodeShape, Adding
<1>11. HandsApart'
  BY <1>1 DEF Shape, HandsApart
<1> DEFINE W == {node[p], head[q]}
<1>12. /\ W \in SUBSET Cell /\ W \subseteq Mine(p, L) /\ Cells(L[q]) \subseteq Mine(p, L)
       /\ \A c \in Cell \ W : next'[c] = next[c] /\ prev'[c] = prev[c]
  BY <1>3, <1>5, <1>8 DEF Mine
<1> HIDE DEF W
<1> QED BY <1>1, <1>4, <1>5, <1>9, <1>10, <1>11, <1>12, InsideStep

(* and moves the head, which puts the node on the list.                    *)
LEMMA SetHeadStep ==
  ASSUME TypeOK, NEW L \in [Queue -> Seq(Cell)], Shape(L),
         NEW p \in Process, NEW q \in Queue, at[p] = q, SetHead(p),
         NEW M, M = [L EXCEPT ![q] = Append(L[q], node[p])]
  PROVE  /\ node[p] \in Cell /\ node[p] \notin Cells(L[q])
         /\ M \in [Queue -> Seq(Cell)]
         /\ TypeOK' /\ Shape(M)'
<1>1. /\ pc[p] = "head" /\ pc' = [pc EXCEPT ![p] = "clear"]
      /\ head' = [head EXCEPT ![q] = node[p]]
      /\ UNCHANGED <<tail, mtx, next, prev, at, node>>
  BY DEF SetHead, Goto, linkVars
<1>2. mtx[q] = p /\ QueueShape(q, L[q]) /\ NodeShape(p, L)
  BY <1>1, Alone DEF Shape
<1>3. /\ node[p] \in Cell /\ node[p] \notin Cells(L[q]) /\ L[q] # <<>>
      /\ prev[head[q]] = node[p] /\ next[node[p]] = head[q]
  BY <1>1, <1>2 DEF NodeShape, Adding
<1>4. TypeOK'
  BY <1>1, <1>3 DEF TypeOK, Adding
<1>5. /\ pc'[p] = "clear" /\ \A z \in Process \ {p} : pc'[z] = pc[z]
      /\ head'[q] = node[p] /\ \A r \in Queue \ {q} : head'[r] = head[r]
  BY <1>1 DEF TypeOK
<1>6. /\ M[q] = Append(L[q], node[p]) /\ \A r \in Queue \ {q} : M[r] = L[r]
      /\ M \in [Queue -> Seq(Cell)]
  BY <1>3
<1> DEFINE n == Len(L[q])
<1>7. /\ n \in Nat \ {0} /\ Len(M[q]) = n + 1 /\ M[q] # <<>>
      /\ M[q][n + 1] = node[p] /\ \A j \in 1 .. n : M[q][j] = L[q][j]
      /\ \A j \in 1 .. n : L[q][j] \in Cell /\ L[q][j] \in Cells(L[q])
      /\ Cells(M[q]) \subseteq Cells(L[q]) \cup {node[p]}
  <2>1. /\ n \in Nat \ {0} /\ Len(M[q]) = n + 1
        /\ M[q][n + 1] = node[p] /\ \A j \in 1 .. n : M[q][j] = L[q][j]
        /\ M[q] \in Seq(Cell)
    BY <1>3, <1>6
  <2>2. \A j \in 1 .. n : L[q][j] \in Cell /\ L[q][j] \in Cells(L[q])
    BY DEF Cells
  <2>3. M[q] # <<>>
    BY ONLY <2>1, Len(<<>>) = 0
  <2>4. \A j \in 1 .. n + 1 : j \in 1 .. n \/ j = n + 1
    BY <2>1
  <2>5. DOMAIN M[q] = 1 .. n + 1
    BY <2>1
  <2>6. Cells(M[q]) \subseteq Cells(L[q]) \cup {node[p]}
    BY ONLY <2>1, <2>2, <2>4, <2>5 DEF Cells
  <2> QED BY <2>1, <2>2, <2>3, <2>6
<1> HIDE DEF n
<1>8. /\ L[q][1] = tail[q] /\ L[q][n] = head[q] /\ next[L[q][1]] = NULL
      /\ \A j \in 1 .. n - 1 : prev[L[q][j]] = L[q][j + 1] /\ next[L[q][j + 1]] = L[q][j]
      /\ \A j, k \in 1 .. n : L[q][j] = L[q][k] => j = k
  BY <1>1, <1>2, <1>3, ClientAssumption DEF QueueShape, IsList, HolderIn, n
<1>9. \A j \in 1 .. n : /\ j = n \/ (j \in 1 .. n - 1 /\ j + 1 \in 1 .. n)
                       /\ (n + 1) - 1 = n
  BY <1>7
<1>10. QueueShape(q, M[q])'
  <2>1. ASSUME NEW j \in 1 .. n PROVE /\ M[q][j] # node[p] /\ prev[M[q][j]] = M[q][j + 1]
                                     /\ next[M[q][j + 1]] = M[q][j]
    <3>1. M[q][j] = L[q][j] /\ L[q][j] # node[p]
      BY <1>3, <1>7
    <3>2. CASE j = n
      BY <1>3, <1>7, <1>8, <3>1, <3>2
    <3>3. CASE j \in 1 .. n - 1 /\ j + 1 \in 1 .. n
      BY <1>7, <1>8, <3>1, <3>3
    <3> QED BY <1>9, <3>2, <3>3
  <2>2. IsList(M[q], tail[q], head'[q], prev)
    <3>1. M[q][1] = tail[q] /\ M[q][Len(M[q])] = head'[q]
      BY <1>5, <1>7, <1>8
    <3> QED BY <1>5, <1>7, <1>9, <2>1, <3>1 DEF IsList
  <2>3. ASSUME NEW j \in 1 .. n + 1, NEW k \in 1 .. n + 1, M[q][j] = M[q][k]
        PROVE  j = k
    <3>1. (j \in 1 .. n \/ j = n + 1) /\ (k \in 1 .. n \/ k = n + 1)
      BY <1>7
    <3> QED BY <1>3, <1>7, <1>8, <2>3, <3>1
  <2>4. HolderIn(q, {"head", "clear"})'
    BY <1>1, <1>2, <1>5, ClientAssumption DEF HolderIn
  <2>5. next[M[q][1]] = NULL
    BY <1>7, <1>8
  <2>6. \A j \in 1 .. Len(M[q]) - 1 : next[M[q][j + 1]] = M[q][j]
    BY <1>7, <1>9, <2>1
  <2> QED BY <1>1, <1>7, <2>2, <2>3, <2>4, <2>5, <2>6 DEF QueueShape
<1>11. NodeShape(p, M)'
  BY <1>1, <1>3, <1>5, <1>7 DEF NodeShape, Adding
<1>12. HandsApart'
  BY <1>1 DEF Shape, HandsApart
<1>13. {} \in SUBSET Cell /\ {} \subseteq Mine(p, L) /\ Cells(M[q]) \subseteq Mine(p, L)
       /\ pc[p] # "idle"
  BY <1>1, <1>3, <1>7 DEF Mine
<1>14. Shape(M)'
  <2>1. M \in [Queue -> Seq(Cell)]
    BY <1>6
  <2> QED BY ONLY TypeOK, Shape(L), <1>1, <1>5, <1>6, <1>10, <1>11, <1>12, <1>13,
              <2>1, InsideStep, L \in [Queue -> Seq(Cell)], p \in Process,
              q \in Queue, at[p] = q
<1> QED BY <1>3, <1>4, <1>6, <1>14

(* In both cases it ends the list at its new head.                         *)
LEMMA ClearPrevStep ==
  ASSUME TypeOK, NEW L \in [Queue -> Seq(Cell)], Shape(L),
         NEW p \in Process, NEW q \in Queue, at[p] = q, ClearPrev(p)
  PROVE  TypeOK' /\ Shape(L)'
<1>1. /\ pc[p] = "clear" /\ pc' = [pc EXCEPT ![p] = "release"]
      /\ prev' = [prev EXCEPT ![node[p]] = NULL]
      /\ UNCHANGED <<head, tail, mtx, next, at, node>>
  BY DEF ClearPrev, Goto, NoPrev, listVars
<1>2. mtx[q] = p /\ QueueShape(q, L[q]) /\ NodeShape(p, L)
  BY <1>1, Alone DEF Shape
<1>3. node[p] \in Cell /\ L[q] # <<>> /\ node[p] = head[q]
  BY <1>1, <1>2 DEF NodeShape, Adding
<1>4. TypeOK'
  BY <1>1, <1>3 DEF TypeOK, Adding
<1>5. /\ pc'[p] = "release" /\ \A z \in Process \ {p} : pc'[z] = pc[z]
      /\ prev'[node[p]] = NULL /\ \A c \in Cell \ {node[p]} : prev'[c] = prev[c]
  BY <1>1, <1>3 DEF TypeOK
<1>6. L[q][Len(L[q])] = node[p] /\ \A j \in 1 .. Len(L[q]) : L[q][j] \in Cell
  BY <1>2, <1>3 DEF QueueShape, IsList
<1>7. IsList(L[q], tail[q], head[q], prev')
  <2>1. /\ L[q][1] = tail[q]
        /\ \A j \in 1 .. Len(L[q]) - 1 : /\ L[q][j] # head[q]
                                         /\ prev[L[q][j]] = L[q][j + 1]
    BY <1>2, <1>3 DEF QueueShape, IsList
  <2>2. \A j \in 1 .. Len(L[q]) - 1 : L[q][j] \in Cell
    BY <1>6
  <2>3. \A j \in 1 .. Len(L[q]) - 1 : prev'[L[q][j]] = prev[L[q][j]]
    BY ONLY <1>3, <1>5, <2>1, <2>2
  <2> QED BY <1>3, <1>6, <2>1, <2>3 DEF IsList
<1>8. QueueShape(q, L[q])'
  <2>1. next[L[q][1]] = NULL
    BY <1>1, <1>2, <1>3, ClientAssumption DEF QueueShape, HolderIn
  <2> QED BY <1>1, <1>2, <1>3, <1>5, <1>6, <1>7, <2>1 DEF QueueShape
<1>9. NodeShape(p, L)'
  BY <1>1, <1>2, <1>3, <1>5 DEF NodeShape, Adding
<1>10. HandsApart'
  BY <1>1 DEF Shape, HandsApart
<1>11. {node[p]} \in SUBSET Cell /\ {node[p]} \subseteq Mine(p, L)
       /\ Cells(L[q]) \subseteq Mine(p, L)
  BY <1>3 DEF Mine
<1> QED BY <1>1, <1>4, <1>5, <1>8, <1>9, <1>10, <1>11, InsideStep

(* pthread_mutex_unlock()                                                  *)
LEMMA UnlockStep ==
  ASSUME TypeOK, NEW L \in [Queue -> Seq(Cell)], Shape(L),
         NEW p \in Process, NEW q \in Queue, at[p] = q, Unlock(p)
  PROVE  TypeOK' /\ Shape(L)'
<1>1. /\ pc[p] \in {"unlock", "release"} /\ pc' = [pc EXCEPT ![p] = "idle"]
      /\ \/ pc[p] = "unlock" /\ node' = node
         \/ pc[p] = "release" /\ node' = [node EXCEPT ![p] = NULL]
      /\ mtx' = [mtx EXCEPT ![q] = NULL]
      /\ UNCHANGED <<head, tail, next, prev, at>>
  BY DEF Unlock, Goto, listVars, linkVars
<1>2. mtx[q] = p /\ QueueShape(q, L[q]) /\ NodeShape(p, L)
  BY <1>1, Alone DEF Shape
<1>3. /\ pc'[p] = "idle" /\ mtx'[q] = NULL
      /\ \A z \in Process \ {p} : pc'[z] = pc[z] /\ node'[z] = node[z]
      /\ \A r \in Queue \ {q} : mtx'[r] = mtx[r]
      /\ node' \in [Process -> Cell \cup {NULL}]
  BY <1>1 DEF TypeOK
<1>4. TypeOK'
  <2>1. ASSUME NEW r \in Queue, NEW z \in Process
        PROVE  mtx'[r] = z <=> pc'[z] # "idle" /\ at'[z] = r
    <3>1. mtx[r] = z <=> pc[z] # "idle" /\ at[z] = r
      BY DEF TypeOK
    <3>2. NULL # z
      BY ClientAssumption
    <3>3. mtx[q] = z <=> pc[z] # "idle" /\ at[z] = q
      BY DEF TypeOK
    <3>4. CASE r = q
      BY <1>1, <1>2, <1>3, <3>2, <3>3, <3>4
    <3>5. CASE r # q
      BY <1>1, <1>2, <1>3, <3>1, <3>5
    <3> QED BY <3>4, <3>5
  <2> QED BY <1>1, <1>3, <2>1 DEF TypeOK
<1>5. QueueShape(q, L[q])'
  <2>1. \A places : ~HolderIn(q, places)'
    BY <1>3 DEF HolderIn
  <2>2. /\ ~HolderIn(q, {"relink", "tail"}) /\ ~HolderIn(q, {"relink"})
        /\ ~HolderIn(q, {"head", "clear"})
    BY <1>1, <1>2 DEF HolderIn
  <2> HIDE DEF HolderIn
  <2> QED BY <1>1, <1>2, <2>1, <2>2 DEF QueueShape
<1>6. NodeShape(p, L)'
  <2>1. \A r \in Queue : NULL \notin Cells(L[r])
    BY ClientAssumption DEF Cells
  <2>2. \A r \in Queue : node'[p] \notin Cells(L[r])
    <3>1. CASE pc[p] = "unlock"
      BY <1>1, <1>2, <3>1 DEF NodeShape
    <3>2. CASE pc[p] = "release"
      <4>1. node'[p] = NULL
        BY <1>1, <3>2 DEF TypeOK
      <4> QED BY <2>1, <4>1
    <3> QED BY <1>1, <3>1, <3>2
  <2> QED BY <1>3, <2>2 DEF NodeShape, Adding
<1>7. HandsApart'
  <2>1. \A z \in Process : node'[z] = node[z] \/ node'[z] = NULL
    BY <1>1 DEF TypeOK
  <2> QED BY <2>1 DEF Shape, HandsApart
<1>8. {} \in SUBSET Cell /\ {} \subseteq Mine(p, L) /\ Cells(L[q]) \subseteq Mine(p, L)
  BY DEF Mine
<1> QED BY <1>1, <1>3, <1>4, <1>5, <1>6, <1>7, <1>8, InsideStep

(* pthread_mutex_lock()                                                    *)
LEMMA StartStep ==
  ASSUME TypeOK, NEW L \in [Queue -> Seq(Cell)], Shape(L),
         NEW p \in Process, NEW q \in Queue,
         (StartGet(p) /\ q = TakesFrom[p]) \/ StartAdd(p, q)
  PROVE  TypeOK' /\ Shape(L)'
<1>1. /\ pc[p] = "idle" /\ mtx[q] = NULL
      /\ \/ node[p] = NULL /\ pc' = [pc EXCEPT ![p] = "get"]
         \/ node[p] # NULL /\ pc' = [pc EXCEPT ![p] = "add"]
      /\ at' = [at EXCEPT ![p] = q] /\ mtx' = [mtx EXCEPT ![q] = p]
      /\ UNCHANGED <<head, tail, next, prev, node>>
  BY DEF StartGet, StartAdd, Goto, Lock, listVars, linkVars
<1>2. /\ pc'[p] \in {"get", "add"} /\ at'[p] = q /\ mtx'[q] = p
      /\ node[p] = NULL => pc'[p] = "get"
      /\ node[p] # NULL => pc'[p] = "add"
      /\ \A z \in Process \ {p} : pc'[z] = pc[z] /\ at'[z] = at[z]
      /\ \A r \in Queue \ {q} : mtx'[r] = mtx[r]
  BY <1>1 DEF TypeOK
<1>3. /\ \A z \in Process : pc[z] # "idle" => at[z] # q
      /\ \A r \in Queue : mtx[r] # p
  BY <1>1, ClientAssumption DEF TypeOK
<1>4. TypeOK'
  <2>1. ASSUME NEW r \in Queue, NEW z \in Process
        PROVE  mtx'[r] = z <=> pc'[z] # "idle" /\ at'[z] = r
    <3>1. mtx[r] = z <=> pc[z] # "idle" /\ at[z] = r
      BY DEF TypeOK
    <3>2. CASE z = p
      BY <1>2, <1>3, <3>2
    <3>3. CASE z # p
      BY <1>2, <1>3, <3>1, <3>3
    <3> QED BY <3>2, <3>3
  <2>2. pc' \in [Process -> {"idle"} \cup Getting \cup Adding]
    <3>1. {"get", "add"} \subseteq {"idle"} \cup Getting \cup Adding
      BY DEF Getting, Adding
    <3> DEFINE Places == {"idle"} \cup Getting \cup Adding
    <3>2. pc \in [Process -> Places] /\ "get" \in Places /\ "add" \in Places
      BY <3>1 DEF TypeOK
    <3> HIDE DEF Places
    <3>3. pc' \in [Process -> Places]
      BY ONLY <1>1, <3>2, p \in Process
    <3> QED BY <3>3 DEF Places
  <2>3. /\ at' \in [Process -> Queue]
        /\ mtx' \in [Queue -> Process \cup {NULL}]
    BY <1>1 DEF TypeOK
  <2> QED BY <1>1, <2>1, <2>2, <2>3 DEF TypeOK
<1>5. QueueShape(q, L[q])'
  <2>1. /\ ~HolderIn(q, {"relink", "tail"})' /\ ~HolderIn(q, {"relink"})'
        /\ ~HolderIn(q, {"head", "clear"})'
    BY <1>2 DEF HolderIn
  <2>2. \A places : ~HolderIn(q, places)
    BY <1>1 DEF HolderIn
  <2>3. QueueShape(q, L[q])
    BY DEF Shape
  <2> HIDE DEF HolderIn
  <2> QED BY <1>1, <2>1, <2>2, <2>3 DEF QueueShape
<1>6. NodeShape(p, L)'
  <2>1. \A r \in Queue : node[p] \notin Cells(L[r])
    BY <1>1 DEF Shape, NodeShape
  <2> QED BY <1>1, <1>2, <2>1 DEF NodeShape, Adding, TypeOK
<1>7. HandsApart'
  BY <1>1 DEF Shape, HandsApart
<1>8. StepOf(p, q, {}, L, L)
  <2>1. \A r \in Queue \ {q} : Cells(L[q]) \cap Cells(L[r]) = {}
    BY DEF Shape, Apart
  <2> QED BY <1>1, <1>2, <1>3, <2>1 DEF StepOf
<1>9. {} \in SUBSET Cell
  OBVIOUS
<1> QED BY <1>4, <1>5, <1>6, <1>7, <1>8, <1>9, OwnPart

(* A process outside its mutex changes what it holds and writes to cells   *)
(* that nobody else holds and that are on no queue.                        *)
LEMMA OutsideStep ==
  ASSUME TypeOK, NEW L \in [Queue -> Seq(Cell)], Shape(L),
         NEW p \in Process, pc[p] = "idle", NEW W \in SUBSET Cell,
         UNCHANGED <<head, tail, mtx, pc, at>>,
         \A z \in Process \ {p} : node'[z] = node[z] /\ node[z] \notin W,
         \A c \in Cell \ W : next'[c] = next[c] /\ prev'[c] = prev[c],
         \A r \in Queue : W \cap Cells(L[r]) = {} /\ node'[p] \notin Cells(L[r]),
         HandsApart'
  PROVE  Shape(L)'
<1>1. \A r \in Queue : Cells(L[r]) \subseteq Cell
  BY DEF Cells
<1>2. ASSUME NEW r \in Queue PROVE QueueShape(r, L[r])'
  <2>1. QueueShape(r, L[r]) /\ L[r] \in Seq(Cell)
    BY DEF Shape
  <2>2. \A c \in Cells(L[r]) : next'[c] = next[c] /\ prev'[c] = prev[c]
    BY <1>1
  <2>3. /\ head'[r] = head[r] /\ tail'[r] = tail[r] /\ mtx'[r] = mtx[r]
        /\ mtx[r] # NULL => pc'[mtx[r]] = pc[mtx[r]]
    OBVIOUS
  <2> QED BY ONLY <2>1, <2>2, <2>3, QueueKept, r \in Queue
<1>3. ASSUME NEW z \in Process \ {p} PROVE NodeShape(z, L)'
  <2>1. NodeShape(z, L)
    BY DEF Shape
  <2>2. /\ pc'[z] = pc[z] /\ node'[z] = node[z] /\ at'[z] = at[z] /\ at[z] \in Queue
        /\ head'[at[z]] = head[at[z]] /\ tail'[at[z]] = tail[at[z]]
    BY DEF TypeOK
  <2>3. pc[z] \in {"relink", "head"} =>
           next'[node[z]] = next[node[z]] /\ prev'[node[z]] = prev[node[z]]
    BY <2>1 DEF NodeShape, Adding
  <2>4. pc[z] = "head" => prev'[head[at[z]]] = prev[head[at[z]]]
    <3>1. SUFFICES ASSUME pc[z] = "head"
                   PROVE  prev'[head[at[z]]] = prev[head[at[z]]]
      OBVIOUS
    <3>2. L[at[z]] # <<>> /\ L[at[z]] \in Seq(Cell)
      BY <2>1, <2>2, <3>1 DEF NodeShape
    <3>3. head[at[z]] = L[at[z]][Len(L[at[z]])]
      BY <2>2, <3>2 DEF Shape, QueueShape, IsList
    <3>4. head[at[z]] \in Cells(L[at[z]])
      BY ONLY <3>2, <3>3 DEF Cells
    <3> QED BY <1>1, <2>2, <3>4
  <2>5. z \in Process /\ \A r \in Queue : node[z] \in Cells(L[r]) => node[z] \in Cells(L[r])
    OBVIOUS
  <2> QED BY ONLY <2>1, <2>2, <2>3, <2>4, <2>5, NodeKept
<1>4. NodeShape(p, L)'
  BY DEF NodeShape, Adding
<1> QED BY <1>2, <1>3, <1>4 DEF Shape, Apart

(* malloc() gives a node that is on no list and in no hand.                *)
LEMMA NewNodeStep ==
  ASSUME TypeOK, Lists \in [Queue -> Seq(Cell)], Shape(Lists), NEW L, L = Lists,
         NEW p \in Process, NewNode(p)
  PROVE  /\ node[p] = NULL /\ node'[p] \in Cell
         /\ \A r \in Queue : node'[p] \notin Cells(L[r])
         /\ \A z \in Process : node'[p] # node[z]
         /\ TypeOK' /\ Shape(L)'
<1>1. PICK c \in Cell \ Allocated :
        /\ node' = [node EXCEPT ![p] = c]
        /\ next' = [next EXCEPT ![c] = NULL]
        /\ prev' = [prev EXCEPT ![c] = NULL]
  BY DEF NewNode
<1>2. /\ pc[p] = "idle" /\ node[p] = NULL
      /\ UNCHANGED <<head, tail, mtx, pc, at>>
  BY DEF NewNode, listVars
<1>3. TypeOK'
  BY <1>1, <1>2 DEF TypeOK
<1>4. /\ node'[p] = c /\ \A z \in Process \ {p} : node'[z] = node[z]
      /\ \A x \in Cell \ {c} : next'[x] = next[x] /\ prev'[x] = prev[x]
  BY <1>1 DEF TypeOK
<1>5. \A r \in Queue : c \notin Cells(L[r])
  BY DEF Allocated, CellsOn, Lists, Cells
<1>6. \A z \in Process : node[z] # c
  BY ClientAssumption DEF Allocated, Held
<1>7. HandsApart'
  BY <1>4, <1>6 DEF Shape, HandsApart
<1>8. {c} \in SUBSET Cell /\ L \in [Queue -> Seq(Cell)] /\ Shape(L)
  OBVIOUS
<1>9. Shape(L)'
  BY ONLY TypeOK, p \in Process, <1>2, <1>4, <1>5, <1>6, <1>7, <1>8, OutsideStep
<1> QED BY <1>2, <1>3, <1>4, <1>5, <1>6, <1>9

(* FREE() of a node in hand                                                *)
LEMMA FreeNodeStep ==
  ASSUME TypeOK, NEW L \in [Queue -> Seq(Cell)], Shape(L),
         NEW p \in Process, FreeNode(p)
  PROVE  TypeOK' /\ Shape(L)'
<1>1. /\ pc[p] = "idle" /\ node' = [node EXCEPT ![p] = NULL]
      /\ UNCHANGED <<head, tail, mtx, next, prev, pc, at>>
  BY DEF FreeNode, listVars, linkVars
<1>2. TypeOK'
  BY <1>1 DEF TypeOK
<1>3. node'[p] = NULL /\ \A z \in Process \ {p} : node'[z] = node[z]
  BY <1>1 DEF TypeOK
<1>4. \A r \in Queue : NULL \notin Cells(L[r])
  BY ClientAssumption DEF Cells
<1>5. HandsApart'
  BY <1>3 DEF Shape, HandsApart
<1>6. {} \in SUBSET Cell
  OBVIOUS
<1> QED BY <1>1, <1>2, <1>3, <1>4, <1>5, <1>6, OutsideStep

-----------------------------------------------------------------------------
(* A state has one L in which it has its shape.                            *)

LEMMA ListsAfter ==
  ASSUME NEW M \in [Queue -> Seq(Cell)], TypeOK', Shape(M)'
  PROVE  Lists' = M /\ LinkInv'
<1>1. ASSUME NEW q \in Queue PROVE Listed(q)' = M[q]
  <2>1. /\ IsList(M[q], tail'[q], head'[q], prev')
        /\ \A j, k \in 1 .. Len(M[q]) : M[q][j] = M[q][k] => j = k
    BY DEF Shape, QueueShape
  <2>2. M[q] \in Seq(Cell) /\ Len(M[q]) <= Cardinality(Cell)
    BY <2>1, ListFits
  <2>3. tail'[q] \in Cell \cup {NULL} /\ prev' \in [Cell -> Cell \cup {NULL}]
    BY DEF TypeOK
  <2>4. Walk(tail'[q], head'[q], prev') = M[q]
    BY ONLY <2>1, <2>2, <2>3, WalkIsList
  <2> QED BY <2>4 DEF Listed
<1>2. Lists' = M
  BY <1>1 DEF Lists
<1>3. Shape(Lists)'
  BY <1>2 DEF Shape, QueueShape, NodeShape, Apart
<1> QED BY <1>2, <1>3 DEF LinkInv

(* The empty queues have the shape.                                        *)
LEMMA LinkInit == Init => TypeOK /\ LinkInv
<1> SUFFICES ASSUME Init PROVE TypeOK /\ LinkInv
  OBVIOUS
<1> USE ClientAssumption DEF Init
<1>1. TypeOK
  BY DEF TypeOK
<1> DEFINE L == [q \in Queue |-> <<>>]
<1>2. L \in [Queue -> Seq(Cell)]
  OBVIOUS
<1>3. ASSUME NEW q \in Queue
      PROVE  QueueShape(q, <<>>) /\ L[q] = <<>> /\ Cells(L[q]) = {}
  BY DEF QueueShape, IsList, Cells, HolderIn
<1> HIDE DEF L
<1>4. \A q \in Queue : QueueShape(q, L[q])
  BY <1>3
<1>5. \A p \in Process : NodeShape(p, L)
  BY <1>3 DEF NodeShape, Adding
<1>6. Shape(L)
  BY <1>3, <1>4, <1>5 DEF Shape, Apart, HandsApart
<1>7. Lists = L
  BY <1>1, <1>2, <1>4, ShapeIsListed DEF Lists
<1> QED BY <1>1, <1>2, <1>6, <1>7 DEF LinkInv

(* A cell in hand that is on a list is the first or the last of it.        *)
OnList == {"unlink", "clear", "release"}
Free == [p \in Process |-> IF pc[p] \in OnList THEN NULL ELSE node[p]]

LEMMA EndsAreOn ==
  ASSUME NEW l \in Seq(Cell), l # <<>>, NEW first, NEW last, NEW before,
         IsList(l, first, last, before)
  PROVE  first \in Cells(l) /\ last \in Cells(l)
BY DEF IsList, Cells

(* What counts as in hand for Fifo, told from where the process is: before *)
(* a step,                                                                 *)
LEMMA HandsNow ==
  ASSUME TypeOK, LinkInv
  PROVE  InHand = Free
<1>1. ASSUME NEW p \in Process PROVE node[p] \in CellsOn(at[p]) <=> pc[p] \in OnList
  <2>1. at[p] \in Queue /\ CellsOn(at[p]) = Cells(Lists[at[p]])
    <3>1. at[p] \in Queue
      BY DEF TypeOK
    <3>2. Listed(at[p]) = Lists[at[p]]
      BY <3>1 DEF Lists
    <3> QED BY <3>1, <3>2 DEF CellsOn, Cells
  <2>2. NodeShape(p, Lists) /\ QueueShape(at[p], Lists[at[p]]) /\ Lists[at[p]] \in Seq(Cell)
    BY <2>1 DEF LinkInv, Shape
  <2> QED BY <2>1, <2>2, EndsAreOn DEF NodeShape, QueueShape, OnList
<1> QED BY <1>1 DEF InHand, Free

(* and after it.                                                           *)
LEMMA HandsAfter ==
  ASSUME TypeOK', LinkInv'
  PROVE  InHand' = Free'
<1>1. ASSUME NEW p \in Process PROVE node'[p] \in CellsOn(at[p])' <=> pc'[p] \in OnList
  <2>1. at'[p] \in Queue /\ CellsOn(at[p])' = Cells(Lists'[at'[p]])
    <3>1. at'[p] \in Queue
      BY DEF TypeOK
    <3>2. Listed(at[p])' = Lists'[at'[p]]
      BY <3>1 DEF Lists
    <3> QED BY <3>1, <3>2 DEF CellsOn, Cells
  <2>2. NodeShape(p, Lists)' /\ QueueShape(at[p], Lists[at[p]])' /\ Lists'[at'[p]] \in Seq(Cell)
    BY <2>1 DEF LinkInv, Shape
  <2> QED BY <2>1, <2>2, EndsAreOn DEF NodeShape, QueueShape, OnList
<1> QED BY <1>1 DEF InHand, Free

(* A step that leaves Fifo's sequences and hands alone                     *)
LEMMA Quiet ==
  ASSUME TypeOK, LinkInv, NEW L \in [Queue -> Seq(Cell)], L = Lists,
         TypeOK', Shape(L)', Free' = Free
  PROVE  LinkInv' /\ UNCHANGED <<Lists, InHand>>
<1>1. Lists' = L /\ LinkInv'
  BY ListsAfter
<1>2. InHand' = Free' /\ InHand = Free
  BY <1>1, HandsAfter, HandsNow
<1> QED BY <1>1, <1>2

(* What p has in hand after it; the others keep what they have.            *)
LEMMA Handed ==
  ASSUME TypeOK, LinkInv, NEW M \in [Queue -> Seq(Cell)], NEW p \in Process, NEW x,
         TypeOK', Shape(M)',
         \A z \in Process \ {p} : pc'[z] = pc[z] /\ node'[z] = node[z],
         x = IF pc'[p] \in OnList THEN NULL ELSE node'[p]
  PROVE  /\ LinkInv' /\ Lists' = M /\ InHand' = [InHand EXCEPT ![p] = x]
         /\ InHand[p] = IF pc[p] \in OnList THEN NULL ELSE node[p]
<1>1. Lists' = M /\ LinkInv'
  BY ListsAfter
<1>2. InHand' = Free' /\ InHand = Free
  BY <1>1, HandsAfter, HandsNow
<1>3. Free' = [Free EXCEPT ![p] = x]
  BY DEF Free
<1> QED BY <1>1, <1>2, <1>3 DEF Free

(* NewNode is Make of Fifo,                                                *)
LEMMA MakeStep ==
  ASSUME TypeOK, LinkInv, NEW p \in Process, NewNode(p)
  PROVE  TypeOK' /\ LinkInv' /\ Sequential!Make(p)
<1>1. PICK L \in [Queue -> Seq(Cell)] : L = Lists
  BY DEF LinkInv
<1>2. /\ node[p] = NULL /\ node'[p] \in Cell
      /\ \A r \in Queue : node'[p] \notin Cells(L[r])
      /\ \A z \in Process : node'[p] # node[z]
      /\ TypeOK' /\ Shape(L)'
  BY <1>1, NewNodeStep DEF LinkInv
<1>3. /\ pc[p] = "idle" /\ pc' = pc
      /\ \A z \in Process \ {p} : node'[z] = node[z]
  BY DEF NewNode, TypeOK
<1>4. /\ LinkInv' /\ Lists' = L /\ InHand' = [InHand EXCEPT ![p] = node'[p]]
      /\ InHand[p] = NULL
  <2>1. node'[p] = IF pc'[p] \in OnList THEN NULL ELSE node'[p]
    BY <1>3 DEF OnList
  <2> QED BY <1>2, <1>3, <2>1, Handed
<1>5. node'[p] \notin Sequential!InUse
  <2>1. \A z \in Process : InHand[z] \in {NULL, node[z]}
    BY DEF InHand
  <2>2. node'[p] # NULL
    BY <1>2, ClientAssumption
  <2>3. \A z \in Process : InHand[z] # node'[p]
    BY <1>2, <2>1, <2>2
  <2>4. \A r \in Queue : Sequential!CellsOn(r) = Cells(L[r])
    BY <1>1 DEF Sequential!CellsOn, Cells
  <2> DEFINE A == UNION {Sequential!CellsOn(r) : r \in Queue}
             B == {InHand[z] : z \in Process}
  <2>5. node'[p] \notin A
    BY <1>2, <2>4
  <2>6. node'[p] \notin B
    BY <2>3
  <2>7. Sequential!InUse = A \cup B
    BY DEF Sequential!InUse
  <2> HIDE DEF A, B
  <2> QED BY ONLY <2>5, <2>6, <2>7
<1> QED BY <1>1, <1>2, <1>4, <1>5 DEF Sequential!Make

(* FreeNode is Discard,                                                    *)
LEMMA DiscardStep ==
  ASSUME TypeOK, LinkInv, NEW p \in Process, FreeNode(p)
  PROVE  TypeOK' /\ LinkInv' /\ Sequential!Discard(p)
<1>1. PICK L \in [Queue -> Seq(Cell)] : L = Lists
  BY DEF LinkInv
<1>2. TypeOK' /\ Shape(L)'
  BY <1>1, FreeNodeStep DEF LinkInv
<1>3. /\ pc[p] = "idle" /\ pc' = pc /\ node[p] # NULL /\ node'[p] = NULL
      /\ \A z \in Process \ {p} : node'[z] = node[z]
  BY DEF FreeNode, TypeOK
<1>4. NULL = IF pc'[p] \in OnList THEN NULL ELSE node'[p]
  BY <1>3
<1>5. /\ LinkInv' /\ Lists' = L /\ InHand' = [InHand EXCEPT ![p] = NULL]
      /\ InHand[p] = IF pc[p] \in OnList THEN NULL ELSE node[p]
  BY <1>2, <1>3, <1>4, Handed
<1>6. InHand[p] # NULL
  BY <1>3, <1>5 DEF OnList
<1> QED BY <1>1, <1>2, <1>5, <1>6 DEF Sequential!Discard

(* Unlink is Take,                                                         *)
LEMMA TakeStep ==
  ASSUME TypeOK, LinkInv, NEW p \in Process, NEW q \in Queue, at[p] = q, Unlink(p)
  PROVE  TypeOK' /\ LinkInv' /\ Sequential!Take(p, q)
<1>1. PICK L \in [Queue -> Seq(Cell)] : L = Lists /\ Shape(L)
  BY DEF LinkInv
<1>2. L[q] # <<>>
  BY <1>1 DEF Unlink, Goto, Shape, NodeShape
<1>3. PICK M \in [Queue -> Seq(Cell)] : M = [L EXCEPT ![q] = Tail(L[q])]
  BY <1>2, TailOfList
<1>9. Becomes(L, q, Tail(L[q]), M)
  BY <1>3 DEF Becomes
<1>8. node[p] = L[q][1] /\ TypeOK' /\ Shape(M)'
  BY <1>1, <1>9, UnlinkStep
<1>4. /\ pc[p] = "unlink" /\ pc'[p] = "relink" /\ node' = node
      /\ \A z \in Process \ {p} : pc'[z] = pc[z]
  BY DEF Unlink, Goto, TypeOK
<1>5. node[p] = IF pc'[p] \in OnList THEN NULL ELSE node'[p]
  BY <1>4 DEF OnList
<1>6. /\ LinkInv' /\ Lists' = M /\ InHand' = [InHand EXCEPT ![p] = node[p]]
      /\ InHand[p] = IF pc[p] \in OnList THEN NULL ELSE node[p]
  BY <1>4, <1>5, <1>8, Handed
<1>7. InHand[p] = NULL /\ node[p] = Head(Lists[q])
  BY <1>1, <1>2, <1>4, <1>6, <1>8 DEF OnList
<1> QED BY <1>1, <1>2, <1>3, <1>6, <1>7, <1>8 DEF Sequential!Take

(* and SetTail and SetHead are Put.                                        *)
LEMMA PutStep ==
  ASSUME TypeOK, LinkInv, NEW p \in Process, NEW q \in Queue, at[p] = q,
         SetTail(p) \/ SetHead(p)
  PROVE  TypeOK' /\ LinkInv' /\ Sequential!Put(p, q)
<1>1. PICK L \in [Queue -> Seq(Cell)] : L = Lists /\ Shape(L)
  BY DEF LinkInv
<1>2. PICK M : M = [L EXCEPT ![q] = Append(L[q], node[p])]
  OBVIOUS
<1>3. /\ node[p] \in Cell /\ M \in [Queue -> Seq(Cell)]
      /\ TypeOK' /\ Shape(M)'
  <2>1. CASE SetTail(p)
    <3>1. L[q] = <<>> /\ node[p] \in Cell
      BY <1>1, <2>1, SetTailStep
    <3>2. M = [L EXCEPT ![q] = <<node[p]>>]
      BY <1>2, <3>1
    <3> QED BY <1>1, <2>1, <3>2, SetTailStep
  <2>2. CASE SetHead(p)
    BY <1>1, <1>2, <2>2, SetHeadStep
  <2> QED BY <2>1, <2>2
<1>4. /\ pc[p] \in {"tail", "head"} /\ pc'[p] = "clear" /\ node' = node
      /\ \A z \in Process \ {p} : pc'[z] = pc[z]
  BY DEF SetTail, SetHead, Goto, TypeOK
<1>5. NULL = IF pc'[p] \in OnList THEN NULL ELSE node'[p]
  BY <1>4 DEF OnList
<1>6. /\ LinkInv' /\ Lists' = M /\ InHand' = [InHand EXCEPT ![p] = NULL]
      /\ InHand[p] = IF pc[p] \in OnList THEN NULL ELSE node[p]
  BY <1>3, <1>4, <1>5, Handed
<1>7. InHand[p] = node[p] /\ node[p] # NULL
  BY <1>3, <1>4, <1>6, ClientAssumption DEF OnList
<1> QED BY <1>1, <1>2, <1>3, <1>6, <1>7 DEF Sequential!Put

(* The steps that leave the sequences and the hands alone                  *)
LEMMA QuietStep ==
  ASSUME TypeOK, LinkInv, NEW p \in Process,
         \/ StartGet(p) \/ (\E q \in Queue : StartAdd(p, q))
         \/ GetNothing(p) \/ GetTail(p) \/ Relink(p)
         \/ AddFirst(p) \/ AddInFront(p) \/ ClearPrev(p) \/ Unlock(p)
  PROVE  TypeOK' /\ LinkInv' /\ UNCHANGED <<Lists, InHand>>
<1>1. PICK L \in [Queue -> Seq(Cell)] : L = Lists /\ Shape(L)
  BY DEF LinkInv
<1>2. PICK q \in Queue : q = at[p]
  BY DEF TypeOK
<1>3. TypeOK' /\ Shape(L)'
  <2>1. CASE StartGet(p)
    <3>1. TakesFrom[p] \in Queue
      BY ClientAssumption
    <3> QED BY <1>1, <2>1, <3>1, StartStep
  <2>2. CASE \E r \in Queue : StartAdd(p, r)
    BY <1>1, <2>2, StartStep
  <2>3. CASE GetNothing(p) \/ GetTail(p) \/ Relink(p)
    BY <1>1, <1>2, <2>3, GetNothingStep, GetTailStep, RelinkStep
  <2>4. CASE AddFirst(p) \/ AddInFront(p) \/ ClearPrev(p)
    BY <1>1, <1>2, <2>4, AddFirstStep, AddInFrontStep, ClearPrevStep
  <2>5. CASE Unlock(p)
    BY <1>1, <1>2, <2>5, UnlockStep
  <2> QED BY <2>1, <2>2, <2>3, <2>4, <2>5
<1>4. \A z \in Process \ {p} : pc'[z] = pc[z] /\ node'[z] = node[z]
  BY DEF TypeOK, Goto, StartGet, StartAdd, GetNothing, GetTail, Relink, AddFirst,
         AddInFront, ClearPrev, Unlock
<1>5. (IF pc'[p] \in OnList THEN NULL ELSE node'[p])
        = IF pc[p] \in OnList THEN NULL ELSE node[p]
  <2>1. pc[p] = "get" => node[p] = NULL
    BY <1>1 DEF Shape, NodeShape
  <2> QED BY <2>1 DEF TypeOK, OnList, Goto, StartGet, StartAdd, GetNothing, GetTail,
             Relink, AddFirst, AddInFront, ClearPrev, Unlock
<1>6. Free' = Free
  BY <1>4, <1>5 DEF Free
<1> QED BY <1>1, <1>3, <1>6, Quiet

(* Every step keeps the invariant and is a step of Fifo or none.           *)
LEMMA LinkNext ==
  ASSUME TypeOK, LinkInv, [Next]_vars
  PROVE  TypeOK' /\ LinkInv' /\ [Sequential!Next]_(Sequential!vars)
<1>1. ASSUME NEW p \in Process, NewNode(p) \/ FreeNode(p)
      PROVE  TypeOK' /\ LinkInv' /\ Sequential!Next
  BY <1>1, MakeStep, DiscardStep DEF Sequential!Next
<1>2. ASSUME NEW p \in Process, Unlink(p) \/ SetTail(p) \/ SetHead(p)
      PROVE  TypeOK' /\ LinkInv' /\ Sequential!Next
  <2>1. PICK q \in Queue : q = at[p]
    BY DEF TypeOK
  <2> QED BY <1>2, <2>1, TakeStep, PutStep DEF Sequential!Next
<1>3. ASSUME NEW p \in Process,
             \/ StartGet(p) \/ (\E q \in Queue : StartAdd(p, q))
             \/ GetNothing(p) \/ GetTail(p) \/ Relink(p)
             \/ AddFirst(p) \/ AddInFront(p) \/ ClearPrev(p) \/ Unlock(p)
      PROVE  TypeOK' /\ LinkInv' /\ UNCHANGED Sequential!vars
  BY <1>3, QuietStep DEF Sequential!vars
<1>4. ASSUME UNCHANGED vars PROVE TypeOK' /\ LinkInv' /\ UNCHANGED Sequential!vars
  <2>1. TypeOK'
    BY <1>4 DEF TypeOK, vars, listVars, linkVars
  <2>2. PICK L \in [Queue -> Seq(Cell)] : L = Lists /\ Shape(L)
    BY DEF LinkInv
  <2>3. Shape(L)'
    BY <1>4, <2>2 DEF Shape, QueueShape, IsList, NodeShape, HolderIn, HandsApart, Apart,
                      vars, listVars, linkVars
  <2>4. Free' = Free
    BY <1>4 DEF Free, vars
  <2> QED BY <2>1, <2>2, <2>3, <2>4, Quiet DEF Sequential!vars
<1> QED BY <1>1, <1>2, <1>3, <1>4 DEF Next, Inside

-----------------------------------------------------------------------------
(* Theorems *)

(* The invariant holds in every state.                                     *)
LEMMA LinkAlways == Spec => [](TypeOK /\ LinkInv)
<1>1. Init => TypeOK /\ LinkInv
  BY LinkInit
<1>2. TypeOK /\ LinkInv /\ [Next]_vars => (TypeOK /\ LinkInv)'
  BY LinkNext
<1> QED BY <1>1, <1>2, PTL DEF Spec

(* The variables have their types, and a mutex belongs to the process that *)
(* is inside (pthread_mutex_lock/unlock in queue.c).                       *)
THEOREM QueueTypes == Spec => []TypeOK
BY LinkAlways, PTL

(* Whoever has the mutex and asks whether the queue is empty finds both    *)
(* ends NULL or neither (queue.c:77, "has something wrong").               *)
THEOREM EndsAgree == Spec => []NothingWrong
<1>1. TypeOK /\ LinkInv => NothingWrong
  <2> SUFFICES ASSUME TypeOK, LinkInv, NEW p \in Process, pc[p] \in {"get", "add"}
               PROVE  head[at[p]] = NULL <=> tail[at[p]] = NULL
    BY DEF NothingWrong
  <2>1. PICK q \in Queue : q = at[p] /\ mtx[q] = p
    BY Alone
  <2>2. Lists[q] \in Seq(Cell) /\ QueueShape(q, Lists[q])
    BY DEF LinkInv, Shape
  <2>3. ~HolderIn(q, {"relink", "tail"})
    BY <2>1 DEF HolderIn
  <2>4. CASE Lists[q] = <<>>
    BY <2>1, <2>2, <2>3, <2>4 DEF QueueShape, IsList
  <2>5. CASE Lists[q] # <<>>
    <3>1. tail[q] \in Cells(Lists[q]) /\ head[q] \in Cells(Lists[q])
      BY <2>2, <2>5, EndsAreOn DEF QueueShape
    <3>2. NULL \notin Cells(Lists[q])
      BY <2>2, ClientAssumption DEF Cells
    <3> QED BY <2>1, <3>1, <3>2
  <2> QED BY <2>4, <2>5
<1> QED BY <1>1, LinkAlways, PTL

(* A list whose mutex is free reads the same by prev from the tail and by  *)
(* next from the head, wherever its nodes were before (queue.c).           *)
THEOREM SameBothWays == Spec => []ReadsBothWays
<1>1. TypeOK /\ LinkInv => ReadsBothWays
  <2> SUFFICES ASSUME TypeOK, LinkInv, NEW q \in Queue, mtx[q] = NULL, NEW l, l = Listed(q)
               PROVE  /\ (l = <<>>) = (head[q] = NULL)
                      /\ l # <<>> => /\ l[Len(l)] = head[q]
                                     /\ prev[l[Len(l)]] = NULL
                                     /\ next[l[1]] = NULL
                      /\ \A j \in 1 .. Len(l) - 1 :
                           prev[l[j]] = l[j + 1] /\ next[l[j + 1]] = l[j]
    BY DEF ReadsBothWays
  <2>1. l \in Seq(Cell) /\ QueueShape(q, l)
    BY DEF LinkInv, Shape, Lists
  <2>2. \A places : ~HolderIn(q, places)
    BY DEF HolderIn
  <2>3. /\ l = <<>> => head[q] = NULL
        /\ l # <<>> => /\ l[Len(l)] = head[q] /\ l[Len(l)] \in Cell
                       /\ prev[l[Len(l)]] = NULL /\ next[l[1]] = NULL
        /\ \A j \in 1 .. Len(l) - 1 : prev[l[j]] = l[j + 1] /\ next[l[j + 1]] = l[j]
    BY <2>1, <2>2 DEF QueueShape, IsList
  <2> QED BY <2>3, ClientAssumption
<1> QED BY <1>1, LinkAlways, PTL

(* The linked lists implement Fifo: no node is lost, doubled or taken out  *)
(* of turn, whatever the processes do (queue_get_node, queue_add_node).    *)
THEOREM QueuesAreFifo == Spec => ImplementsFifo
<1>1. Init => Sequential!Init
  <2> SUFFICES ASSUME Init PROVE Sequential!Init
    OBVIOUS
  <2>1. TypeOK /\ LinkInv
    BY LinkInit
  <2>2. ASSUME NEW q \in Queue PROVE Lists[q] = <<>>
    <3>1. Lists[q] \in Seq(Cell) /\ QueueShape(q, Lists[q])
      BY <2>1 DEF LinkInv, Shape
    <3>2. tail[q] = NULL
      BY DEF Init
    <3> QED BY <3>1, <3>2, ClientAssumption DEF QueueShape, IsList
  <2>3. Lists = [q \in Queue |-> <<>>]
    BY <2>2 DEF Lists
  <2>4. InHand = [p \in Process |-> NULL]
    BY DEF Init, InHand
  <2> QED BY <2>3, <2>4 DEF Sequential!Init
<1>2. TypeOK /\ LinkInv /\ [Next]_vars => [Sequential!Next]_(Sequential!vars)
  BY LinkNext
<1> QED BY <1>1, <1>2, LinkAlways, PTL DEF Spec, ImplementsFifo, Sequential!Spec
=============================================================================
