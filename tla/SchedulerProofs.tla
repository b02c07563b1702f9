--------------------------- MODULE SchedulerProofs ---------------------------
(***************************************************************************)
(* Proofs about Scheduler, for every dependency tree and number of build   *)
(* threads.                                                                *)
(***************************************************************************)
EXTENDS Scheduler, TLAPS, FiniteSetTheorems

USE ThreadAssumption DEF Thread, Builder, Monitor, Entry

(***************************************************************************)
(* Where the control of main and of the threads can be, and what they hold *)
(* there.                                                                  *)
(***************************************************************************)
Building == {"spawn", "scan", "dispatch", "monitor", "poll", "handle"}
NoKill(q) == \A j \in DOMAIN q : q[j] # Kill

MainControl ==
  /\ main = "spawn" => i \in 0 .. N
  /\ main \in {"scan", "dispatch", "monitor", "poll", "handle"} => i \in Nat \ {0}
  /\ main = "scan" => i \in DOMAIN LeafOrder
  /\ main = "kill" => i \in 0 .. N
  /\ IF main \in {"dispatch", "monitor", "handle"} THEN held \in Node
                                                  ELSE held = NoNode
  /\ main \in Building => NoKill(response_queue)

ThreadControl ==
  \A t \in Thread :
    /\ IF pc[t] \in {"got", "running", "respond", "requeue"}
       THEN hand[t] \in Node
       ELSE hand[t] = IF pc[t] = "ack" THEN Kill ELSE NoNode
    /\ pc[t] = "running" => t \in Builder
    /\ pc[t] = "requeue" => t = Monitor
    /\ main = "spawn" /\ t >= i => pc[t] = "none"
    /\ main \in Building => pc[t] \notin {"ack", "exit"}

QueueControl ==
  main \in Building => NoKill(dispatch_queue) /\ NoKill(monitor_queue)

Control == MainControl /\ ThreadControl /\ QueueControl

(***************************************************************************)
(* Queues                                                                  *)
(***************************************************************************)
(* What taking the oldest entry off a queue returns and leaves.            *)
LEMMA TakeFromQueue ==
  ASSUME NEW q \in Seq(Entry), q # <<>>
  PROVE  /\ Head(q) \in Entry
         /\ Tail(q) \in Seq(Entry)
         /\ NoKill(q) => NoKill(Tail(q)) /\ Head(q) \in Node
BY DEF NoKill

(* What adding an entry to a queue leaves.                                 *)
LEMMA AddToQueue ==
  ASSUME NEW q \in Seq(Entry), NEW x \in Entry
  PROVE  /\ Append(q, x) \in Seq(Entry)
         /\ NoKill(q) /\ x \in Node => NoKill(Append(q, x))
BY DEF NoKill

(***************************************************************************)
(* Type correctness                                                        *)
(***************************************************************************)
LEMMA ControlInit == Init => TypeOK /\ Control
<1> SUFFICES ASSUME Init PROVE TypeOK /\ Control
  OBVIOUS
<1>1. \A n \in Node : IsFiniteSet(Child(n)) /\ Cardinality(Child(n)) \in Int
  BY TreeAssumption, FS_Subset, FS_CardinalityType DEF IsTree, Child
<1>2. TypeOK
  BY <1>1 DEF Init, TypeOK, MainPc, ThreadPc, BuildState
<1>3. Control
  BY DEF Init, Control, MainControl, ThreadControl, QueueControl, NoKill
<1> QED
  BY <1>2, <1>3

(* No step leaves the types or the control invariant.                      *)
LEMMA ControlNext ==
  ASSUME TypeOK, Control, [Next]_vars
  PROVE  TypeOK' /\ Control'
<1> USE DEF MainPc, ThreadPc, BuildState, Building, mainVars, treeVars, queues,
            threadVars
<1>0. /\ \A n \in Node : TargetOf[n] \in Target
      /\ \A n \in Node \ {Root} : Parent[n] \in Node
      /\ \A j \in DOMAIN LeafOrder : j \in Nat \ {0} /\ LeafOrder[j] \in Node
      /\ 1 \in DOMAIN LeafOrder
  BY TreeAssumption, LeafAssumption DEF IsTree, ListsLeaves, Target
<1>1. CASE Spawn
  <2>1. TypeOK'
    BY <1>0, <1>1 DEF Spawn, TypeOK, Control, MainControl, ThreadControl, QueueControl
  <2>2. MainControl'
    BY <1>0, <1>1 DEF Spawn, TypeOK, Control, MainControl, ThreadControl, QueueControl
  <2>3. ThreadControl'
    <3>1. \A t \in Thread : t # i => pc'[t] = pc[t]
      BY <1>1 DEF Spawn, TypeOK
    <3>2. i \in Thread /\ pc'[i] \in {"poll", "none"} /\ hand[i] = NoNode
      <4>1. i \in Thread
        BY <1>1 DEF Spawn, Control, MainControl
      <4>2. pc[i] = "none" /\ hand[i] = NoNode
        BY <1>1, <4>1 DEF Spawn, Control, ThreadControl
      <4> QED
        BY <1>1, <4>1, <4>2 DEF Spawn, TypeOK
    <3> QED
      BY <1>1, <3>1, <3>2 DEF Spawn, TypeOK, Control, ThreadControl
  <2>4. QueueControl'
    BY <1>0, <1>1 DEF Spawn, TypeOK, Control, MainControl, ThreadControl, QueueControl
  <2> QED
    BY <2>1, <2>2, <2>3, <2>4 DEF Control
<1>2. CASE ScanLeaf
  <2>0. LeafOrder[i] \in Node
    BY <1>0, <1>2 DEF ScanLeaf, Control, MainControl
  <2>1. TypeOK'
    <3>1. build_state' \in [Target -> BuildState]
      BY <1>0, <1>2, <2>0 DEF ScanLeaf, Release, TypeOK
    <3>2. main' \in MainPc /\ held' \in Node
      BY <1>2, <2>0 DEF ScanLeaf, Release
    <3> QED
      BY <1>2, <3>1, <3>2 DEF ScanLeaf, TypeOK
  <2>2. MainControl'
    BY <1>0, <1>2 DEF ScanLeaf, Release, TypeOK, Control, MainControl, ThreadControl, QueueControl
  <2>3. ThreadControl'
    BY <1>0, <1>2 DEF ScanLeaf, Release, TypeOK, Control, MainControl, ThreadControl, QueueControl
  <2>4. QueueControl'
    BY <1>0, <1>2 DEF ScanLeaf, Release, TypeOK, Control, MainControl, ThreadControl, QueueControl
  <2> QED
    BY <2>1, <2>2, <2>3, <2>4 DEF Control
<1>3. CASE DispatchNode
  BY <1>0, <1>3, AddToQueue DEF DispatchNode, AfterPut, TypeOK, Control, MainControl, ThreadControl, QueueControl
<1>4. CASE MonitorNode
  BY <1>0, <1>4, AddToQueue DEF MonitorNode, AfterPut, TypeOK, Control, MainControl, ThreadControl, QueueControl
<1>5. CASE GetResponse
  BY <1>0, <1>5, TakeFromQueue DEF GetResponse, TypeOK, Control, MainControl, ThreadControl, QueueControl
<1>6. CASE HandleRoot
  BY <1>0, <1>6 DEF IsAnswer, Free, HandleRoot, TypeOK, Control, MainControl, ThreadControl, QueueControl
<1>7. CASE HandleChild
  <2>0. held \in Node /\ held # Root /\ Parent[held] \in Node
    BY <1>0, <1>7 DEF HandleChild, IsAnswer, Free, Control, MainControl
  <2>1. TypeOK'
    <3>1. /\ main' \in MainPc
          /\ held' \in Node \cup {NoNode}
          /\ build_state' \in [Target -> BuildState]
      <4>1. CASE Release(Parent[held])
        BY <1>0, <2>0, <4>1 DEF Release, TypeOK
      <4>2. CASE held' = NoNode /\ main' = "poll" /\ UNCHANGED build_state
        BY <4>2 DEF TypeOK
      <4> QED
        BY <1>7, <4>1, <4>2 DEF HandleChild, IsAnswer, Free
    <3>2. child_nodes' \in [Node -> Int] /\ freed' \in SUBSET Node
      BY <1>7, <2>0 DEF HandleChild, IsAnswer, Free, TypeOK
    <3> QED
      BY <1>7, <3>1, <3>2 DEF HandleChild, IsAnswer, Free, TypeOK
  <2>2. MainControl'
    BY <1>0, <1>7 DEF HandleChild, IsAnswer, Free, Release, TypeOK, Control, MainControl, ThreadControl, QueueControl
  <2>3. ThreadControl'
    BY <1>0, <1>7 DEF HandleChild, IsAnswer, Free, Release, TypeOK, Control, MainControl, ThreadControl, QueueControl
  <2>4. QueueControl'
    BY <1>0, <1>7 DEF HandleChild, IsAnswer, Free, Release, TypeOK, Control, MainControl, ThreadControl, QueueControl
  <2> QED
    BY <2>1, <2>2, <2>3, <2>4 DEF Control
<1>8. CASE SaveHashes
  BY <1>0, <1>8 DEF SaveHashes, TypeOK, Control, MainControl, ThreadControl, QueueControl
<1>9. CASE SendKill
  <2>0. /\ Append(dispatch_queue, Kill) \in Seq(Entry)
        /\ Append(monitor_queue, Kill) \in Seq(Entry)
    BY AddToQueue DEF TypeOK
  <2>1. TypeOK'
    <3>1. dispatch_queue' \in Seq(Entry) /\ monitor_queue' \in Seq(Entry)
      BY <1>9, <2>0 DEF SendKill, TypeOK
    <3>2. main' \in MainPc
      BY <1>9 DEF SendKill, TypeOK
    <3>3. i' \in Nat /\ threads_alive' \in Nat
      BY <1>9 DEF SendKill, TypeOK
    <3> QED
      BY <1>9, <3>1, <3>2, <3>3 DEF SendKill, TypeOK
  <2>2. MainControl'
    BY <1>0, <1>9, AddToQueue DEF SendKill, TypeOK, Control, MainControl, ThreadControl, QueueControl
  <2>3. ThreadControl'
    BY <1>0, <1>9, AddToQueue DEF SendKill, TypeOK, Control, MainControl, ThreadControl, QueueControl
  <2>4. QueueControl'
    BY <1>0, <1>9, AddToQueue DEF SendKill, TypeOK, Control, MainControl, ThreadControl, QueueControl
  <2> QED
    BY <2>1, <2>2, <2>3, <2>4 DEF Control
<1>10. CASE AwaitAck
  BY <1>0, <1>10, TakeFromQueue DEF AwaitAck, AllAcknowledged, TypeOK, Control, MainControl, ThreadControl, QueueControl
<1>11. CASE CleanQueues
  BY <1>0, <1>11 DEF CleanQueues, TypeOK, Control, MainControl, ThreadControl, QueueControl
<1>12. ASSUME NEW b \in Builder, GetDispatched(b)
       PROVE  TypeOK' /\ Control'
  <2>1. TypeOK'
    BY <1>0, <1>12, TakeFromQueue DEF GetDispatched, Take, Goto, TypeOK, Control, MainControl, ThreadControl, QueueControl
  <2>2. MainControl'
    BY <1>0, <1>12, TakeFromQueue DEF GetDispatched, Take, Goto, TypeOK, Control, MainControl, ThreadControl, QueueControl
  <2>3. ThreadControl'
    <3>1. /\ Head(dispatch_queue) \in Entry
          /\ main \in Building => Head(dispatch_queue) \in Node
      BY <1>12, TakeFromQueue DEF GetDispatched, Take, TypeOK, Control, QueueControl
    <3> QED
      BY <1>12, <3>1 DEF GetDispatched, Take, Goto, TypeOK, Control, MainControl, ThreadControl
  <2>4. QueueControl'
    BY <1>0, <1>12, TakeFromQueue DEF GetDispatched, Take, Goto, TypeOK, Control, MainControl, ThreadControl, QueueControl
  <2> QED
    BY <2>1, <2>2, <2>3, <2>4 DEF Control
<1>13. ASSUME NEW b \in Builder, StartBuild(b)
       PROVE  TypeOK' /\ Control'
  BY <1>0, <1>13 DEF StartBuild, Goto, TypeOK, Control, MainControl, ThreadControl, QueueControl
<1>14. ASSUME NEW b \in Builder, FinishBuild(b)
       PROVE  TypeOK' /\ Control'
  BY <1>0, <1>14 DEF FinishBuild, Goto, TypeOK, Control, MainControl, ThreadControl, QueueControl
<1>15. ASSUME NEW t \in Thread, SendResponse(t)
       PROVE  TypeOK' /\ Control'
  <2>0. hand[t] \in Entry /\ response_queue' \in Seq(Entry)
    BY <1>15, AddToQueue DEF SendResponse, Goto, TypeOK, Control, ThreadControl
  <2>1. TypeOK'
    BY <1>15, <2>0 DEF SendResponse, Goto, TypeOK
  <2>2. MainControl'
    BY <1>0, <1>15, AddToQueue DEF SendResponse, Goto, TypeOK, Control, MainControl, ThreadControl, QueueControl
  <2>3. ThreadControl'
    BY <1>0, <1>15, AddToQueue DEF SendResponse, Goto, TypeOK, Control, MainControl, ThreadControl, QueueControl
  <2>4. QueueControl'
    BY <1>0, <1>15, AddToQueue DEF SendResponse, Goto, TypeOK, Control, MainControl, ThreadControl, QueueControl
  <2> QED
    BY <2>1, <2>2, <2>3, <2>4 DEF Control
<1>16. CASE GetMonitored
  BY <1>0, <1>16, TakeFromQueue DEF GetMonitored, Take, Goto, TypeOK, Control, MainControl, ThreadControl, QueueControl
<1>17. CASE CheckMonitored
  <2>1. TypeOK'
    BY <1>17 DEF CheckMonitored, Goto, TypeOK
  <2>2. MainControl'
    BY <1>17 DEF CheckMonitored, Control, MainControl
  <2>3. ThreadControl'
    <3>1. PICK s \in {"respond", "requeue"} : Goto(Monitor, "got", s)
      BY <1>17 DEF CheckMonitored
    <3> QED
      BY <1>17, <3>1 DEF CheckMonitored, Goto, TypeOK, Control, ThreadControl
  <2>4. QueueControl'
    BY <1>17 DEF CheckMonitored, Control, QueueControl
  <2> QED
    BY <2>1, <2>2, <2>3, <2>4 DEF Control
<1>18. CASE Requeue
  <2>1. TypeOK'
    BY <1>0, <1>18, AddToQueue DEF Requeue, Goto, TypeOK, Control, MainControl, ThreadControl, QueueControl
  <2>2. MainControl'
    BY <1>0, <1>18, AddToQueue DEF Requeue, Goto, TypeOK, Control, MainControl, ThreadControl, QueueControl
  <2>3. ThreadControl'
    BY <1>0, <1>18, AddToQueue DEF Requeue, Goto, TypeOK, Control, MainControl, ThreadControl, QueueControl
  <2>4. QueueControl'
    <3>1. hand[Monitor] \in Node
      BY <1>18 DEF Requeue, Goto, Control, ThreadControl
    <3> QED
      BY <1>18, <3>1, AddToQueue DEF Requeue, TypeOK, Control, QueueControl
  <2> QED
    BY <2>1, <2>2, <2>3, <2>4 DEF Control
<1>19. CASE UNCHANGED vars
  BY <1>19 DEF vars, TypeOK, Control, MainControl, ThreadControl, QueueControl
<1> QED
  BY <1>1, <1>2, <1>3, <1>4, <1>5, <1>6, <1>7, <1>8, <1>9, <1>10, <1>11, <1>12,
     <1>13, <1>14, <1>15, <1>16, <1>17, <1>18, <1>19
     DEF Next, MainStep, BuildThread, MonitorThread, Terminated

(* Every value has its type, for every tree and every number of threads.   *)
THEOREM TypeCorrect == Spec => []TypeOK
<1>1. Init => TypeOK /\ Control
  BY ControlInit
<1>2. (TypeOK /\ Control) /\ [Next]_vars => (TypeOK /\ Control)'
  BY ControlNext
<1> QED
  BY <1>1, <1>2, PTL DEF Spec

-----------------------------------------------------------------------------
(***************************************************************************)
(* The inductive invariant behind the safety properties of Scheduler:      *)
(* where the nodes are (Places) and what that says about the build states  *)
(* (States).                                                               *)
(***************************************************************************)
(* No leaf that main has still to visit is anywhere.                       *)
NextLeaf == IF main = "spawn" THEN 1 ELSE i
LeavesToCome ==
  main \in Building =>
    \A j \in DOMAIN LeafOrder :
      j >= NextLeaf => LeafOrder[j] \notin InFlight \cup freed

(* A node is touched only when all its children have been freed, and       *)
(* child_nodes counts those that have not.                                 *)
ChildrenFreed == \A n \in InFlight \cup freed : Child(n) \subseteq freed
ChildrenCounted ==
  \A n \in Node : child_nodes[n] = Cardinality(Child(n) \ freed)

Places ==
  /\ SingleOwner
  /\ InFlight \cap freed = {}
  /\ LeavesToCome
  /\ ChildrenFreed
  /\ ChildrenCounted
  /\ Returned => freed = Node

(* The nodes in the hands of those of the threads T that are at s.         *)
Doing(T, s) == {hand[t] : t \in {u \in T : pc[u] = s}}
HeldAt(s) == {n \in Held : main = s}

(* The nodes that hold the right to build their target, from the moment    *)
(* main finds the target READY; those whose command is running; and those  *)
(* whose target is built.                                                  *)
Dispatched ==
  NodesOn(dispatch_queue) \cup HeldAt("dispatch") \cup Doing(Builder, "got")
Running == Doing(Builder, "running")
Answered ==
  NodesOn(response_queue) \cup HeldAt("handle") \cup Doing(Thread, "respond")
    \cup freed

StartedAfterChildren ==
  \A n \in Node : \A c \in Child(n) :
    build_state[TargetOf[n]] # "READY" => build_state[TargetOf[c]] = "DONE"

States ==
  /\ \A n \in Dispatched : build_state[TargetOf[n]] = "ONQ"
  /\ \A n \in Running : build_state[TargetOf[n]] = "RUNNING"
  /\ \A n \in Answered : build_state[TargetOf[n]] = "DONE"
  /\ \A m, n \in Dispatched \cup Running : TargetOf[m] = TargetOf[n] => m = n
  /\ StartedAfterChildren

Inductive == TypeOK /\ Control /\ Places /\ States

(***************************************************************************)
(* Queues and hands                                                        *)
(***************************************************************************)
(* Taking the oldest entry off a queue takes its node out of the queue's   *)
(* nodes, if it is a node, and nothing else.                               *)
LEMMA NodesAfterTake ==
  ASSUME NEW q \in Seq(Entry), q # <<>>, Distinct(q)
  PROVE  /\ Distinct(Tail(q))
         /\ NodesOn(Tail(q)) = NodesOn(q) \ {Head(q)}
         /\ Head(q) # Kill => Head(q) \in NodesOn(q)
<1>1. /\ Tail(q) \in Seq(Entry) /\ Len(q) \in Nat \ {0}
      /\ DOMAIN q = 1 .. Len(q) /\ DOMAIN Tail(q) = 1 .. Len(q) - 1
      /\ \A j \in 1 .. Len(q) - 1 : Tail(q)[j] = q[j + 1]
      /\ Head(q) = q[1]
  OBVIOUS
<1>2. Distinct(Tail(q))
  BY <1>1 DEF Distinct
<1>3. ASSUME NEW x \in NodesOn(Tail(q)) PROVE x \in NodesOn(q) \ {Head(q)}
  <2>1. PICK j \in 1 .. Len(q) - 1 : x = q[j + 1] /\ x # Kill
    BY <1>1 DEF NodesOn
  <2>2. j + 1 \in DOMAIN q /\ 1 \in DOMAIN q /\ j + 1 # 1
    BY <1>1
  <2>3. q[j + 1] # q[1]
    BY <2>1, <2>2 DEF Distinct
  <2> QED
    BY <1>1, <2>1, <2>2, <2>3 DEF NodesOn
<1>4. ASSUME NEW x \in NodesOn(q) \ {Head(q)} PROVE x \in NodesOn(Tail(q))
  <2>1. PICK j \in 1 .. Len(q) : x = q[j] /\ x # Kill /\ j # 1
    BY <1>1 DEF NodesOn
  <2>2. j - 1 \in 1 .. Len(q) - 1 /\ Tail(q)[j - 1] = q[j]
    BY <1>1, <2>1
  <2> QED
    BY <1>1, <2>1, <2>2 DEF NodesOn
<1>5. Head(q) # Kill => Head(q) \in NodesOn(q)
  <2>1. 1 \in DOMAIN q
    BY <1>1
  <2> QED
    BY <1>1, <2>1 DEF NodesOn
<1> QED
  BY <1>2, <1>3, <1>4, <1>5

(* Adding an entry adds its node, if it is a node.                         *)
LEMMA NodesAfterAdd ==
  ASSUME NEW q \in Seq(Entry), NEW x \in Entry, Distinct(q), x \notin NodesOn(q)
  PROVE  /\ Distinct(Append(q, x))
         /\ NodesOn(Append(q, x)) = NodesOn(q) \cup ({x} \ {Kill})
<1>1. /\ DOMAIN q = 1 .. Len(q) /\ DOMAIN Append(q, x) = 1 .. Len(q) + 1
      /\ Len(q) \in Nat
      /\ \A j \in 1 .. Len(q) : Append(q, x)[j] = q[j]
      /\ Append(q, x)[Len(q) + 1] = x
  OBVIOUS
<1>2. ASSUME NEW j \in DOMAIN q, x # Kill PROVE q[j] # x
  BY <1>2 DEF NodesOn
<1>3. Distinct(Append(q, x))
  BY <1>1, <1>2 DEF Distinct
<1>4. NodesOn(Append(q, x)) = NodesOn(q) \cup ({x} \ {Kill})
  BY <1>1 DEF NodesOn
<1> QED
  BY <1>3, <1>4

(* No node is in two hands.                                                *)
HandsDistinct ==
  \A t, u \in Thread : hand[t] = hand[u] /\ hand[t] \in Node => t = u

(* What the nodes in hand are when thread t takes x.                       *)
LEMMA NodesAfterGrasp ==
  ASSUME TypeOK, HandsDistinct, NEW t \in Thread, NEW x \in Entry,
         hand[t] = NoNode, x \notin NodesInHand,
         hand' = [hand EXCEPT ![t] = x]
  PROVE  /\ NodesInHand' = NodesInHand \cup ({x} \ {Kill})
         /\ HandsDistinct'
<1>1. DOMAIN hand = Thread /\ \A u \in Thread : hand'[u] = IF u = t THEN x ELSE hand[u]
  BY DEF TypeOK
<1>2. ASSUME NEW n \in NodesInHand' PROVE n \in NodesInHand \cup ({x} \ {Kill})
  <2>1. PICK u \in Thread : n = hand'[u] /\ n \notin {Kill, NoNode}
    BY DEF NodesInHand
  <2> QED
    BY <1>1, <2>1 DEF NodesInHand
<1>3. ASSUME NEW n \in NodesInHand PROVE n \in NodesInHand'
  <2>1. PICK u \in Thread : n = hand[u] /\ n \notin {Kill, NoNode}
    BY DEF NodesInHand
  <2>2. hand'[u] = n
    BY <1>1, <2>1
  <2> QED
    BY <2>1, <2>2 DEF NodesInHand
<1>4. x # Kill => x \in NodesInHand'
  BY <1>1 DEF NodesInHand
<1>5. \A u \in Thread : hand[u] \in Node => hand[u] \in NodesInHand
  BY DEF NodesInHand
<1>6. HandsDistinct'
  BY <1>1, <1>5 DEF HandsDistinct
<1> QED
  BY <1>2, <1>3, <1>4, <1>6

(* What the nodes in hand are when thread t lets its node go.              *)
LEMMA NodesAfterLettingGo ==
  ASSUME TypeOK, HandsDistinct, NEW t \in Thread, hand[t] \in Entry,
         hand' = [hand EXCEPT ![t] = NoNode]
  PROVE  /\ NodesInHand' = NodesInHand \ {hand[t]}
         /\ HandsDistinct'
<1>1. \A u \in Thread : hand'[u] = IF u = t THEN NoNode ELSE hand[u]
  BY DEF TypeOK
<1>2. ASSUME NEW n \in NodesInHand' PROVE n \in NodesInHand \ {hand[t]}
  <2>1. PICK u \in Thread : n = hand'[u] /\ n \notin {Kill, NoNode}
    BY DEF NodesInHand
  <2>2. u # t /\ n = hand[u]
    BY <1>1, <2>1
  <2>3. n \in Node
    BY <2>1, <2>2 DEF TypeOK
  <2>4. n # hand[t]
    BY <2>2, <2>3 DEF HandsDistinct
  <2> QED
    BY <2>1, <2>2, <2>4 DEF NodesInHand
<1>3. ASSUME NEW n \in NodesInHand \ {hand[t]} PROVE n \in NodesInHand'
  <2>1. PICK u \in Thread : n = hand[u] /\ n \notin {Kill, NoNode}
    BY DEF NodesInHand
  <2>2. hand'[u] = n
    BY <1>1, <2>1
  <2> QED
    BY <2>1, <2>2 DEF NodesInHand
<1>4. HandsDistinct'
  BY <1>1 DEF HandsDistinct
<1> QED
  BY <1>2, <1>3, <1>4

(* Thread t gets to "to" with x in its hand.                               *)
Moves(t, to, x) ==
  pc' = [pc EXCEPT ![t] = to] /\ hand' = [hand EXCEPT ![t] = x]

(* A node in the hand of a thread that goes on is known by where the       *)
(* thread gets to.                                                         *)
LEMMA DoingAfterMove ==
  ASSUME TypeOK, ThreadControl, HandsDistinct,
         NEW T \in SUBSET Thread, NEW s \in {"got", "running", "respond"},
         NEW t \in Thread, NEW to, NEW x, Moves(t, to, x)
  PROVE  Doing(T, s)' = (Doing(T, s) \ {hand[t]})
                          \cup (IF to = s /\ t \in T THEN {x} ELSE {})
<1>1. \A u \in Thread : /\ pc'[u] = IF u = t THEN to ELSE pc[u]
                        /\ hand'[u] = IF u = t THEN x ELSE hand[u]
  BY DEF Moves, TypeOK
<1>2. ASSUME NEW n \in Doing(T, s)'
      PROVE  n \in (Doing(T, s) \ {hand[t]})
                     \cup (IF to = s /\ t \in T THEN {x} ELSE {})
  <2>1. PICK u \in T : n = hand'[u] /\ pc'[u] = s
    BY DEF Doing
  <2>2. CASE u = t
    BY <1>1, <2>1, <2>2
  <2>3. CASE u # t
    <3>1. n = hand[u] /\ pc[u] = s /\ n \in Node
      BY <1>1, <2>1, <2>3 DEF ThreadControl
    <3>2. n # hand[t]
      BY <2>3, <3>1 DEF HandsDistinct
    <3> QED
      BY <3>1, <3>2 DEF Doing
  <2> QED
    BY <2>2, <2>3
<1>3. ASSUME NEW n \in Doing(T, s) \ {hand[t]} PROVE n \in Doing(T, s)'
  <2>1. PICK u \in T : n = hand[u] /\ pc[u] = s
    BY DEF Doing
  <2>2. u # t
    BY <2>1
  <2> QED
    BY <1>1, <2>1, <2>2 DEF Doing
<1>4. to = s /\ t \in T => x \in Doing(T, s)'
  BY <1>1 DEF Doing
<1> QED
  BY <1>2, <1>3, <1>4

(* The same for the three sets that States is about.                       *)
LEMMA DoingAfterStep ==
  ASSUME TypeOK, ThreadControl, HandsDistinct, NEW t \in Thread, NEW to, NEW x,
         Moves(t, to, x)
  PROVE  /\ Doing(Builder, "got")'
              = (Doing(Builder, "got") \ {hand[t]})
                  \cup (IF to = "got" /\ t \in Builder THEN {x} ELSE {})
         /\ Doing(Builder, "running")'
              = (Doing(Builder, "running") \ {hand[t]})
                  \cup (IF to = "running" /\ t \in Builder THEN {x} ELSE {})
         /\ Doing(Thread, "respond")'
              = (Doing(Thread, "respond") \ {hand[t]})
                  \cup (IF to = "respond" THEN {x} ELSE {})
<1>1. ASSUME NEW T \in SUBSET Thread, NEW s \in {"got", "running", "respond"}
      PROVE  Doing(T, s)' = (Doing(T, s) \ {hand[t]})
                              \cup (IF to = s /\ t \in T THEN {x} ELSE {})
  BY DoingAfterMove
<1>2. Builder \in SUBSET Thread /\ Thread \in SUBSET Thread
  OBVIOUS
<1> HIDE DEF Builder, Thread
<1> QED
  BY <1>1, <1>2

(***************************************************************************)
(* Where the nodes are                                                     *)
(***************************************************************************)
(* A step that moves nodes from one place to another, or drops them, and   *)
(* frees none.                                                             *)
LEMMA PlacesKept ==
  ASSUME Places, SingleOwner', InFlight' \subseteq InFlight, UNCHANGED treeVars,
         main' \in Building => main \in Building /\ NextLeaf' = NextLeaf,
         Returned' => Returned
  PROVE  Places'
<1>1. (InFlight \cap freed)' = {} /\ LeavesToCome' /\ ChildrenFreed'
  BY DEF Places, LeavesToCome, ChildrenFreed, treeVars
<1>2. ChildrenCounted' /\ (Returned => freed = Node)'
  BY DEF Places, ChildrenCounted, treeVars
<1> QED
  BY <1>1, <1>2 DEF Places

(* The steps of main that take up no new node and free none.               *)
LEMMA PlacesOfMain ==
  ASSUME TypeOK, Control, Places, MainStep, ~ScanLeaf, ~HandleRoot, ~HandleChild
  PROVE  Places'
<1> USE DEF NextLeaf, Building, Returned, mainVars, treeVars, queues, threadVars
<1>1. /\ Held = {held} \ {NoNode}
      /\ Held' = {held'} \ {NoNode}
      /\ Held \cap (NodesInHand \cup NodesOn(dispatch_queue)
           \cup NodesOn(monitor_queue) \cup NodesOn(response_queue)) = {}
      /\ Distinct(dispatch_queue) /\ Distinct(monitor_queue)
      /\ Distinct(response_queue)
  BY DEF Held, Places, SingleOwner
<1>2. CASE Spawn \/ SaveHashes \/ CleanQueues
  <2>1. SingleOwner' /\ InFlight' = InFlight
    BY <1>2 DEF Spawn, SaveHashes, CleanQueues, Places, SingleOwner, InFlight,
                NodesInHand, Held
  <2> QED
    BY <1>2, <2>1, PlacesKept DEF Spawn, SaveHashes, CleanQueues
<1>3. CASE DispatchNode
  <2>1. held \in Node
    BY <1>3 DEF DispatchNode, Control, MainControl
  <2>0. held \in Held /\ held \notin NodesOn(dispatch_queue) /\ held # Kill
    BY <1>1, <2>1
  <2>2. /\ Distinct(dispatch_queue')
        /\ NodesOn(dispatch_queue') = NodesOn(dispatch_queue) \cup {held}
    <3>1. dispatch_queue \in Seq(Entry) /\ dispatch_queue' = Append(dispatch_queue, held)
      BY <1>3 DEF DispatchNode, TypeOK
    <3> QED
      BY <1>1, <2>0, <2>1, <3>1, NodesAfterAdd
  <2>3. Held = {held} /\ Held' = {} /\ NodesInHand' = NodesInHand
    BY <1>1, <1>3, <2>1 DEF DispatchNode, NodesInHand
  <2>4. SingleOwner' /\ InFlight' = InFlight
    BY <1>1, <1>3, <2>2, <2>3 DEF DispatchNode, Places, SingleOwner, InFlight
  <2>5. main' \in {"scan", "poll"} /\ i' = i
    BY <1>3 DEF DispatchNode, AfterPut
  <2> QED
    BY <1>3, <2>4, <2>5, PlacesKept DEF DispatchNode
<1>4. CASE MonitorNode
  <2>1. held \in Node
    BY <1>4 DEF MonitorNode, Control, MainControl
  <2>0. held \in Held /\ held \notin NodesOn(monitor_queue) /\ held # Kill
    BY <1>1, <2>1
  <2>2. /\ Distinct(monitor_queue')
        /\ NodesOn(monitor_queue') = NodesOn(monitor_queue) \cup {held}
    <3>1. monitor_queue \in Seq(Entry) /\ monitor_queue' = Append(monitor_queue, held)
      BY <1>4 DEF MonitorNode, TypeOK
    <3> QED
      BY <1>1, <2>0, <2>1, <3>1, NodesAfterAdd
  <2>3. Held = {held} /\ Held' = {} /\ NodesInHand' = NodesInHand
    BY <1>1, <1>4, <2>1 DEF MonitorNode, NodesInHand
  <2>4. SingleOwner' /\ InFlight' = InFlight
    BY <1>1, <1>4, <2>2, <2>3 DEF MonitorNode, Places, SingleOwner, InFlight
  <2>5. main' \in {"scan", "poll"} /\ i' = i
    BY <1>4 DEF MonitorNode, AfterPut
  <2> QED
    BY <1>4, <2>4, <2>5, PlacesKept DEF MonitorNode
<1>5. CASE GetResponse
  <2>1. held = NoNode /\ Head(response_queue) \in Node
    BY <1>5, TakeFromQueue DEF GetResponse, TypeOK, Control, MainControl
  <2>2. /\ Distinct(response_queue')
        /\ NodesOn(response_queue') = NodesOn(response_queue) \ {held'}
        /\ held' \in NodesOn(response_queue)
    BY <1>1, <1>5, <2>1, NodesAfterTake DEF GetResponse, TypeOK
  <2>3. Held = {} /\ Held' = {held'} /\ NodesInHand' = NodesInHand
    BY <1>1, <1>5, <2>1 DEF GetResponse, NodesInHand
  <2>4. SingleOwner' /\ InFlight' = InFlight
    BY <1>1, <1>5, <2>2, <2>3 DEF GetResponse, Places, SingleOwner, InFlight
  <2> QED
    BY <1>5, <2>4, PlacesKept DEF GetResponse
<1>6. CASE SendKill
  <2>1. Kill \notin NodesOn(dispatch_queue) /\ Kill \notin NodesOn(monitor_queue)
    BY DEF NodesOn
  <2>2. /\ Distinct(dispatch_queue')
        /\ NodesOn(dispatch_queue') = NodesOn(dispatch_queue)
    <3>1. CASE dispatch_queue' = Append(dispatch_queue, Kill)
      <4>1. dispatch_queue \in Seq(Entry) /\ Kill \in Entry /\ Distinct(dispatch_queue)
        BY <1>1 DEF TypeOK, Entry
      <4>2. /\ Distinct(Append(dispatch_queue, Kill))
            /\ NodesOn(Append(dispatch_queue, Kill)) = NodesOn(dispatch_queue) \cup ({Kill} \ {Kill})
        BY ONLY <2>1, <4>1, NodesAfterAdd
      <4> QED BY ONLY <3>1, <4>2
    <3>2. CASE dispatch_queue' = dispatch_queue
      BY <1>1, <3>2
    <3> QED
      BY <1>6, <3>1, <3>2 DEF SendKill
  <2>3. /\ Distinct(monitor_queue')
        /\ NodesOn(monitor_queue') = NodesOn(monitor_queue)
    <3>1. CASE monitor_queue' = Append(monitor_queue, Kill)
      <4>1. monitor_queue \in Seq(Entry) /\ Kill \in Entry /\ Distinct(monitor_queue)
        BY <1>1 DEF TypeOK, Entry
      <4>2. /\ Distinct(Append(monitor_queue, Kill))
            /\ NodesOn(Append(monitor_queue, Kill)) = NodesOn(monitor_queue) \cup ({Kill} \ {Kill})
        BY ONLY <2>1, <4>1, NodesAfterAdd
      <4> QED BY ONLY <3>1, <4>2
    <3>2. CASE monitor_queue' = monitor_queue
      BY <1>1, <3>2
    <3> QED
      BY <1>6, <3>1, <3>2 DEF SendKill
  <2>4. Held' = Held /\ NodesInHand' = NodesInHand
    BY <1>6 DEF SendKill, Held, NodesInHand
  <2>5. SingleOwner' /\ InFlight' = InFlight
    BY <1>6, <2>2, <2>3, <2>4 DEF SendKill, Places, SingleOwner, InFlight
  <2> QED
    BY <1>6, <2>5, PlacesKept DEF SendKill
<1>7. CASE AwaitAck
  <2>1. /\ Distinct(response_queue')
        /\ NodesOn(response_queue') \subseteq NodesOn(response_queue)
    BY <1>1, <1>7, NodesAfterTake DEF AwaitAck, TypeOK
  <2>2. Held' = Held /\ NodesInHand' = NodesInHand
    BY <1>7 DEF AwaitAck, Held, NodesInHand
  <2>3. SingleOwner' /\ InFlight' \subseteq InFlight
    BY <1>7, <2>1, <2>2 DEF AwaitAck, Places, SingleOwner, InFlight
  <2> QED
    BY <1>7, <2>3, PlacesKept DEF AwaitAck
<1> QED
  BY <1>2, <1>3, <1>4, <1>5, <1>6, <1>7 DEF MainStep

(* A thread moves the node it takes or passes on and touches no other.     *)
LEMMA PlacesOfThreads ==
  ASSUME TypeOK, Control, Places,
         MonitorThread \/ \E b \in Builder : BuildThread(b)
  PROVE  Places'
<1> USE DEF mainVars, treeVars, queues, threadVars
<1>1. /\ HandsDistinct
      /\ NodesInHand \cap (NodesOn(dispatch_queue)
           \cup NodesOn(monitor_queue) \cup NodesOn(response_queue)) = {}
      /\ Distinct(dispatch_queue) /\ Distinct(monitor_queue)
      /\ Distinct(response_queue)
  BY DEF HandsDistinct, Places, SingleOwner
<1>2. /\ UNCHANGED <<main, i, held, child_nodes, freed>>
      /\ Held' = Held /\ NextLeaf' = NextLeaf
      /\ Returned' = Returned
  BY DEF MonitorThread, BuildThread, GetMonitored, CheckMonitored, Requeue,
         GetDispatched, StartBuild, FinishBuild, SendResponse, Held, NextLeaf,
         Returned
<1>3. SUFFICES SingleOwner' /\ InFlight' \subseteq InFlight
  BY <1>2, PlacesKept
<1>4. ASSUME NEW t \in Thread, NEW q \in Seq(Entry), Take(t, q), Distinct(q),
             NodesInHand \cap NodesOn(q) = {}
      PROVE  /\ Distinct(Tail(q))
             /\ NodesOn(Tail(q)) = NodesOn(q) \ {Head(q)}
             /\ NodesInHand' = NodesInHand \cup ({Head(q)} \ {Kill})
             /\ {Head(q)} \ {Kill} \subseteq NodesOn(q)
             /\ HandsDistinct'
  <2>1. q # <<>> /\ Head(q) \in Entry /\ hand' = [hand EXCEPT ![t] = Head(q)]
    BY <1>4, TakeFromQueue DEF Take
  <2>2. /\ Distinct(Tail(q))
        /\ NodesOn(Tail(q)) = NodesOn(q) \ {Head(q)}
        /\ Head(q) # Kill => Head(q) \in NodesOn(q)
    BY <1>4, <2>1, NodesAfterTake
  <2>3. hand[t] = NoNode
    BY <1>4 DEF Take, Goto, Control, ThreadControl
  <2>4. Head(q) \notin NodesInHand
    BY <1>4, <2>2 DEF NodesInHand
  <2> QED
    BY <1>1, <2>1, <2>2, <2>3, <2>4, NodesAfterGrasp
<1>5. CASE \E b \in Builder : GetDispatched(b)
  <2>1. PICK b \in Builder : GetDispatched(b)
    BY <1>5
  <2>2. /\ Distinct(dispatch_queue')
        /\ NodesOn(dispatch_queue')
             = NodesOn(dispatch_queue) \ {Head(dispatch_queue)}
        /\ NodesInHand' = NodesInHand \cup ({Head(dispatch_queue)} \ {Kill})
        /\ {Head(dispatch_queue)} \ {Kill} \subseteq NodesOn(dispatch_queue)
        /\ HandsDistinct'
    BY <1>1, <1>4, <2>1 DEF GetDispatched, TypeOK
  <2>3. UNCHANGED <<monitor_queue, response_queue>>
    BY <2>1 DEF GetDispatched
  <2> QED
    BY <1>2, <2>2, <2>3 DEF Places, SingleOwner, HandsDistinct, InFlight
<1>6. CASE GetMonitored
  <2>2. /\ Distinct(monitor_queue')
        /\ NodesOn(monitor_queue')
             = NodesOn(monitor_queue) \ {Head(monitor_queue)}
        /\ NodesInHand' = NodesInHand \cup ({Head(monitor_queue)} \ {Kill})
        /\ {Head(monitor_queue)} \ {Kill} \subseteq NodesOn(monitor_queue)
        /\ HandsDistinct'
    <3>1. /\ Take(Monitor, monitor_queue) /\ monitor_queue' = Tail(monitor_queue)
          /\ monitor_queue \in Seq(Entry) /\ Monitor \in Thread
      BY <1>6 DEF GetMonitored, TypeOK
    <3> QED
      BY <1>1, <1>4, <3>1
  <2>3. UNCHANGED <<dispatch_queue, response_queue>>
    BY <1>6 DEF GetMonitored
  <2> QED
    BY <1>2, <2>2, <2>3 DEF Places, SingleOwner, HandsDistinct, InFlight
<1>7. ASSUME NEW t \in Thread, NEW q \in Seq(Entry), Distinct(q),
             hand[t] \in Entry, NodesInHand \cap NodesOn(q) = {},
             hand' = [hand EXCEPT ![t] = NoNode]
      PROVE  /\ Distinct(Append(q, hand[t]))
             /\ NodesOn(Append(q, hand[t])) = NodesOn(q) \cup ({hand[t]} \ {Kill})
             /\ NodesInHand' = NodesInHand \ {hand[t]}
             /\ {hand[t]} \ {Kill} \subseteq NodesInHand
             /\ HandsDistinct'
  <2>1. {hand[t]} \ {Kill} \subseteq NodesInHand
    BY <1>7 DEF NodesInHand
  <2>2. hand[t] \notin NodesOn(q)
    BY <1>7, <2>1 DEF NodesOn
  <2> QED
    BY <1>1, <1>7, <2>1, <2>2, NodesAfterAdd, NodesAfterLettingGo
<1>8. CASE \E t \in Thread : SendResponse(t)
  <2>1. PICK t \in Thread : SendResponse(t)
    BY <1>8
  <2>2. hand[t] \in Entry
    BY <2>1 DEF SendResponse, Goto, Control, ThreadControl
  <2>3. /\ Distinct(response_queue')
        /\ NodesOn(response_queue')
             = NodesOn(response_queue) \cup ({hand[t]} \ {Kill})
        /\ NodesInHand' = NodesInHand \ {hand[t]}
        /\ {hand[t]} \ {Kill} \subseteq NodesInHand
        /\ HandsDistinct'
    BY <1>1, <1>7, <2>1, <2>2 DEF SendResponse, TypeOK
  <2>4. UNCHANGED <<dispatch_queue, monitor_queue>>
    BY <2>1 DEF SendResponse
  <2> QED
    BY <1>2, <2>3, <2>4 DEF Places, SingleOwner, HandsDistinct, InFlight
<1>9. CASE Requeue
  <2>2. hand[Monitor] \in Entry
    BY <1>9 DEF Requeue, Goto, Control, ThreadControl
  <2>3. /\ Distinct(monitor_queue')
        /\ NodesOn(monitor_queue')
             = NodesOn(monitor_queue) \cup ({hand[Monitor]} \ {Kill})
        /\ NodesInHand' = NodesInHand \ {hand[Monitor]}
        /\ {hand[Monitor]} \ {Kill} \subseteq NodesInHand
        /\ HandsDistinct'
    <3>1. /\ monitor_queue' = Append(monitor_queue, hand[Monitor])
          /\ hand' = [hand EXCEPT ![Monitor] = NoNode]
          /\ monitor_queue \in Seq(Entry) /\ Monitor \in Thread
      BY <1>9 DEF Requeue, TypeOK
    <3> QED
      BY <1>1, <1>7, <2>2, <3>1
  <2>4. UNCHANGED <<dispatch_queue, response_queue>>
    BY <1>9 DEF Requeue
  <2> QED
    BY <1>2, <2>3, <2>4 DEF Places, SingleOwner, HandsDistinct, InFlight
<1>10. CASE UNCHANGED <<queues, hand>>
  BY <1>2, <1>10 DEF Places, SingleOwner, InFlight, NodesInHand
<1>11. CASE MonitorThread
  BY <1>6, <1>8, <1>9, <1>10, <1>11 DEF MonitorThread, CheckMonitored
<1>12. CASE \E b \in Builder : BuildThread(b)
  BY <1>5, <1>8, <1>10, <1>12 DEF BuildThread, StartBuild, FinishBuild
<1> QED
  BY <1>11, <1>12

(* What is in flight is a node, never a signal or NULL.                    *)
LEMMA PlacesAreNodes == TypeOK => InFlight \subseteq Node
<1> SUFFICES ASSUME TypeOK PROVE InFlight \subseteq Node
  OBVIOUS
<1>1. \A q \in Seq(Entry) : NodesOn(q) \subseteq Node
  BY DEF NodesOn
<1>2. NodesInHand \subseteq Node /\ Held \subseteq Node
  BY DEF NodesInHand, Held, TypeOK
<1> QED
  BY <1>1, <1>2 DEF InFlight, TypeOK

(* main takes up the next leaf, which is nowhere yet.                      *)
LEMMA PlacesAfterScan ==
  ASSUME TypeOK, Control, Places, ScanLeaf
  PROVE  Places'
<1> DEFINE leaf == LeafOrder[i]
<1>1. /\ leaf \in Node /\ Child(leaf) = {} /\ i \in DOMAIN LeafOrder
      /\ \A j \in DOMAIN LeafOrder : LeafOrder[j] = leaf => j = i
  BY LeafAssumption DEF ListsLeaves, ScanLeaf, Control, MainControl
<1>2. leaf \notin InFlight \cup freed
  BY <1>1 DEF ScanLeaf, Places, LeavesToCome, Building, NextLeaf, Control, MainControl
<1>3. /\ held = NoNode /\ held' = leaf /\ i' = i + 1
      /\ main' \in {"dispatch", "monitor"}
      /\ UNCHANGED <<freed, child_nodes, hand, queues>>
  BY DEF ScanLeaf, Release, Control, MainControl, treeVars, threadVars
<1>4. Held = {} /\ Held' = {leaf} /\ NodesInHand' = NodesInHand
  BY <1>1, <1>3 DEF Held, NodesInHand
<1>5. InFlight' = InFlight \cup {leaf}
  BY <1>3, <1>4 DEF InFlight, queues
<1>6. SingleOwner'
  BY <1>2, <1>3, <1>4 DEF Places, SingleOwner, InFlight, queues
<1>7. LeavesToCome'
  <2>1. ASSUME NEW j \in DOMAIN LeafOrder, j >= i + 1
        PROVE  LeafOrder[j] \notin InFlight \cup freed /\ LeafOrder[j] # leaf
    <3>1. i \in Nat /\ j \in Nat
      BY LeafAssumption DEF ListsLeaves, TypeOK
    <3>2. j >= i /\ j # i
      BY <2>1, <3>1
    <3>3. LeafOrder[j] # leaf
      BY <1>1, <3>2
    <3> QED
      BY <3>2, <3>3 DEF ScanLeaf, Places, LeavesToCome, Building, NextLeaf
  <2> QED
    BY <1>3, <1>5, <2>1 DEF LeavesToCome, NextLeaf
<1>8. (InFlight \cap freed)' = {} /\ ChildrenFreed' /\ ChildrenCounted'
  BY <1>1, <1>2, <1>3, <1>5 DEF Places, ChildrenFreed, ChildrenCounted
<1> QED
  BY <1>3, <1>6, <1>7, <1>8 DEF Places, Returned

(* The root is answered when all the other nodes have been freed.          *)
LEMMA PlacesAfterRoot ==
  ASSUME TypeOK, Control, Places, HandleRoot
  PROVE  Places'
<1>1. held = Root
  BY SharingAssumption DEF IsShared, HandleRoot, IsAnswer, Control, MainControl
<1>2. /\ Root \in Node /\ held' = NoNode /\ freed' = freed \cup {Root}
      /\ main' = "save" /\ UNCHANGED <<child_nodes, hand, queues>>
  BY <1>1, TreeAssumption DEF IsTree, HandleRoot, Free, threadVars
<1>3. Held = {Root} /\ Held' = {} /\ NodesInHand' = NodesInHand
  BY <1>1, <1>2 DEF Held, NodesInHand
<1>4. SingleOwner'
  BY <1>2, <1>3 DEF Places, SingleOwner, queues
<1>5. InFlight' = InFlight \ {Root}
  BY <1>2, <1>3 DEF Places, SingleOwner, InFlight, queues
<1>6. ChildrenFreed'
  BY <1>2, <1>3, <1>5 DEF Places, ChildrenFreed, InFlight
<1>7. ChildrenCounted'
  <2>1. \A n \in Node : Child(n) \ freed' = Child(n) \ freed
    BY <1>2 DEF Child
  <2> QED
    BY <1>2, <2>1 DEF Places, ChildrenCounted
<1>8. freed' = Node
  <2>1. freed' \in SUBSET Node /\ Root \in freed'
    BY <1>2 DEF TypeOK
  <2>2. \A n \in freed' : Child(n) \subseteq freed'
    BY <1>6 DEF ChildrenFreed
  <2> QED
    BY <2>1, <2>2, TreeAssumption DEF IsTree
<1>9. LeavesToCome'
  BY <1>2 DEF LeavesToCome, Building
<1> QED
  BY <1>2, <1>4, <1>5, <1>6, <1>7, <1>8, <1>9 DEF Places

(* main frees the node of a response and takes up its parent when all the  *)
(* parent's children are freed.                                            *)
LEMMA PlacesAfterChild ==
  ASSUME TypeOK, Control, Places, HandleChild
  PROVE  Places'
<1> DEFINE parent == Parent[held]
<1>1. /\ held \in Node \ {Root} /\ parent \in Node /\ held \in Child(parent)
      /\ \A n \in Node : held \in Child(n) => n = parent
  BY TreeAssumption DEF IsTree, HandleChild, IsAnswer, Control, MainControl, Child
<1>2. Held = {held} /\ held \in InFlight /\ held \notin freed
  BY <1>1 DEF Held, Places, InFlight
<1>3. parent \notin InFlight \cup freed /\ parent # held
  BY <1>1, <1>2 DEF Places, ChildrenFreed
<1>4. /\ freed' = freed \cup {held} /\ UNCHANGED <<hand, queues, i>>
      /\ child_nodes' = [child_nodes EXCEPT ![parent] = @ - 1]
      /\ \/ child_nodes'[parent] = 0 /\ held' = parent
         \/ held' = NoNode
      /\ main = "handle" /\ main' \in {"dispatch", "monitor", "poll"}
  BY DEF HandleChild, Free, ChildrenBuilt, Release, threadVars
<1>5. Held' = {held'} \ {NoNode} /\ NodesInHand' = NodesInHand
  BY <1>4 DEF Held, NodesInHand
<1>6. InFlight' = (InFlight \ {held}) \cup Held'
  BY <1>2, <1>4, <1>5 DEF Places, SingleOwner, InFlight, queues
<1>7. Held' \subseteq {parent} /\ (Held' # {} => child_nodes'[parent] = 0)
  BY <1>4, <1>5
<1>8. SingleOwner'
  BY <1>3, <1>4, <1>5, <1>7 DEF Places, SingleOwner, InFlight, queues
<1>9. (InFlight \cap freed)' = {}
  BY <1>2, <1>3, <1>4, <1>6, <1>7 DEF Places
<1>10. ChildrenCounted'
  <2>1. ASSUME NEW n \in Node, n # parent
        PROVE  child_nodes'[n] = child_nodes[n] /\ Child(n) \ freed' = Child(n) \ freed
    BY <1>1, <1>4, <2>1 DEF TypeOK
  <2>2. child_nodes'[parent] = child_nodes[parent] - 1
    BY <1>1, <1>4 DEF TypeOK
  <2>3. /\ held \in Child(parent) \ freed
        /\ Child(parent) \ freed' = (Child(parent) \ freed) \ {held}
        /\ IsFiniteSet(Child(parent) \ freed)
    BY <1>1, <1>2, <1>4, TreeAssumption, FS_Subset DEF IsTree, Child
  <2>4. Cardinality(Child(parent) \ freed') = Cardinality(Child(parent) \ freed) - 1
    <3> DEFINE left == Child(parent) \ freed
    <3>1. IsFiniteSet(left) /\ held \in left
      BY <2>3
    <3>2. Cardinality(left \ {held}) = Cardinality(left) - 1
      <4> HIDE DEF left
      <4> QED
        BY <3>1, FS_RemoveElement
    <3> QED
      BY <2>3, <3>2
  <2> QED
    BY <1>1, <2>1, <2>2, <2>4 DEF Places, ChildrenCounted
<1>11. ChildrenFreed'
  <2>1. ASSUME child_nodes'[parent] = 0
        PROVE  Child(parent) \subseteq freed'
    <3>1. Cardinality(Child(parent) \ freed') = 0
      BY <1>1, <1>10, <2>1 DEF ChildrenCounted
    <3>2. IsFiniteSet(Child(parent) \ freed')
      BY TreeAssumption, FS_Subset DEF IsTree, Child
    <3> QED
      BY <3>1, <3>2, FS_EmptySet
  <2> QED
    BY <1>2, <1>4, <1>6, <1>7, <2>1 DEF Places, ChildrenFreed
<1>12. LeavesToCome'
  <2>1. \A j \in DOMAIN LeafOrder : LeafOrder[j] # parent
    BY <1>1, LeafAssumption DEF ListsLeaves
  <2>2. \A j \in DOMAIN LeafOrder : j >= i => LeafOrder[j] \notin InFlight \cup freed
    BY <1>4 DEF Places, LeavesToCome, NextLeaf, Building
  <2> QED
    BY <1>2, <1>4, <1>6, <1>7, <2>1, <2>2 DEF LeavesToCome, NextLeaf
<1> QED
  BY <1>4, <1>8, <1>9, <1>10, <1>11, <1>12 DEF Places, Returned

(* No step leaves Places.                                                  *)
LEMMA PlacesNext ==
  ASSUME TypeOK, Control, Places, [Next]_vars
  PROVE  Places'
<1>1. CASE MainStep
  BY <1>1, PlacesOfMain, PlacesAfterScan, PlacesAfterRoot, PlacesAfterChild
<1>2. CASE UNCHANGED vars
  BY <1>2 DEF vars, mainVars, treeVars, queues, threadVars, Places, SingleOwner,
              InFlight, Held, NodesInHand, LeavesToCome, NextLeaf, ChildrenFreed,
              ChildrenCounted, Returned
<1> QED
  BY <1>1, <1>2, PlacesOfThreads DEF Next, Terminated

(***************************************************************************)
(* What the places say about the build states                              *)
(***************************************************************************)
(* What States is about are nodes, and their targets are targets.          *)
LEMMA StatedAreNodes ==
  TypeOK /\ Control => /\ Dispatched \cup Running \cup Answered \subseteq Node
                       /\ \A n \in Node : TargetOf[n] \in Target
<1> SUFFICES ASSUME TypeOK, Control
             PROVE  /\ Dispatched \cup Running \cup Answered \subseteq Node
                    /\ \A n \in Node : TargetOf[n] \in Target
  OBVIOUS
<1>1. \A s \in {"got", "running", "respond"} : Doing(Thread, s) \subseteq Node
  BY DEF Doing, Control, ThreadControl
<1>2. Doing(Builder, "got") \cup Doing(Builder, "running") \subseteq Node
  BY DEF Doing, Control, ThreadControl
<1>3. HeldAt("dispatch") \cup HeldAt("handle") \cup NodesOn(dispatch_queue)
        \cup NodesOn(response_queue) \cup freed \subseteq Node
  BY PlacesAreNodes DEF HeldAt, InFlight, TypeOK
<1> QED
  BY <1>1, <1>2, <1>3 DEF Dispatched, Running, Answered, Target

(* A step that changes no build state.                                     *)
LEMMA StatesKept ==
  ASSUME States, UNCHANGED build_state, Dispatched' \subseteq Dispatched,
         Running' \subseteq Running,
         \A n \in Answered' : n \in Answered \/ build_state[TargetOf[n]] = "DONE"
  PROVE  States'
BY DEF States, StartedAfterChildren

(* main lets node n be built, or waits for another node of its target.     *)
LEMMA StatesAfterRelease ==
  ASSUME TypeOK, Control, States, NEW n \in Node, Release(n),
         \A c \in Child(n) : build_state[TargetOf[c]] = "DONE",
         Dispatched' \subseteq Dispatched \cup HeldAt("dispatch")',
         Running' \subseteq Running, Answered' \subseteq Answered
  PROVE  States'
<1>1. HeldAt("dispatch")' \subseteq {n} /\ (HeldAt("dispatch")' # {} => main' = "dispatch")
  BY DEF HeldAt, Held, Release
<1>2. CASE build_state[TargetOf[n]] # "READY"
  BY <1>1, <1>2, StatesKept DEF Release
<1>3. CASE build_state[TargetOf[n]] = "READY"
  <2>1. \A m \in Node :
          build_state'[TargetOf[m]] = IF TargetOf[m] = TargetOf[n]
                                      THEN "ONQ" ELSE build_state[TargetOf[m]]
    BY <1>3, StatedAreNodes DEF Release, TypeOK
  <2>2. \A m \in Dispatched \cup Running \cup Answered : TargetOf[m] # TargetOf[n]
    BY <1>3 DEF States
  <2>3. /\ \A m \in Dispatched' : build_state'[TargetOf[m]] = "ONQ"
        /\ \A m \in Running' : build_state'[TargetOf[m]] = "RUNNING"
        /\ \A m \in Answered' : build_state'[TargetOf[m]] = "DONE"
    BY <1>1, <2>1, <2>2, StatedAreNodes DEF States
  <2>4. \A l, m \in Dispatched' \cup Running' : TargetOf[l] = TargetOf[m] => l = m
    BY <1>1, <2>2 DEF States
  <2>5. StartedAfterChildren'
    <3>1. SUFFICES ASSUME NEW m \in Node, NEW c \in Child(m),
                          build_state'[TargetOf[m]] # "READY"
                   PROVE  build_state'[TargetOf[c]] = "DONE"
      BY DEF StartedAfterChildren
    <3>2. c \in Node
      BY DEF Child
    <3>3. build_state[TargetOf[c]] = "DONE"
      <4>1. CASE TargetOf[m] = TargetOf[n]
        <5>1. ChildTargets(m) = ChildTargets(n)
          BY <4>1, SharingAssumption DEF IsShared
        <5>2. \E d \in Child(n) : TargetOf[c] = TargetOf[d]
          BY <5>1 DEF ChildTargets
        <5> QED
          BY <5>2
      <4>2. CASE TargetOf[m] # TargetOf[n]
        BY <2>1, <3>1, <4>2 DEF States, StartedAfterChildren
      <4> QED
        BY <4>1, <4>2
    <3> QED
      BY <1>3, <2>1, <3>2, <3>3
  <2> QED
    BY <2>3, <2>4, <2>5 DEF States
<1> QED
  BY <1>2, <1>3

(* No step of main leaves States.                                          *)
LEMMA StatesOfMain ==
  ASSUME TypeOK, Control, Places, States, MainStep
  PROVE  States'
<1> USE DEF mainVars, treeVars, queues, threadVars
<1>1. /\ Held = {held} \ {NoNode} /\ Held' = {held'} \ {NoNode}
      /\ HandsDistinct
      /\ Distinct(response_queue)
  BY DEF Held, Places, SingleOwner, HandsDistinct
<1>2. ASSUME UNCHANGED threadVars
      PROVE  \A s : /\ Doing(Thread, s)' = Doing(Thread, s)
                    /\ Doing(Builder, s)' = Doing(Builder, s)
  BY <1>2 DEF Doing
<1>3. CASE Spawn
  <2>1. CASE UNCHANGED pc
    BY <1>2, <1>3, <2>1, StatesKept DEF Spawn, Dispatched, Running, Answered, HeldAt, Held
  <2>2. CASE pc' = [pc EXCEPT ![i] = "poll"]
    <3>1. i \in Thread /\ Moves(i, "poll", hand[i])
      BY <1>3, <2>2 DEF Spawn, Control, MainControl, Moves, TypeOK
    <3>2. /\ Doing(Builder, "got")' \subseteq Doing(Builder, "got")
          /\ Doing(Builder, "running")' \subseteq Doing(Builder, "running")
          /\ Doing(Thread, "respond")' \subseteq Doing(Thread, "respond")
      BY <1>1, <3>1, DoingAfterStep DEF Control
    <3>3. HeldAt("dispatch")' = {} /\ HeldAt("handle")' = {}
      BY <1>3 DEF Spawn, HeldAt
    <3> QED
      BY <1>3, <3>2, <3>3, StatesKept DEF Spawn, Dispatched, Running, Answered
  <2> QED
    BY <1>3, <2>1, <2>2 DEF Spawn
<1>4. CASE ScanLeaf
  <2>1. LeafOrder[i] \in Node /\ Child(LeafOrder[i]) = {}
    BY <1>4, LeafAssumption DEF ListsLeaves, ScanLeaf, Control, MainControl
  <2>2. HeldAt("handle")' = {}
    BY <1>4 DEF ScanLeaf, Release, HeldAt
  <2>3. /\ Dispatched' \subseteq Dispatched \cup HeldAt("dispatch")'
        /\ Running' \subseteq Running /\ Answered' \subseteq Answered
    BY <1>2, <1>4, <2>2 DEF ScanLeaf, Dispatched, Running, Answered
  <2> QED
    BY <1>4, <2>1, <2>3, StatesAfterRelease DEF ScanLeaf
<1>5. CASE DispatchNode
  <2>1. held \in Node /\ HeldAt("dispatch") = {held}
    BY <1>1, <1>5 DEF DispatchNode, HeldAt, Control, MainControl
  <2>2. NodesOn(dispatch_queue') \subseteq NodesOn(dispatch_queue) \cup {held}
    BY <1>5, <2>1 DEF DispatchNode, NodesOn, TypeOK
  <2>3. HeldAt("dispatch")' = {} /\ HeldAt("handle")' = {}
    BY <1>1, <1>5 DEF DispatchNode, HeldAt
  <2> QED
    BY <1>2, <1>5, <2>1, <2>2, <2>3, StatesKept
       DEF DispatchNode, Dispatched, Running, Answered
<1>6. CASE MonitorNode
  <2>1. HeldAt("dispatch")' = {} /\ HeldAt("handle")' = {}
    BY <1>1, <1>6 DEF MonitorNode, HeldAt
  <2> QED
    BY <1>2, <1>6, <2>1, StatesKept
       DEF MonitorNode, Dispatched, Running, Answered
<1>7. CASE GetResponse
  <2>1. HeldAt("dispatch")' = {} /\ HeldAt("handle")' \subseteq {held'}
    BY <1>1, <1>7 DEF GetResponse, HeldAt
  <2>2. held' \in Node
    BY <1>7, TakeFromQueue DEF GetResponse, TypeOK, Control, MainControl, Building
  <2>3. held' \in NodesOn(response_queue)
        /\ NodesOn(response_queue') \subseteq NodesOn(response_queue)
    BY <1>1, <1>7, <2>2, NodesAfterTake DEF GetResponse, TypeOK
  <2> QED
    BY <1>2, <1>7, <2>1, <2>3, StatesKept
       DEF GetResponse, Dispatched, Running, Answered
<1>8. ASSUME HandleRoot \/ HandleChild
      PROVE  /\ Dispatched' \subseteq Dispatched \cup HeldAt("dispatch")'
             /\ Running' \subseteq Running /\ Answered' \subseteq Answered
  <2>1. /\ HeldAt("handle") = {held} /\ HeldAt("handle")' = {}
        /\ freed' = freed \cup {held}
    BY <1>1, <1>8 DEF HandleRoot, HandleChild, Free, Release, HeldAt, Control, MainControl
  <2> QED
    BY <1>2, <1>8, <2>1 DEF HandleRoot, HandleChild, Dispatched, Running, Answered
<1>9. CASE HandleRoot
  <2>1. HeldAt("dispatch")' = {}
    BY <1>9 DEF HandleRoot, HeldAt
  <2> QED
    BY <1>8, <1>9, <2>1, StatesKept DEF HandleRoot
<1>10. CASE HandleChild
  <2>1. held \in Node /\ Parent[held] \in Node
    BY <1>10, TreeAssumption DEF IsTree, HandleChild, IsAnswer, Control, MainControl
  <2>2. CASE Release(Parent[held]) /\ child_nodes'[Parent[held]] = 0
    <3>1. Places'
      BY <1>10, PlacesAfterChild
    <3>2. Child(Parent[held]) \subseteq freed'
      BY <2>2, <2>1, <3>1 DEF Places, ChildrenFreed, InFlight, Held, Release
    <3>3. freed' \subseteq Answered
      BY <1>1, <1>10 DEF HandleChild, Free, Answered, HeldAt, Control, MainControl
    <3>4. \A c \in Child(Parent[held]) : build_state[TargetOf[c]] = "DONE"
      BY <3>2, <3>3 DEF States
    <3> QED
      BY <1>8, <1>10, <2>1, <2>2, <3>4, StatesAfterRelease
  <2>3. CASE held' = NoNode /\ UNCHANGED build_state
    <3>1. HeldAt("dispatch")' = {}
      BY <2>3 DEF HeldAt, Held
    <3> QED
      BY <1>8, <1>10, <2>3, <3>1, StatesKept
  <2> QED
    BY <1>10, <2>2, <2>3 DEF HandleChild, ChildrenBuilt
<1>11. CASE SaveHashes \/ CleanQueues
  <2>1. HeldAt("dispatch")' = {} /\ HeldAt("handle")' = {}
    BY <1>11 DEF SaveHashes, CleanQueues, HeldAt
  <2> QED
    BY <1>2, <1>11, <2>1, StatesKept
       DEF SaveHashes, CleanQueues, Dispatched, Running, Answered
<1>12. CASE SendKill
  <2>1. HeldAt("dispatch")' = {} /\ HeldAt("handle")' = {}
    BY <1>12 DEF SendKill, HeldAt
  <2>2. NodesOn(dispatch_queue') \subseteq NodesOn(dispatch_queue)
    <3>1. CASE dispatch_queue' = Append(dispatch_queue, Kill)
      BY <3>1 DEF NodesOn, TypeOK
    <3>2. CASE dispatch_queue' = dispatch_queue
      BY <3>2
    <3> QED
      BY <1>12, <3>1, <3>2 DEF SendKill
  <2> QED
    BY <1>2, <1>12, <2>1, <2>2, StatesKept
       DEF SendKill, Dispatched, Running, Answered
<1>13. CASE AwaitAck
  <2>1. HeldAt("dispatch")' = {} /\ HeldAt("handle")' = {}
    BY <1>13 DEF AwaitAck, HeldAt
  <2>2. NodesOn(response_queue') \subseteq NodesOn(response_queue)
    BY <1>1, <1>13, NodesAfterTake DEF AwaitAck, TypeOK
  <2> QED
    BY <1>2, <1>13, <2>1, <2>2, StatesKept
       DEF AwaitAck, Dispatched, Running, Answered
<1> QED
  BY <1>3, <1>4, <1>5, <1>6, <1>7, <1>9, <1>10, <1>11, <1>12, <1>13 DEF MainStep

(* No step of a thread leaves States.                                      *)
LEMMA StatesOfThreads ==
  ASSUME TypeOK, Control, Places, States,
         MonitorThread \/ \E b \in Builder : BuildThread(b)
  PROVE  States'
<1> USE DEF mainVars, treeVars, queues, threadVars
<1>1. /\ HandsDistinct /\ ThreadControl
      /\ Distinct(dispatch_queue) /\ Distinct(monitor_queue)
      /\ Monitor \in Thread /\ Monitor \notin Builder
      /\ \A t \in Thread : hand = [hand EXCEPT ![t] = hand[t]]
  BY DEF Places, SingleOwner, HandsDistinct, Control, TypeOK
<1>2. /\ UNCHANGED freed
      /\ HeldAt("dispatch")' = HeldAt("dispatch")
      /\ HeldAt("handle")' = HeldAt("handle")
  BY DEF MonitorThread, BuildThread, GetMonitored, CheckMonitored, Requeue,
         GetDispatched, StartBuild, FinishBuild, SendResponse, HeldAt, Held
<1>3. \A n \in Dispatched \cup Running \cup Answered :
        n \in Node /\ TargetOf[n] \in Target
  BY StatedAreNodes
<1>4. CASE \E b \in Builder : GetDispatched(b)
  <2>1. PICK b \in Builder : GetDispatched(b)
    BY <1>4
  <2> DEFINE first == Head(dispatch_queue)
  <2>2. /\ NodesOn(dispatch_queue') \subseteq NodesOn(dispatch_queue)
        /\ first # Kill => first \in NodesOn(dispatch_queue)
    BY <1>1, <2>1, NodesAfterTake DEF GetDispatched, Take, TypeOK
  <2>3. /\ Moves(b, IF first = Kill THEN "ack" ELSE "got", first)
        /\ b \in Thread /\ UNCHANGED <<response_queue, build_state>>
    BY <2>1 DEF GetDispatched, Take, Goto, Moves
  <2>4. /\ Doing(Builder, "got")' \subseteq Doing(Builder, "got")
                                             \cup ({first} \ {Kill})
        /\ Doing(Builder, "running")' \subseteq Doing(Builder, "running")
        /\ Doing(Thread, "respond")' \subseteq Doing(Thread, "respond")
    BY <1>1, <2>3, DoingAfterStep
  <2> QED
    BY <1>2, <2>2, <2>3, <2>4, StatesKept DEF Dispatched, Running, Answered
<1>5. CASE GetMonitored
  <2>1. PICK to, x : Moves(Monitor, to, x) /\ to \in {"ack", "got"}
    BY <1>5 DEF GetMonitored, Take, Goto, Moves
  <2>2. /\ Doing(Builder, "got")' \subseteq Doing(Builder, "got")
        /\ Doing(Builder, "running")' \subseteq Doing(Builder, "running")
        /\ Doing(Thread, "respond")' \subseteq Doing(Thread, "respond")
    BY <1>1, <2>1, DoingAfterStep
  <2> QED
    BY <1>2, <1>5, <2>2, StatesKept DEF GetMonitored, Dispatched, Running, Answered
<1>6. CASE Requeue
  <2>1. Moves(Monitor, "poll", NoNode)
    BY <1>6 DEF Requeue, Goto, Moves
  <2>2. /\ Doing(Builder, "got")' \subseteq Doing(Builder, "got")
        /\ Doing(Builder, "running")' \subseteq Doing(Builder, "running")
        /\ Doing(Thread, "respond")' \subseteq Doing(Thread, "respond")
    BY <1>1, <2>1, DoingAfterStep
  <2> QED
    BY <1>2, <1>6, <2>2, StatesKept DEF Requeue, Dispatched, Running, Answered
<1>7. CASE CheckMonitored
  <2>1. PICK to : /\ Moves(Monitor, to, hand[Monitor])
                  /\ \/ to = "respond" /\ build_state[TargetOf[hand[Monitor]]] = "DONE"
                     \/ to = "requeue"
    BY <1>1, <1>7 DEF CheckMonitored, Goto, Moves
  <2>3. /\ Doing(Builder, "got")' \subseteq Doing(Builder, "got")
        /\ Doing(Builder, "running")' \subseteq Doing(Builder, "running")
        /\ Doing(Thread, "respond")'
             \subseteq Doing(Thread, "respond")
                        \cup (IF to = "respond" THEN {hand[Monitor]} ELSE {})
    BY <1>1, <2>1, DoingAfterStep
  <2> QED
    BY <1>2, <1>7, <2>1, <2>3, StatesKept DEF CheckMonitored, Dispatched, Running, Answered
<1>8. CASE \E t \in Thread : SendResponse(t)
  <2>1. PICK t \in Thread : SendResponse(t)
    BY <1>8
  <2>2. PICK to : to \in {"poll", "exit"} /\ Moves(t, to, NoNode)
    BY <2>1 DEF SendResponse, Goto, Moves
  <2>4. /\ Doing(Builder, "got")' \subseteq Doing(Builder, "got")
        /\ Doing(Builder, "running")' \subseteq Doing(Builder, "running")
        /\ Doing(Thread, "respond")' \subseteq Doing(Thread, "respond")
    BY <1>1, <2>2, DoingAfterStep
  <2>5. /\ hand[t] \in Entry
        /\ hand[t] # Kill => hand[t] \in Doing(Thread, "respond")
    BY <1>1, <2>1 DEF SendResponse, Goto, ThreadControl, Doing
  <2>6. NodesOn(response_queue') \subseteq NodesOn(response_queue)
                                             \cup ({hand[t]} \ {Kill})
    BY <2>1, <2>5 DEF SendResponse, NodesOn, TypeOK
  <2> QED
    BY <1>2, <2>1, <2>4, <2>5, <2>6, StatesKept
       DEF SendResponse, Dispatched, Running, Answered
<1>9. CASE \E b \in Builder : StartBuild(b)
  <2>1. PICK b \in Builder : StartBuild(b)
    BY <1>9
  <2> DEFINE n == hand[b]
  <2>2. /\ pc[b] = "got" /\ Moves(b, "running", n) /\ b \in Thread
        /\ UNCHANGED <<dispatch_queue, response_queue>>
        /\ build_state' = [build_state EXCEPT ![TargetOf[n]] = "RUNNING"]
    BY <1>1, <2>1 DEF StartBuild, Goto, Moves
  <2>3. n \in Doing(Builder, "got") /\ n \in Dispatched
    BY <2>2 DEF Doing, Dispatched
  <2>4. /\ Doing(Builder, "got")' = Doing(Builder, "got") \ {n}
        /\ Doing(Builder, "running")' \subseteq Doing(Builder, "running") \cup {n}
        /\ Doing(Thread, "respond")' \subseteq Doing(Thread, "respond")
    BY <1>1, <2>2, DoingAfterStep
  <2>5. n \notin NodesOn(dispatch_queue) /\ n \notin HeldAt("dispatch")
    <3>1. n \in Node /\ n \in NodesInHand
      BY <1>1, <2>2 DEF ThreadControl, NodesInHand
    <3> QED
      BY <3>1 DEF Places, SingleOwner, HeldAt, Held
  <2>6. /\ Dispatched' \subseteq Dispatched \ {n}
        /\ Running' \subseteq Running \cup {n} /\ Answered' \subseteq Answered
    BY <1>2, <2>2, <2>4, <2>5 DEF Dispatched, Running, Answered
  <2>7. \A m \in Node :
          build_state'[TargetOf[m]] = IF TargetOf[m] = TargetOf[n]
                                      THEN "RUNNING" ELSE build_state[TargetOf[m]]
    BY <1>3, <2>2, StatedAreNodes DEF TypeOK
  <2>8. build_state[TargetOf[n]] = "ONQ"
    BY <2>3 DEF States
  <2>9. \A m \in Dispatched \cup Running : m # n => TargetOf[m] # TargetOf[n]
    BY <2>3 DEF States
  <2>10. StartedAfterChildren'
    BY <2>7, <2>8 DEF States, StartedAfterChildren, Child
  <2>11. /\ \A m \in Dispatched' : build_state'[TargetOf[m]] = "ONQ"
         /\ \A m \in Running' : build_state'[TargetOf[m]] = "RUNNING"
         /\ \A m \in Answered' : build_state'[TargetOf[m]] = "DONE"
    BY <1>3, <2>3, <2>6, <2>7, <2>8, <2>9 DEF States
  <2>12. \A l, m \in Dispatched' \cup Running' : TargetOf[l] = TargetOf[m] => l = m
    BY <2>3, <2>6 DEF States
  <2> QED
    BY <2>10, <2>11, <2>12 DEF States
<1>10. CASE \E b \in Builder : FinishBuild(b)
  <2>1. PICK b \in Builder : FinishBuild(b)
    BY <1>10
  <2> DEFINE n == hand[b]
  <2>2. /\ pc[b] = "running" /\ Moves(b, "respond", n) /\ b \in Thread
        /\ UNCHANGED <<dispatch_queue, response_queue>>
        /\ build_state' = [build_state EXCEPT ![TargetOf[n]] = "DONE"]
    BY <1>1, <2>1 DEF FinishBuild, Goto, Moves
  <2>3. n \in Running
    BY <2>2 DEF Doing, Running
  <2>4. /\ Doing(Builder, "got")' \subseteq Doing(Builder, "got")
        /\ Doing(Builder, "running")' \subseteq Doing(Builder, "running") \ {n}
        /\ Doing(Thread, "respond")' \subseteq Doing(Thread, "respond") \cup {n}
    BY <1>1, <2>2, DoingAfterStep
  <2>5. /\ Dispatched' \subseteq Dispatched
        /\ Running' \subseteq Running \ {n} /\ Answered' \subseteq Answered \cup {n}
    BY <1>2, <2>2, <2>4 DEF Dispatched, Running, Answered
  <2>6. \A m \in Node :
          build_state'[TargetOf[m]] = IF TargetOf[m] = TargetOf[n]
                                      THEN "DONE" ELSE build_state[TargetOf[m]]
    BY <1>3, <2>2, StatedAreNodes DEF TypeOK
  <2>7. build_state[TargetOf[n]] = "RUNNING"
    BY <2>3 DEF States
  <2>8. \A m \in Dispatched \cup Running : m # n => TargetOf[m] # TargetOf[n]
    BY <2>3 DEF States
  <2>9. \A m \in Dispatched : m # n
    BY <2>7 DEF States
  <2>10. StartedAfterChildren'
    BY <2>6, <2>7 DEF States, StartedAfterChildren, Child
  <2>11. /\ \A m \in Dispatched' : build_state'[TargetOf[m]] = "ONQ"
         /\ \A m \in Running' : build_state'[TargetOf[m]] = "RUNNING"
         /\ \A m \in Answered' : build_state'[TargetOf[m]] = "DONE"
    BY <1>3, <2>3, <2>5, <2>6, <2>8, <2>9 DEF States
  <2>12. \A l, m \in Dispatched' \cup Running' : TargetOf[l] = TargetOf[m] => l = m
    BY <2>5 DEF States
  <2> QED
    BY <2>10, <2>11, <2>12 DEF States
<1>11. CASE MonitorThread
  BY <1>1, <1>5, <1>6, <1>7, <1>8, <1>11 DEF MonitorThread
<1>12. CASE \E b \in Builder : BuildThread(b)
  BY <1>4, <1>8, <1>9, <1>10, <1>12 DEF BuildThread
<1> QED
  BY <1>11, <1>12

(* No step leaves States.                                                  *)
LEMMA StatesNext ==
  ASSUME TypeOK, Control, Places, States, [Next]_vars
  PROVE  States'
<1>1. CASE UNCHANGED vars
  BY <1>1, StatesKept DEF vars, mainVars, treeVars, queues, threadVars, Dispatched,
                          Running, Answered, Doing, HeldAt, Held
<1> QED
  BY <1>1, StatesOfMain, StatesOfThreads DEF Next, Terminated

(***************************************************************************)
(* The inductive invariant                                                 *)
(***************************************************************************)
(* The invariant holds initially.                                          *)
LEMMA InductiveInit == Init => Inductive
<1> SUFFICES ASSUME Init PROVE Inductive
  OBVIOUS
<1>1. TypeOK /\ Control
  BY ControlInit
<1>2. /\ NodesOn(dispatch_queue) = {} /\ NodesOn(monitor_queue) = {}
      /\ NodesOn(response_queue) = {} /\ NodesInHand = {} /\ Held = {}
      /\ freed = {} /\ main = "spawn"
  BY DEF Init, NodesOn, NodesInHand, Held
<1>3. InFlight = {}
  BY <1>2 DEF InFlight
<1>4. Dispatched = {} /\ Running = {} /\ Answered = {}
  BY <1>2 DEF Init, Dispatched, Running, Answered, Doing, HeldAt
<1>5. SingleOwner
  BY <1>2 DEF Init, SingleOwner, Distinct
<1>6. ChildrenCounted
  <2>1. \A n \in Node : Child(n) \ freed = Child(n)
    BY <1>2
  <2> QED
    BY <2>1 DEF Init, ChildrenCounted
<1>7. Places
  BY <1>2, <1>3, <1>5, <1>6 DEF Places, LeavesToCome, ChildrenFreed, Returned
<1>8. StartedAfterChildren
  BY StatedAreNodes, <1>1 DEF Init, StartedAfterChildren
<1>9. States
  BY <1>4, <1>8 DEF States
<1> QED
  BY <1>1, <1>7, <1>9 DEF Inductive

(* The invariant is inductive.                                             *)
LEMMA InductiveNext == Inductive /\ [Next]_vars => Inductive'
BY ControlNext, PlacesNext, StatesNext DEF Inductive

(* Every node is where Places says it is, and every target in the build    *)
(* state that States says, in every behaviour of the build.                *)
THEOREM InductiveInvariant == Spec => []Inductive
BY InductiveInit, InductiveNext, PTL DEF Spec

-----------------------------------------------------------------------------
(***************************************************************************)
(* What the build threads, the monitor thread and main promise together    *)
(***************************************************************************)
(***************************************************************************)
(* Invariants                                                              *)
(***************************************************************************)
(* The asserts of threads.c:97, main.c:235 and main.c:255 never fail.      *)
THEOREM AssertsNeverFail == Spec => []AssertionsHold
<1>1. Inductive => AssertionsHold
  <2> SUFFICES ASSUME Inductive PROVE AssertionsHold
    OBVIOUS
  <2>1. \A b \in Builder : pc[b] = "got" => hand[b] \in Dispatched
    BY DEF Dispatched, Doing
  <2>2. main = "handle" => held \in Answered
    BY DEF Answered, HeldAt, Held, Inductive, Control, MainControl
  <2>3. ASSUME NEW n \in Node PROVE child_nodes[n] >= 0
    <3> DEFINE left == Child(n) \ freed
    <3>1. child_nodes[n] = Cardinality(left)
      BY DEF Inductive, Places, ChildrenCounted
    <3>2. IsFiniteSet(left)
      BY TreeAssumption, FS_Subset DEF IsTree, Child
    <3>3. Cardinality(left) \in Nat
      <4> HIDE DEF left
      <4> QED
        BY <3>2, FS_CardinalityType
    <3> QED
      BY <3>1, <3>3
  <2> QED
    BY <2>1, <2>2, <2>3 DEF AssertionsHold, Inductive, States
<1> QED
  BY <1>1, InductiveInvariant, PTL

(* README:10-13: no command is run before those of the targets it depends  *)
(* on, whichever thread runs it and through whichever tree node.           *)
THEOREM HappensBefore == Spec => []DependenciesFirst
<1>1. Inductive => DependenciesFirst
  BY DEF Inductive, States, StartedAfterChildren, DependenciesFirst
<1> QED
  BY <1>1, InductiveInvariant, PTL

(* Nothing points at a tree node that main has freed.                      *)
THEOREM FreedAreUnused == Spec => []NoUseAfterFree
<1>1. Inductive => NoUseAfterFree
  BY DEF Inductive, Places, ChildrenFreed, LeavesToCome, NextLeaf, Building,
         NoUseAfterFree
<1> QED
  BY <1>1, InductiveInvariant, PTL

(* A tree node is on one queue, in one thread's hand or held by main: the  *)
(* places exclude each other.                                              *)
THEOREM OneOwner == Spec => []SingleOwner
<1>1. Inductive => SingleOwner
  BY DEF Inductive, Places
<1> QED
  BY <1>1, InductiveInvariant, PTL

(* main leaves its response loop with everything built and freed, and with *)
(* nothing queued or running.                                              *)
THEOREM Drained == Spec => []DrainedOnReturn
<1>1. Inductive => DrainedOnReturn
  <2> SUFFICES ASSUME Inductive, Returned
               PROVE  /\ \A t \in Target : build_state[t] = "DONE"
                      /\ freed = Node
                      /\ InFlight = {}
    BY DEF DrainedOnReturn
  <2>1. freed = Node /\ InFlight \cap freed = {} /\ InFlight \subseteq Node
    BY PlacesAreNodes DEF Inductive, Places
  <2>2. \A n \in Node : build_state[TargetOf[n]] = "DONE"
    BY <2>1 DEF Inductive, States, Answered
  <2> QED
    BY <2>1, <2>2 DEF Target
<1> QED
  BY <1>1, InductiveInvariant, PTL

(***************************************************************************)
(* Steps                                                                   *)
(***************************************************************************)
(* The target of n goes on to the build state "to".                        *)
Advances(n, to) ==
  /\ BuildStep(build_state[TargetOf[n]], to)
  /\ build_state' = [build_state EXCEPT ![TargetOf[n]] = to]

(* A step changes the build state of one target at most, to the next one,  *)
(* and only the answer for the root ends the build.                        *)
LEMMA BuildStateSteps ==
  ASSUME Inductive, [Next]_vars
  PROVE  \/ UNCHANGED build_state /\ (HandleRoot \/ Returned' = Returned)
         \/ Returned' = Returned /\ \E n \in Node, to \in BuildState : Advances(n, to)
<1> USE DEF mainVars, treeVars, queues, threadVars
<1>1. ASSUME NEW n \in Node, Release(n)
      PROVE  UNCHANGED build_state \/ Advances(n, "ONQ")
  BY <1>1 DEF Release, Advances, BuildStep
<1>2. CASE ScanLeaf
  <2>1. LeafOrder[i] \in Node
    BY <1>2, LeafAssumption DEF ListsLeaves, ScanLeaf, Inductive, Control, MainControl
  <2>2. Returned' = Returned
    BY <1>2 DEF ScanLeaf, Release, Returned
  <2> QED
    BY <1>1, <1>2, <2>1, <2>2 DEF ScanLeaf, BuildState
<1>3. CASE HandleChild
  <2>1. Parent[held] \in Node
    BY <1>3, TreeAssumption DEF IsTree, HandleChild, IsAnswer, Inductive, Control,
                                MainControl
  <2>2. Returned' = Returned
    BY <1>3 DEF HandleChild, Release, Returned
  <2> QED
    BY <1>1, <1>3, <2>1, <2>2 DEF HandleChild, BuildState
<1>4. CASE \E b \in Builder : StartBuild(b) \/ FinishBuild(b)
  <2>1. PICK b \in Builder : StartBuild(b) \/ FinishBuild(b)
    BY <1>4
  <2>2. hand[b] \in Node /\ Returned' = Returned
    BY <2>1 DEF StartBuild, FinishBuild, Goto, Returned, Inductive, Control, ThreadControl
  <2>3. CASE StartBuild(b)
    <3>1. hand[b] \in Dispatched
      BY <2>3 DEF StartBuild, Goto, Dispatched, Doing
    <3>2. Advances(hand[b], "RUNNING")
      BY <2>3, <3>1 DEF StartBuild, Advances, BuildStep, Inductive, States
    <3> QED
      BY <2>2, <3>2 DEF BuildState
  <2>4. CASE FinishBuild(b)
    <3>1. hand[b] \in Running
      BY <2>4 DEF FinishBuild, Goto, Running, Doing
    <3>2. Advances(hand[b], "DONE")
      BY <2>4, <3>1 DEF FinishBuild, Advances, BuildStep, Inductive, States
    <3> QED
      BY <2>2, <3>2 DEF BuildState
  <2> QED
    BY <2>1, <2>3, <2>4
<1>5. CASE HandleRoot
  BY <1>5 DEF HandleRoot
<1>6. CASE \/ Spawn \/ DispatchNode \/ MonitorNode \/ GetResponse \/ SaveHashes
           \/ SendKill \/ AwaitAck \/ CleanQueues
  BY <1>6 DEF Spawn, DispatchNode, MonitorNode, AfterPut, GetResponse, SaveHashes,
              SendKill, AwaitAck, CleanQueues, Returned
<1>7. CASE \/ \E b \in Builder : GetDispatched(b)
           \/ \E t \in Thread : SendResponse(t)
           \/ GetMonitored \/ CheckMonitored \/ Requeue \/ UNCHANGED vars
  BY <1>7 DEF GetDispatched, SendResponse, GetMonitored, CheckMonitored, Requeue,
              vars, Returned
<1> QED
  BY <1>2, <1>3, <1>4, <1>5, <1>6, <1>7
     DEF Next, MainStep, BuildThread, MonitorThread, Terminated

(* A target's command is run once: its build state takes its four values   *)
(* in order.                                                               *)
THEOREM RunOnce == Spec => EachTargetOnce
<1>1. Inductive /\ [Next]_vars =>
        [\A t \in Target : build_state'[t] # build_state[t]
                             => BuildStep(build_state[t], build_state'[t])]_build_state
  <2> SUFFICES ASSUME Inductive, [Next]_vars, NEW t \in Target,
                      build_state'[t] # build_state[t]
               PROVE  BuildStep(build_state[t], build_state'[t])
    OBVIOUS
  <2>1. PICK n \in Node, to \in BuildState : Advances(n, to)
    BY BuildStateSteps
  <2>2. build_state \in [Target -> BuildState]
    BY DEF Inductive, TypeOK
  <2> QED
    BY <2>1, <2>2 DEF Advances
<1> QED
  BY <1>1, InductiveInvariant, PTL DEF Spec, EachTargetOnce

(* The build implements the safety part of BuildOrder: to the outside it   *)
(* runs commands in dependency order and returns when all have been run.   *)
THEOREM Implements == Spec => Abstract!Safety
<1> DEFINE deps(t) == UNION {ChildTargets(n) : n \in {m \in Node : TargetOf[m] = t}}
           status == [t \in Target |-> CASE build_state[t] = "RUNNING" -> "running"
                                         [] build_state[t] = "DONE" -> "built"
                                         [] OTHER -> "waiting"]
<1>1. Init => Abstract!Init
  BY DEF Init, Abstract!Init, Returned
<1>2. Inductive /\ Inductive' /\ [Next]_vars => [Abstract!Next]_Abstract!vars
  <2> SUFFICES ASSUME Inductive, Inductive', [Next]_vars
               PROVE  [Abstract!Next]_Abstract!vars
    OBVIOUS
  <2>1. CASE UNCHANGED build_state /\ Returned' = Returned
    BY <2>1 DEF Abstract!vars
  <2>2. CASE HandleRoot
    <3>1. ~Returned /\ Returned' /\ UNCHANGED build_state
      BY <2>2 DEF HandleRoot, Returned
    <3>2. \A t \in Target : build_state[t] = "DONE"
      BY <3>1 DEF Inductive, Places, States, Answered, Target
    <3>3. Abstract!Return
      BY <3>1, <3>2 DEF Abstract!Return
    <3> QED
      BY <3>3 DEF Abstract!Next
  <2>3. CASE Returned' = Returned /\ \E n \in Node, to \in BuildState : Advances(n, to)
    <3>1. PICK n \in Node, to \in BuildState : Advances(n, to)
      BY <2>3
    <3> DEFINE t == TargetOf[n]
    <3>2. /\ t \in Target /\ build_state \in [Target -> BuildState]
          /\ build_state' \in [Target -> BuildState]
          /\ build_state' = [build_state EXCEPT ![t] = to]
          /\ BuildStep(build_state[t], to)
      BY <3>1 DEF Advances, Target, Inductive, TypeOK
    <3>3. CASE to = "ONQ"
      <4>1. build_state[t] = "READY"
        BY <3>2, <3>3 DEF BuildStep
      <4>2. status' = status
        BY <3>2, <3>3, <4>1
      <4> QED
        BY <2>3, <4>2 DEF Abstract!vars
    <3>4. CASE to = "RUNNING"
      <4>1. build_state[t] = "ONQ"
        BY <3>2, <3>4 DEF BuildStep
      <4>2. status' = [status EXCEPT ![t] = "running"] /\ status[t] = "waiting"
        BY <3>2, <3>4, <4>1
      <4>3. \A d \in deps(t) : d \in Target /\ status[d] = "built"
        BY <4>1 DEF Inductive, States, StartedAfterChildren, ChildTargets, Target, Child
      <4>4. Abstract!Start(t)
        BY <2>3, <3>2, <4>2, <4>3 DEF Abstract!Start
      <4> QED
        BY <3>2, <4>4 DEF Abstract!Next
    <3>5. CASE to = "DONE"
      <4>1. build_state[t] = "RUNNING"
        BY <3>2, <3>5 DEF BuildStep
      <4>2. status' = [status EXCEPT ![t] = "built"] /\ status[t] = "running"
        BY <3>2, <3>5, <4>1
      <4>3. Abstract!Finish(t)
        BY <2>3, <4>2 DEF Abstract!Finish
      <4> QED
        BY <3>2, <4>3 DEF Abstract!Next
    <3> QED
      BY <3>2, <3>3, <3>4, <3>5 DEF BuildStep
  <2> QED
    BY <2>1, <2>2, <2>3, BuildStateSteps
<1> QED
  BY <1>1, <1>2, InductiveInvariant, PTL DEF Spec, Abstract!Safety

(***************************************************************************)
(* The kill signals                                                        *)
(***************************************************************************)
(* The build threads that have taken their kill signal, whether the        *)
(* monitor thread has, and the threads that have yet to acknowledge it.    *)
Stopped == {b \in Builder : pc[b] \in {"ack", "exit"}}
MonitorStopped == IF pc[Monitor] \in {"ack", "exit"} THEN 1 ELSE 0
Acking == {t \in Thread : pc[t] = "ack"}

(* After the return the queues hold kill signals only.  Every signal that  *)
(* was sent is on a queue or taken, and threads_alive counts those that    *)
(* main has not got back.                                                  *)
SentToBuilders == CASE main = "save" -> 0 [] main = "kill" -> i [] OTHER -> N
SentToMonitor == IF main \in {"await", "exit"} THEN 1 ELSE 0
BuildersTold == Len(dispatch_queue) + Cardinality(Stopped) = SentToBuilders
MonitorTold == Len(monitor_queue) + MonitorStopped = SentToMonitor
AnswersDue ==
  threads_alive = Len(dispatch_queue) + Len(monitor_queue)
                   + Len(response_queue) + Cardinality(Acking)

SignalsCounted ==
  /\ main \in Building => threads_alive = 0
  /\ Returned => BuildersTold /\ MonitorTold /\ AnswersDue
  /\ main = "exit" => threads_alive = 0

(* The sets of threads are finite.                                         *)
LEMMA ThreadSets ==
  /\ IsFiniteSet(Stopped) /\ Cardinality(Stopped) \in Nat
  /\ IsFiniteSet(Acking) /\ Cardinality(Acking) \in Nat
  /\ IsFiniteSet(Builder) /\ Cardinality(Builder) = N
<1>1. IsFiniteSet(Thread) /\ IsFiniteSet(Builder) /\ Cardinality(Builder) = N
  BY FS_Interval
<1>2. \A S \in SUBSET Thread : IsFiniteSet(S) /\ Cardinality(S) \in Nat
  <2> HIDE DEF Thread
  <2> QED
    BY <1>1, FS_Subset, FS_CardinalityType
<1>3. Stopped \in SUBSET Thread /\ Acking \in SUBSET Thread
  BY DEF Stopped, Acking
<1> QED
  BY <1>1, <1>2, <1>3

(* With no node left, the queues hold signals and no thread holds a node.  *)
LEMMA OnlySignals ==
  ASSUME Inductive, Returned
  PROVE  /\ \A q \in {dispatch_queue, monitor_queue, response_queue} :
              q # <<>> => Head(q) = Kill
         /\ \A t \in Thread : pc[t] \notin {"got", "running", "respond", "requeue"}
<1>1. InFlight = {}
  BY PlacesAreNodes DEF Inductive, Places
<1>2. \A q \in Seq(Entry) : q # <<>> /\ NodesOn(q) = {} => Head(q) = Kill
  BY DEF NodesOn
<1>3. \A t \in Thread : hand[t] \notin Node
  BY <1>1 DEF InFlight, NodesInHand
<1> QED
  BY <1>1, <1>2, <1>3 DEF InFlight, Inductive, TypeOK, Control, ThreadControl

(* A thread takes its signal.                                              *)
LEMMA AfterStop ==
  ASSUME TypeOK, NEW t \in Thread, pc[t] = "poll", pc' = [pc EXCEPT ![t] = "ack"]
  PROVE  /\ Cardinality(Acking') = Cardinality(Acking) + 1
         /\ IF t = Monitor
            THEN MonitorStopped' = MonitorStopped + 1 /\ Stopped' = Stopped
            ELSE /\ MonitorStopped' = MonitorStopped
                 /\ Cardinality(Stopped') = Cardinality(Stopped) + 1
<1>1. \A u \in Thread : pc'[u] = IF u = t THEN "ack" ELSE pc[u]
  BY DEF TypeOK
<1>2. Acking' = Acking \cup {t} /\ t \notin Acking
  BY <1>1 DEF Acking
<1>3. Cardinality(Acking') = Cardinality(Acking) + 1
  BY <1>2, ThreadSets, FS_AddElement
<1>4. CASE t = Monitor
  BY <1>1, <1>3, <1>4 DEF MonitorStopped, Stopped
<1>5. CASE t # Monitor
  <2>1. Stopped' = Stopped \cup {t} /\ t \notin Stopped
    BY <1>1, <1>5 DEF Stopped
  <2>2. Cardinality(Stopped') = Cardinality(Stopped) + 1
    BY <2>1, ThreadSets, FS_AddElement
  <2> QED
    BY <1>1, <1>3, <1>5, <2>2 DEF MonitorStopped
<1> QED
  BY <1>4, <1>5

(* A thread acknowledges its signal.                                       *)
LEMMA AfterAck ==
  ASSUME TypeOK, NEW t \in Thread, pc[t] = "ack", pc' = [pc EXCEPT ![t] = "exit"]
  PROVE  /\ Cardinality(Acking') = Cardinality(Acking) - 1
         /\ MonitorStopped' = MonitorStopped /\ Stopped' = Stopped
<1>1. \A u \in Thread : pc'[u] = IF u = t THEN "exit" ELSE pc[u]
  BY DEF TypeOK
<1>2. Acking' = Acking \ {t} /\ t \in Acking
  BY <1>1 DEF Acking
<1>3. Cardinality(Acking') = Cardinality(Acking) - 1
  BY <1>2, ThreadSets, FS_RemoveElement
<1> QED
  BY <1>1, <1>3 DEF MonitorStopped, Stopped

(* No step loses a signal or counts it twice.                              *)
LEMMA SignalsNext ==
  ASSUME Inductive, Inductive', SignalsCounted, [Next]_vars
  PROVE  SignalsCounted'
<1> USE DEF mainVars, treeVars, queues, threadVars
<1>0. /\ Len(dispatch_queue) \in Nat /\ Len(monitor_queue) \in Nat
      /\ Len(response_queue) \in Nat /\ i \in Nat /\ threads_alive \in Nat
      /\ main = "kill" => i \in 0 .. N
      /\ dispatch_queue \in Seq(Entry) /\ monitor_queue \in Seq(Entry)
      /\ response_queue \in Seq(Entry)
  BY DEF Inductive, TypeOK, Control, MainControl
<1>1. UNCHANGED pc => UNCHANGED <<Acking, Stopped, MonitorStopped>>
  BY DEF Acking, Stopped, MonitorStopped
<1>2. CASE HandleRoot
  <2>1. /\ main = "handle" /\ main' = "save"
        /\ UNCHANGED <<pc, queues, threads_alive>>
    BY <1>2 DEF HandleRoot
  <2>2. /\ NodesOn(dispatch_queue) = {} /\ NodesOn(monitor_queue) = {}
        /\ NodesOn(response_queue) = {}
    <3>1. freed' = Node /\ InFlight' \cap freed' = {}
      BY <2>1 DEF Inductive, Places, Returned
    <3>2. InFlight \subseteq Node
      BY PlacesAreNodes DEF Inductive
    <3> QED
      BY <2>1, <3>1, <3>2 DEF InFlight
  <2>3. NoKill(dispatch_queue) /\ NoKill(monitor_queue) /\ NoKill(response_queue)
    BY <2>1 DEF Inductive, Control, MainControl, QueueControl, Building
  <2>4. \A q \in Seq(Entry) : NoKill(q) /\ NodesOn(q) = {} => Len(q) = 0
    BY DEF NoKill, NodesOn
  <2>5. /\ Len(dispatch_queue) = 0 /\ Len(monitor_queue) = 0
        /\ Len(response_queue) = 0
    BY <1>0, <2>2, <2>3, <2>4
  <2>6. \A t \in Thread : pc[t] \notin {"ack", "exit"}
    BY <2>1 DEF Inductive, Control, ThreadControl, Building
  <2>7. Acking = {} /\ Stopped = {} /\ MonitorStopped = 0
    BY <2>6 DEF Acking, Stopped, MonitorStopped
  <2>8. threads_alive = 0
    BY <2>1 DEF SignalsCounted, Building
  <2>9. /\ Cardinality(Acking') = 0 /\ Cardinality(Stopped') = 0
        /\ MonitorStopped' = 0
    BY <1>1, <2>1, <2>7, FS_EmptySet
  <2> QED
    BY <2>1, <2>5, <2>8, <2>9 DEF SignalsCounted, BuildersTold, MonitorTold,
       AnswersDue, SentToBuilders, SentToMonitor, Returned, Building
<1>3. CASE ~Returned /\ ~HandleRoot
  <2>1. Returned' = Returned
    BY <1>3, BuildStateSteps
  <2>2. threads_alive' = threads_alive
    BY <1>3 DEF Next, MainStep, BuildThread, MonitorThread, Spawn, ScanLeaf, DispatchNode,
                MonitorNode, GetResponse, HandleChild, SaveHashes, SendKill,
                AwaitAck, CleanQueues, GetDispatched, StartBuild, FinishBuild,
                SendResponse, GetMonitored, CheckMonitored, Requeue, Terminated,
                vars, Returned
  <2>3. main \in Building
    BY <1>3 DEF Returned, Building, MainPc, Inductive, TypeOK
  <2> QED
    BY <1>3, <2>1, <2>2, <2>3 DEF SignalsCounted, Returned
<1>4. CASE Returned /\ MainStep
  <2>0. ~HandleRoot /\ main \notin Building /\ UNCHANGED pc
    BY <1>4 DEF Returned, Building, MainStep, Spawn, ScanLeaf, DispatchNode, MonitorNode,
                GetResponse, HandleRoot, HandleChild, SaveHashes, SendKill, AwaitAck,
                CleanQueues
  <2>1. /\ BuildersTold /\ MonitorTold /\ AnswersDue
        /\ UNCHANGED <<Acking, Stopped, MonitorStopped>>
    BY <1>1, <1>4, <2>0 DEF SignalsCounted
  <2>2. CASE SaveHashes
    BY <2>1, <2>2 DEF SaveHashes, SignalsCounted, BuildersTold, MonitorTold,
       AnswersDue, SentToBuilders, SentToMonitor, Returned, Building
  <2>3. CASE SendKill
    <3>1. /\ threads_alive' = threads_alive + 1 /\ UNCHANGED response_queue
          /\ main = "kill" /\ main' \in {"kill", "await"}
      BY <2>3 DEF SendKill
    <3>2. CASE /\ i < N /\ dispatch_queue' = Append(dispatch_queue, Kill)
               /\ i' = i + 1 /\ UNCHANGED <<main, monitor_queue>>
      <4>1. Len(dispatch_queue') = Len(dispatch_queue) + 1
        BY <1>0, <3>2
      <4>2. BuildersTold'
        BY <1>0, <2>1, <3>1, <3>2, <4>1, ThreadSets DEF BuildersTold, SentToBuilders
      <4>3. MonitorTold'
        BY <2>1, <3>2 DEF MonitorTold, SentToMonitor
      <4>4. AnswersDue'
        BY <1>0, <2>1, <3>1, <3>2, <4>1, ThreadSets DEF AnswersDue
      <4> QED
        BY <3>1, <3>2, <4>2, <4>3, <4>4 DEF SignalsCounted, Building
    <3>3. CASE /\ i = N /\ monitor_queue' = Append(monitor_queue, Kill)
               /\ main' = "await" /\ UNCHANGED <<i, dispatch_queue>>
      <4>1. Len(monitor_queue') = Len(monitor_queue) + 1
        BY <1>0, <3>3
      <4>2. BuildersTold'
        BY <2>1, <3>1, <3>3 DEF BuildersTold, SentToBuilders
      <4>3. MonitorTold'
        BY <1>0, <2>1, <3>1, <3>3, <4>1 DEF MonitorTold, SentToMonitor, MonitorStopped
      <4>4. AnswersDue'
        BY <1>0, <2>1, <3>1, <3>3, <4>1, ThreadSets DEF AnswersDue
      <4> QED
        BY <3>1, <3>3, <4>2, <4>3, <4>4 DEF SignalsCounted, Building
    <3> QED
      BY <2>3, <3>2, <3>3 DEF SendKill
  <2>4. CASE AwaitAck
    <3>1. Head(response_queue) = Kill /\ threads_alive' = threads_alive - 1
      BY <1>4, <2>4, OnlySignals DEF AwaitAck
    <3>2. Len(response_queue') = Len(response_queue) - 1
      BY <1>0, <2>4 DEF AwaitAck
    <3>3. main = "await" /\ UNCHANGED <<main, i, dispatch_queue, monitor_queue>>
      BY <2>4 DEF AwaitAck
    <3>4. AnswersDue'
      BY <1>0, <2>1, <3>1, <3>2, <3>3, ThreadSets DEF AnswersDue
    <3>5. BuildersTold' /\ MonitorTold'
      BY <2>1, <3>3 DEF BuildersTold, MonitorTold, SentToBuilders, SentToMonitor
    <3> QED
      BY <3>3, <3>4, <3>5 DEF SignalsCounted, Building
  <2>5. CASE CleanQueues
    BY <2>1, <2>5 DEF CleanQueues, AllAcknowledged, SignalsCounted, BuildersTold, MonitorTold,
       AnswersDue, SentToBuilders, SentToMonitor, Returned, Building
  <2> QED
    BY <1>4, <2>0, <2>2, <2>3, <2>4, <2>5
       DEF MainStep, Spawn, ScanLeaf, DispatchNode, MonitorNode, GetResponse,
           HandleChild, Building
<1>5. CASE Returned /\ (MonitorThread \/ \E b \in Builder : BuildThread(b))
  <2>0. UNCHANGED mainVars /\ main \notin Building
    BY <1>5 DEF MonitorThread, BuildThread, GetMonitored, CheckMonitored, Requeue,
                GetDispatched, StartBuild, FinishBuild, SendResponse, Returned, Building
  <2>1. /\ BuildersTold /\ MonitorTold /\ AnswersDue
        /\ UNCHANGED <<SentToBuilders, SentToMonitor>>
        /\ SentToBuilders \in Nat /\ SentToMonitor \in Nat
    BY <1>0, <1>5, <2>0 DEF SignalsCounted, SentToBuilders, SentToMonitor
  <2>2. SUFFICES BuildersTold' /\ MonitorTold' /\ AnswersDue'
    BY <2>0 DEF SignalsCounted
  <2>3. ASSUME NEW b \in Builder, GetDispatched(b)
        PROVE  BuildersTold' /\ MonitorTold' /\ AnswersDue'
    <3>1. dispatch_queue # <<>> /\ Head(dispatch_queue) = Kill
      BY <1>5, <2>3, OnlySignals DEF GetDispatched, Take
    <3>2. /\ pc[b] = "poll" /\ pc' = [pc EXCEPT ![b] = "ack"]
          /\ b \in Thread /\ b # Monitor
          /\ UNCHANGED <<monitor_queue, response_queue>>
      BY <2>3, <3>1 DEF GetDispatched, Take, Goto
    <3>3. Len(dispatch_queue') = Len(dispatch_queue) - 1
      BY <1>0, <2>3, <3>1 DEF GetDispatched
    <3>4. /\ Cardinality(Acking') = Cardinality(Acking) + 1
          /\ Cardinality(Stopped') = Cardinality(Stopped) + 1
          /\ MonitorStopped' = MonitorStopped
      BY <3>2, AfterStop DEF Inductive
    <3>5. BuildersTold'
      BY <1>0, <2>1, <3>3, <3>4, ThreadSets DEF BuildersTold
    <3>6. MonitorTold'
      BY <2>1, <3>2, <3>4 DEF MonitorTold
    <3>7. AnswersDue'
      BY <1>0, <2>0, <2>1, <3>2, <3>3, <3>4, ThreadSets DEF AnswersDue
    <3> QED
      BY <3>5, <3>6, <3>7
  <2>4. CASE GetMonitored
    <3>1. monitor_queue # <<>> /\ Head(monitor_queue) = Kill
      BY <1>5, <2>4, OnlySignals DEF GetMonitored, Take
    <3>2. /\ pc[Monitor] = "poll" /\ pc' = [pc EXCEPT ![Monitor] = "ack"]
          /\ Monitor \in Thread
          /\ UNCHANGED <<dispatch_queue, response_queue>>
      BY <2>4, <3>1 DEF GetMonitored, Take, Goto
    <3>3. Len(monitor_queue') = Len(monitor_queue) - 1
      BY <1>0, <2>4, <3>1 DEF GetMonitored
    <3>4. /\ Cardinality(Acking') = Cardinality(Acking) + 1
          /\ Stopped' = Stopped
          /\ MonitorStopped' = MonitorStopped + 1
      BY <3>2, AfterStop DEF Inductive
    <3>5. BuildersTold'
      BY <2>1, <3>2, <3>4 DEF BuildersTold
    <3>6. MonitorTold'
      BY <1>0, <2>1, <3>3, <3>4 DEF MonitorTold, MonitorStopped
    <3>7. AnswersDue'
      BY <1>0, <2>0, <2>1, <3>2, <3>3, <3>4, ThreadSets DEF AnswersDue
    <3> QED
      BY <3>5, <3>6, <3>7
  <2>5. ASSUME NEW t \in Thread, SendResponse(t)
        PROVE  BuildersTold' /\ MonitorTold' /\ AnswersDue'
    <3>1. /\ pc[t] = "ack" /\ pc' = [pc EXCEPT ![t] = "exit"]
          /\ UNCHANGED <<dispatch_queue, monitor_queue>>
      BY <1>5, <2>5, OnlySignals DEF SendResponse, Goto
    <3>2. Len(response_queue') = Len(response_queue) + 1
      BY <1>0, <2>5, <3>1 DEF SendResponse, Inductive, Control, ThreadControl
    <3>3. /\ Cardinality(Acking') = Cardinality(Acking) - 1
          /\ Stopped' = Stopped /\ MonitorStopped' = MonitorStopped
      BY <3>1, AfterAck DEF Inductive
    <3>4. BuildersTold' /\ MonitorTold'
      BY <2>1, <3>1, <3>3 DEF BuildersTold, MonitorTold
    <3>5. AnswersDue'
      BY <1>0, <2>0, <2>1, <3>1, <3>2, <3>3, ThreadSets DEF AnswersDue
    <3> QED
      BY <3>4, <3>5
  <2>6. \A b \in Builder : ~StartBuild(b) /\ ~FinishBuild(b)
    BY <1>5, OnlySignals DEF StartBuild, FinishBuild, Goto
  <2>7. ~CheckMonitored /\ ~Requeue
    BY <1>5, OnlySignals DEF CheckMonitored, Requeue, Goto
  <2> QED
    BY <1>5, <2>3, <2>4, <2>5, <2>6, <2>7 DEF MonitorThread, BuildThread
<1>6. CASE UNCHANGED vars
  BY <1>1, <1>6 DEF vars, SignalsCounted, BuildersTold, MonitorTold,
     AnswersDue, SentToBuilders, SentToMonitor, Returned
<1> QED
  BY <1>2, <1>3, <1>4, <1>5, <1>6 DEF Next, Terminated

(* clean_queues() comes after the last access to a queue: every thread has *)
(* acknowledged its signal and no signal is left.                          *)
THEOREM QueuesAreLast == Spec => []QueuesOutliveThreads
<1>1. Init => SignalsCounted
  BY DEF Init, SignalsCounted, Building, Returned
<1>2. (Inductive /\ Inductive' /\ SignalsCounted) /\ [Next]_vars => SignalsCounted'
  BY SignalsNext
<1>3. Inductive /\ SignalsCounted => QueuesOutliveThreads
  <2> SUFFICES ASSUME Inductive, SignalsCounted, main = "exit"
               PROVE  /\ \A t \in Thread : pc[t] = "exit"
                      /\ dispatch_queue = <<>>
                      /\ monitor_queue = <<>>
                      /\ response_queue = <<>>
    BY DEF QueuesOutliveThreads
  <2>1. /\ Len(dispatch_queue) \in Nat /\ Len(monitor_queue) \in Nat
        /\ Len(response_queue) \in Nat
    BY DEF Inductive, TypeOK
  <2>2. /\ BuildersTold /\ MonitorTold /\ AnswersDue /\ threads_alive = 0
        /\ SentToBuilders = N /\ SentToMonitor = 1
    BY DEF SignalsCounted, Returned, SentToBuilders, SentToMonitor
  <2>3. /\ Len(dispatch_queue) = 0 /\ Len(monitor_queue) = 0
        /\ Len(response_queue) = 0 /\ Cardinality(Acking) = 0
    BY <2>1, <2>2, ThreadSets DEF AnswersDue
  <2>4. Acking = {}
    BY <2>3, ThreadSets, FS_EmptySet
  <2>5. Stopped = Builder
    <3>1. Stopped \in SUBSET Builder
      BY DEF Stopped
    <3>2. Cardinality(Stopped) = Cardinality(Builder)
      BY <2>2, <2>3, ThreadSets DEF BuildersTold
    <3> HIDE DEF Builder
    <3> QED
      BY <3>1, <3>2, ThreadSets, FS_Subset
  <2>6. pc[Monitor] \in {"ack", "exit"}
    BY <2>2, <2>3 DEF MonitorTold, MonitorStopped
  <2>7. \A t \in Thread : pc[t] \in {"ack", "exit"} /\ pc[t] # "ack"
    <3>1. \A b \in Builder : pc[b] \in {"ack", "exit"}
      BY <2>5 DEF Stopped
    <3>2. \A t \in Thread : t \in Builder \/ t = Monitor
      OBVIOUS
    <3> QED
      BY <2>4, <2>6, <3>1, <3>2 DEF Acking
  <2> QED
    BY <2>3, <2>7 DEF Inductive, TypeOK
<1> QED
  BY <1>1, <1>2, <1>3, InductiveInvariant, PTL DEF Spec
=============================================================================
