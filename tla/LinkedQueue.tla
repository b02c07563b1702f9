---------------------------- MODULE LinkedQueue ----------------------------
(***************************************************************************)
(* queue.c: the doubly linked lists of queue nodes and their mutexes, as   *)
(* main, the build threads and the monitor thread use them.                *)
(*                                                                         *)
(* The nodes (cells) live in one memory.  A node that is taken from a      *)
(* queue keeps its pointers; it is put on another queue, or freed and      *)
(* given out again by malloc.  Every write to memory that others can see   *)
(* is a step, also between pthread_mutex_lock and pthread_mutex_unlock.    *)
(***************************************************************************)
EXTENDS Integers, Sequences, FiniteSets

CONSTANTS
  Process,    \* main and the threads
  Queue,
  Cell,       \* the queue_node_t's that there is memory for
  NULL,
  TakesFrom,  \* TakesFrom[p]: the queue that p polls
  PutsOn,     \* PutsOn[p]: the queues that p adds to
  Makers      \* the processes that make and free queue nodes: main

ASSUME ClientAssumption ==
  /\ TakesFrom \in [Process -> Queue]
  /\ PutsOn \in [Process -> SUBSET Queue]
  /\ Makers \subseteq Process
  /\ IsFiniteSet(Cell)
  /\ NULL \notin Cell \cup Process

VARIABLES
  head, tail,  \* queue_t.head, .tail
  mtx,         \* the process that has the queue's mutex, or NULL
  next, prev,  \* queue_node_t.next, .prev
  pc,          \* where each process is
  at,          \* the queue that it works on
  node         \* the queue node that it holds, or NULL (qnode, queue_node)

listVars == <<head, tail>>
linkVars == <<next, prev>>
vars == <<listVars, mtx, linkVars, pc, at, node>>

(* "idle" is outside the mutex; "get", "unlink" and "relink" are in        *)
(* queue_get_node(), "add" to "clear" in queue_add_node(); "unlock" and    *)
(* "release" are behind the one and the other.                             *)
Getting == {"get", "unlink", "relink", "unlock"}
Adding == {"add", "tail", "head", "clear", "release"}

Init ==
  /\ head = [q \in Queue |-> NULL]
  /\ tail = [q \in Queue |-> NULL]
  /\ mtx = [q \in Queue |-> NULL]
  /\ next = [c \in Cell |-> NULL]
  /\ prev = [c \in Cell |-> NULL]
  /\ pc = [p \in Process |-> "idle"]
  /\ at = TakesFrom
  /\ node = [p \in Process |-> NULL]

-----------------------------------------------------------------------------
(* A definition marked "bug" is the one below it with a mistake in it; no  *)
(* action uses it.                                                         *)

(* The list that starts at the tail and goes on by prev, to the head.  No  *)
(* list is longer than the memory.                                         *)
Walk(first, last, before) ==
  LET from[k \in 1 .. Cardinality(Cell)] ==
        IF k = 1 THEN first
        ELSE LET c == from[k - 1]
             IN  IF c \in {NULL, last} THEN NULL ELSE before[c]
      cells == {k \in 1 .. Cardinality(Cell) : from[k] # NULL}
  IN  [k \in cells |-> from[k]]
Listed(q) == Walk(tail[q], head[q], prev)

CellsOn(q) == LET l == Listed(q) IN {l[j] : j \in DOMAIN l}
Held == {node[p] : p \in Process} \ {NULL}
Allocated == Held \cup UNION {CellsOn(q) : q \in Queue}

(* queue_is_empty(): the tail is not looked at (queue.c:77 asks for the    *)
(* head twice), so that a list without a tail only does not count as empty *)
(* and one without a head does.                                            *)
IsEmpty(q) == head[q] = NULL

-----------------------------------------------------------------------------
(* The steps of process p *)

Goto(p, from, to) == pc[p] = from /\ pc' = [pc EXCEPT ![p] = to]

(* queue_node_new(): malloc gives out memory that nobody has allocated.    *)
NewNode(p) ==
  /\ p \in Makers /\ pc[p] = "idle" /\ node[p] = NULL
  /\ \E c \in Cell \ Allocated :
       /\ node' = [node EXCEPT ![p] = c]
       /\ next' = [next EXCEPT ![c] = NULL]
       /\ prev' = [prev EXCEPT ![c] = NULL]
  /\ UNCHANGED <<listVars, mtx, pc, at>>

(* FREE(queue_node), with the pointers left in the memory                  *)
FreeNode(p) ==
  /\ p \in Makers /\ pc[p] = "idle" /\ node[p] # NULL
  /\ node' = [node EXCEPT ![p] = NULL]
  /\ UNCHANGED <<listVars, mtx, linkVars, pc, at>>

(* bug: pthread_mutex_lock is left out.                                    *)
NoLock(p, q) == UNCHANGED mtx

Lock(p, q) == mtx[q] = NULL /\ mtx' = [mtx EXCEPT ![q] = p]

StartGet(p) ==
  /\ node[p] = NULL
  /\ Goto(p, "idle", "get")
  /\ Lock(p, TakesFrom[p])
  /\ at' = [at EXCEPT ![p] = TakesFrom[p]]
  /\ UNCHANGED <<listVars, linkVars, node>>

StartAdd(p, q) ==
  /\ node[p] # NULL
  /\ q \in PutsOn[p]
  /\ Goto(p, "idle", "add")
  /\ Lock(p, q)
  /\ at' = [at EXCEPT ![p] = q]
  /\ UNCHANGED <<listVars, linkVars, node>>

(* queue_get_node(): nothing to take ...                                   *)
GetNothing(p) ==
  /\ IsEmpty(at[p])
  /\ Goto(p, "get", "unlock")
  /\ UNCHANGED <<listVars, mtx, linkVars, at, node>>

(* ... or the node at the tail, ...                                        *)
GetTail(p) ==
  /\ ~IsEmpty(at[p])
  /\ Goto(p, "get", "unlink")
  /\ node' = [node EXCEPT ![p] = tail[at[p]]]
  /\ UNCHANGED <<listVars, mtx, linkVars, at>>

Unlink(p) ==
  /\ Goto(p, "unlink", "relink")
  /\ tail' = [tail EXCEPT ![at[p]] = prev[node[p]]]
  /\ UNCHANGED <<head, mtx, linkVars, at, node>>

(* bug: the head keeps pointing at the node that is taken.                 *)
KeepHead(q) == UNCHANGED head

ClearHead(q) == head' = [head EXCEPT ![q] = NULL]

(* bug: the new last node keeps its pointer to the one that is taken.      *)
KeepNext(c) == UNCHANGED next

ClearNext(c) == next' = [next EXCEPT ![c] = NULL]

(* ... whose neighbour becomes the last, if it has one.                    *)
Relink(p) ==
  /\ Goto(p, "relink", "unlock")
  /\ \/ /\ prev[node[p]] # NULL
        /\ ClearNext(prev[node[p]])
        /\ UNCHANGED head
     \/ /\ prev[node[p]] = NULL
        /\ ClearHead(at[p])
        /\ UNCHANGED next
  /\ UNCHANGED <<tail, mtx, prev, at, node>>

(* queue_add_node() on an empty queue: the head, the tail, ...             *)
AddFirst(p) ==
  /\ IsEmpty(at[p])
  /\ Goto(p, "add", "tail")
  /\ head' = [head EXCEPT ![at[p]] = node[p]]
  /\ UNCHANGED <<tail, mtx, linkVars, at, node>>

SetTail(p) ==
  /\ Goto(p, "tail", "clear")
  /\ tail' = [tail EXCEPT ![at[p]] = node[p]]
  /\ next' = [next EXCEPT ![node[p]] = NULL]
  /\ UNCHANGED <<head, mtx, prev, at, node>>

(* ... and on another: the links of the node and of the first one, ...     *)
AddInFront(p) ==
  /\ ~IsEmpty(at[p])
  /\ Goto(p, "add", "head")
  /\ next' = [next EXCEPT ![node[p]] = head[at[p]]]
  /\ prev' = [prev EXCEPT ![head[at[p]]] = node[p]]
  /\ UNCHANGED <<listVars, mtx, at, node>>

SetHead(p) ==
  /\ Goto(p, "head", "clear")
  /\ head' = [head EXCEPT ![at[p]] = node[p]]
  /\ UNCHANGED <<tail, mtx, linkVars, at, node>>

(* bug: the pointer that the node has kept from another list stays.        *)
KeepPrev(c) == UNCHANGED prev

NoPrev(c) == prev' = [prev EXCEPT ![c] = NULL]

(* ... and in the end the first node has none before it.                   *)
ClearPrev(p) ==
  /\ Goto(p, "clear", "release")
  /\ NoPrev(node[p])
  /\ UNCHANGED <<listVars, mtx, next, at, node>>

(* pthread_mutex_unlock(); a node that has been added is out of hand.      *)
Unlock(p) ==
  /\ \/ Goto(p, "unlock", "idle") /\ UNCHANGED node
     \/ Goto(p, "release", "idle") /\ node' = [node EXCEPT ![p] = NULL]
  /\ mtx' = [mtx EXCEPT ![at[p]] = NULL]
  /\ UNCHANGED <<listVars, linkVars, at>>

Inside(p) ==
  \/ GetNothing(p) \/ GetTail(p) \/ Unlink(p) \/ Relink(p)
  \/ AddFirst(p) \/ SetTail(p) \/ AddInFront(p) \/ SetHead(p) \/ ClearPrev(p)
  \/ Unlock(p)

Next ==
  \E p \in Process :
    \/ NewNode(p) \/ FreeNode(p)
    \/ StartGet(p) \/ (\E q \in Queue : StartAdd(p, q))
    \/ Inside(p)

Spec == Init /\ [][Next]_vars

-----------------------------------------------------------------------------
(* Properties *)

(* The mutex belongs to the process that is inside.                        *)
TypeOK ==
  /\ head \in [Queue -> Cell \cup {NULL}]
  /\ tail \in [Queue -> Cell \cup {NULL}]
  /\ mtx \in [Queue -> Process \cup {NULL}]
  /\ next \in [Cell -> Cell \cup {NULL}]
  /\ prev \in [Cell -> Cell \cup {NULL}]
  /\ pc \in [Process -> {"idle"} \cup Getting \cup Adding]
  /\ at \in [Process -> Queue]
  /\ node \in [Process -> Cell \cup {NULL}]
  /\ \A q \in Queue, p \in Process :
       mtx[q] = p <=> pc[p] # "idle" /\ at[p] = q

(* queue.c:78, "has something wrong": who has the mutex and asks whether   *)
(* the queue is empty never finds one of head and tail NULL and the other  *)
(* not, in which case queue_is_empty() calls a list empty that is not, or  *)
(* queue_get_node() follows a NULL tail.                                   *)
NothingWrong ==
  \A p \in Process :
    pc[p] \in {"get", "add"} => (head[at[p]] = NULL <=> tail[at[p]] = NULL)

(* A list whose mutex is free reads the same both ways: by next from the   *)
(* head it is what it is by prev from the tail, and it ends at both ends,  *)
(* whatever lists its nodes were on before.                                *)
ReadsBothWays ==
  \A q \in Queue : mtx[q] = NULL =>
    LET l == Listed(q)
    IN  /\ (l = <<>>) = (head[q] = NULL)
        /\ l # <<>> => /\ l[Len(l)] = head[q]
                       /\ prev[l[Len(l)]] = NULL
                       /\ next[l[1]] = NULL
        /\ \A j \in 1 .. Len(l) - 1 : prev[l[j]] = l[j + 1] /\ next[l[j + 1]] = l[j]

(* The lists behave as Scheduler takes them to: as sequences to which a    *)
(* whole call adds at the end or from which it takes the beginning, at one *)
(* moment inside the mutex; no node is lost, doubled or taken out of turn. *)
Lists == [q \in Queue |-> Listed(q)]
InHand == [p \in Process |-> IF node[p] \in CellsOn(at[p]) THEN NULL ELSE node[p]]
Sequential == INSTANCE Fifo WITH queue <- Lists, hand <- InHand
ImplementsFifo == Sequential!Spec
=============================================================================
