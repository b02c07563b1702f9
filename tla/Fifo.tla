-------------------------------- MODULE Fifo --------------------------------
(***************************************************************************)
(* What Scheduler takes the queues of queue.c to be: sequences.  A process *)
(* that holds a cell may put it at the end of a queue or discard it; one   *)
(* that holds none may take the first cell of a queue or make a new one.   *)
(***************************************************************************)
EXTENDS Sequences

CONSTANTS
  Process,
  Queue,
  Cell,      \* the queue nodes that there is memory for
  NULL       \* no cell

VARIABLES
  queue,     \* the cells on each queue, the oldest first
  hand       \* the cell each process holds, or NULL

vars == <<queue, hand>>

CellsOn(q) == {queue[q][j] : j \in DOMAIN queue[q]}
InUse == {hand[p] : p \in Process} \cup UNION {CellsOn(q) : q \in Queue}

Init ==
  /\ queue = [q \in Queue |-> <<>>]
  /\ hand = [p \in Process |-> NULL]

Make(p) ==
  /\ hand[p] = NULL
  /\ \E c \in Cell \ InUse : hand' = [hand EXCEPT ![p] = c]
  /\ UNCHANGED queue

Discard(p) ==
  /\ hand[p] # NULL
  /\ hand' = [hand EXCEPT ![p] = NULL]
  /\ UNCHANGED queue

Put(p, q) ==
  /\ hand[p] # NULL
  /\ queue' = [queue EXCEPT ![q] = Append(@, hand[p])]
  /\ hand' = [hand EXCEPT ![p] = NULL]

Take(p, q) ==
  /\ hand[p] = NULL
  /\ queue[q] # <<>>
  /\ hand' = [hand EXCEPT ![p] = Head(queue[q])]
  /\ queue' = [queue EXCEPT ![q] = Tail(@)]

Next ==
  \E p \in Process :
    \/ Make(p) \/ Discard(p)
    \/ \E q \in Queue : Put(p, q) \/ Take(p, q)

Spec == Init /\ [][Next]_vars
=============================================================================
