--------------------------- MODULE MCLinkedQueue ---------------------------
(* Main and two build threads: main dispatches, the build threads poll one *)
(* queue and answer on another, and what main takes from there it puts on  *)
(* the first again or frees.  (The monitor queue is used like the first,   *)
(* by one thread.)                                                         *)
EXTENDS LinkedQueue, TLC

CONSTANTS b1, b2, c1, c2, c3
MCProcess == {"main", b1, b2}
MCQueue == {"dispatch", "response"}

Polls == [p \in Process |-> IF p = "main" THEN "response" ELSE "dispatch"]
Adds == [p \in Process |-> IF p = "main" THEN {"dispatch"} ELSE {"response"}]
=============================================================================
