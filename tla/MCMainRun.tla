----------------------------- MODULE MCMainRun -----------------------------
(* Command lines and remodelfiles for MainRun.                             *)
EXTENDS MainRun

Lists == {<<>>, <<2>>, <<1, 0, 2>>}

(* Every way out of main, with lists that are empty, short and longer, and  *)
(* up to one thread more than thread_list has slots for                    *)
RInput ==
  {[argc |-> n, help |-> h, read |-> r, targets |-> l, sources |-> k,
    outcome |-> o, threads |-> t]
     : n \in 1 .. 3, h \in BOOLEAN, r \in BOOLEAN, l \in Lists, k \in {0, 2},
       o \in Outcome, t \in 1 .. BUILD_THREADS + 1}
=============================================================================
