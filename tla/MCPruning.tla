----------------------------- MODULE MCPruning -----------------------------
(* Remodelfiles for Pruning: a changed and an unchanged source, each below *)
(* targets and next to them, in every order, so that a removed child is    *)
(* the first, the last, or between others.                                 *)
EXTENDS MCDepGraph, Pruning

(* a, b and c are below DEFAULT in every order, with one or two of them    *)
(* once more below another.                                                *)
Roots == {<<"a", "b", "c">>, <<"c", "a", "x.c">>, <<"y.c", "b", "c">>, <<"a", "a">>}
Inner == {<<"x.c">>, <<"y.c">>, <<"y.c", "x.c">>, <<"c">>, <<"c", "x.c", "c">>,
          <<"y.c", "c", "c">>}
Lower == {<<>>, <<"x.c">>, <<"y.c">>, <<"y.c", "x.c", "y.c">>}
PInput == {[
  file |-> <<P("DEFAULT", r), P("a", a), P("b", b), P("c", c)>>,
  goal |-> "DEFAULT", disk |-> {"x.c", "y.c"}, changed |-> {"x.c"}]
    : r \in Roots, a \in Inner, b \in Inner, c \in Lower}

AllInput == MCInput \cup PInput
=============================================================================
