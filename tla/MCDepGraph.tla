----------------------------- MODULE MCDepGraph -----------------------------
(* Remodelfiles for DepGraph.                                              *)
EXTENDS DepGraph

P(name, deps) == [name |-> name, deps |-> deps, command |-> TRUE]

(* Every remodelfile with productions for DEFAULT, a and b, each missing or *)
(* with at most two dependencies, in both orders, and some with a target   *)
(* named twice.  x.c has changed and y.c has not; z.h is not on disk.      *)
MCSource == {"x.c", "y.c", "z.h"}
DepLists == {<<>>}
  \cup {<<d>> : d \in {"DEFAULT", "a", "b", "x.c", "y.c"}}
  \cup {<<d, e>> : d \in {"DEFAULT", "a", "b", "x.c", "y.c"},
                   e \in {"a", "b", "x.c"}}
Optional(name) == {<<>>} \cup {<<P(name, deps)>> : deps \in DepLists}
SmallFiles == {<<P("DEFAULT", deps)>> \o a \o b :
                 deps \in DepLists, a \in Optional("a"), b \in Optional("b")}

(* Remodelfiles of the kinds the small ones leave out: the root is found   *)
(* by a second production, a source is missing, a source's name is asked   *)
(* for or has a production, a dependency is far from the root, a target    *)
(* has neither dependencies nor a command ("a <- ,").                      *)
Empty(name) == [P(name, <<>>) EXCEPT !.command = FALSE]
SpecialFiles == {
  <<Empty("DEFAULT"), P("a", <<"x.c">>)>>,
  <<P("DEFAULT", <<"a", "x.c">>), Empty("a")>>,
  <<P("a", <<"x.c">>)>>,
  <<P("DEFAULT", <<"y.c">>), P("DEFAULT", <<"x.c">>)>>,
  <<P("DEFAULT", <<"x.c">>), P("DEFAULT", <<"y.c">>)>>,
  <<P("DEFAULT", <<"x.c">>), P("a", <<"z.h">>)>>,
  <<P("DEFAULT", <<"x.c">>), P("x.c", <<"DEFAULT">>)>>,
  <<P("DEFAULT", <<"a">>), P("a", <<"y.c">>), P("y.c", <<"x.c">>)>>,
  <<P("DEFAULT", <<"a", "b">>), P("a", <<"lib", "x.c">>), P("b", <<"lib">>),
    P("lib", <<"obj", "gen">>), P("obj", <<"x.c">>), P("gen", <<>>)>>,
  <<P("DEFAULT", <<"a">>), P("a", <<"b">>), P("b", <<"c">>),
    P("c", <<"d">>), P("d", <<"b">>)>>}

(* testcases/testcase-1/remodelfile, and testcases/cyclic_dependency.      *)
SnapFile == <<
  P("DEFAULT", <<"all">>), P("all", <<"snap">>),
  P("snap", <<"main.o", "drivers.o", "filesystem.o", "network.o", "sched.o">>),
  P("main.o", <<"x.c">>), P("drivers.o", <<"network.o", "x.c">>),
  P("filesystem.o", <<"y.c">>), P("network.o", <<"x.c">>), P("sched.o", <<"y.c">>)>>

MCInput ==
  {[file |-> f, goal |-> "DEFAULT", disk |-> {"x.c", "y.c"}, changed |-> {"x.c"}]
     : f \in SmallFiles \cup SpecialFiles \cup {SnapFile}}
  \cup {[file |-> f, goal |-> "x.c", disk |-> {"x.c", "y.c"}, changed |-> {"x.c"}]
     : f \in {<<P("x.c", <<"y.c">>)>>, <<P("x.c", <<"a">>), P("a", <<"x.c">>)>>}}

(* Five targets, each of which depends on all that come after it: sixteen  *)
(* nodes.                                                                  *)
ChainInput == {[
  file |-> <<P("DEFAULT", <<"a", "b", "c", "d">>), P("a", <<"b", "c", "d">>),
             P("b", <<"c", "d">>), P("c", <<"d">>), P("d", <<"x.c">>)>>,
  goal |-> "DEFAULT", disk |-> {"x.c"}, changed |-> {"x.c"}]}
=============================================================================
