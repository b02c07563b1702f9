---------------------------- MODULE MCScheduler ----------------------------
(* Instances of Scheduler: dependency trees in which targets are shared.   *)
EXTENDS Scheduler

(* testcases/testcase-1/remodelfile with every source changed: nine nodes, *)
(* for which main starts three build threads.  network.o is a dependency   *)
(* of snap and of drivers.o, at two depths of the tree.                    *)
SnapNode == {"DEFAULT", "all", "snap", "sched.o", "network.o", "filesystem.o",
             "drivers.o", "drivers.o/network.o", "main.o"}
SnapParent == [n \in SnapNode \ {"DEFAULT"} |->
                 CASE n = "all" -> "DEFAULT"
                   [] n = "snap" -> "all"
                   [] n = "drivers.o/network.o" -> "drivers.o"
                   [] OTHER -> "snap"]
SnapTarget == [n \in SnapNode |->
                 IF n = "drivers.o/network.o" THEN "network.o" ELSE n]
SnapLeaves == <<"sched.o", "network.o", "filesystem.o", "drivers.o/network.o",
                "main.o">>

(* Two targets that depend on one target which itself has dependencies:    *)
(* the nodes of the shared target wait for different nodes of theirs.  Nine *)
(* nodes again, and three build threads.                                   *)
LibNode == {"DEFAULT", "app1", "app2", "app1/lib", "app2/lib", "app1/lib/obj",
            "app1/lib/gen", "app2/lib/obj", "app2/lib/gen"}
LibParent == [n \in LibNode \ {"DEFAULT"} |->
                CASE n \in {"app1", "app2"} -> "DEFAULT"
                  [] n = "app1/lib" -> "app1"
                  [] n = "app2/lib" -> "app2"
                  [] n \in {"app1/lib/obj", "app1/lib/gen"} -> "app1/lib"
                  [] n \in {"app2/lib/obj", "app2/lib/gen"} -> "app2/lib"]
LibTarget == [n \in LibNode |->
                CASE n \in {"app1/lib", "app2/lib"} -> "lib"
                  [] n \in {"app1/lib/obj", "app2/lib/obj"} -> "obj"
                  [] n \in {"app1/lib/gen", "app2/lib/gen"} -> "gen"
                  [] OTHER -> n]
LibLeaves == <<"app1/lib/obj", "app1/lib/gen", "app2/lib/obj", "app2/lib/gen">>
=============================================================================
