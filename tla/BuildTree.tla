------------------------------ MODULE BuildTree ------------------------------
(***************************************************************************)
(* The dependency tree that is handed to the build threads: what DepGraph  *)
(* leaves and what Scheduler assumes.                                      *)
(*                                                                         *)
(* A target that several targets depend on has one tree node per place     *)
(* (remodel_node_t), all pointing at one target_t.                         *)
(***************************************************************************)
EXTENDS Integers, Sequences, FiniteSets

CONSTANTS
  Node,          \* the nodes of the dependency tree
  Root,          \* remodel_head, the node of the target asked for
  Parent,        \* remodel_node_t.parent
  TargetOf,      \* remodel_node_t.target
  LeafOrder      \* the leaves, in the order main's recursion meets them

Child(n) == {c \in Node \ {Root} : Parent[c] = n}
ChildTargets(n) == {TargetOf[c] : c \in Child(n)}
Target == {TargetOf[n] : n \in Node}

(* The nodes form a tree whose root reaches all of them.                   *)
IsTree ==
  /\ IsFiniteSet(Node)
  /\ Root \in Node
  /\ Parent \in [Node \ {Root} -> Node]
  /\ DOMAIN TargetOf = Node
  /\ \A S \in SUBSET Node :
       Root \in S /\ (\A n \in S : Child(n) \subseteq S) => S = Node

(* The name of the root does not appear below it, and the nodes of a       *)
(* target are all expanded and pruned alike.                               *)
IsShared ==
  /\ \A n \in Node \ {Root} : TargetOf[n] # TargetOf[Root]
  /\ \A m, n \in Node :
       TargetOf[m] = TargetOf[n] => ChildTargets(m) = ChildTargets(n)

(* LeafOrder lists every leaf once.                                        *)
ListsLeaves ==
  /\ LeafOrder \in Seq(Node) \ {<<>>}
  /\ {LeafOrder[j] : j \in DOMAIN LeafOrder} = {n \in Node : Child(n) = {}}
  /\ \A j, k \in DOMAIN LeafOrder : LeafOrder[j] = LeafOrder[k] => j = k
=============================================================================
