------------------------------ MODULE Pruning ------------------------------
(***************************************************************************)
(* DepGraph with file_cleanup_nodes_for_unchanged_files() done one turn of *)
(* a loop at a time: two recursions over arrays of pointers, the first of  *)
(* which frees nodes and the second replaces the arrays (file.c:489-606).  *)
(***************************************************************************)
EXTENDS DepGraph

CONSTANT NoNode  \* NULL
ASSUME NoNodeAssumption == NoNode \notin Seq(Nat)

VARIABLES
  phase,     \* which recursion runs: "none", "remove", "count" or "done"
  stack,     \* its calls: the node, and the next index of its loop
  children,  \* remodel_node_t.children
  freed      \* the nodes that have been freed

pruneVars == <<phase, stack, children, freed>>

PruneInit ==
  /\ Init
  /\ phase = "none"
  /\ stack = <<>>
  /\ children = [n \in {<<>>} |-> <<>>]
  /\ freed = {}

Call(n) == [node |-> n, i |-> 1]
Node == Last(stack).node
Index == Last(stack).i
Return == Front(stack)
AtNextIndex == Append(Front(stack), [node |-> Node, i |-> Index + 1])

-----------------------------------------------------------------------------
(* The actions.  A definition marked "bug" is the one below it with a      *)
(* mistake in it; no action uses it.                                       *)

(* Everything up to the pruning; file_add_nodes_to_remodel() fills the     *)
(* arrays.                                                                 *)
Build ==
  /\ FindTarget \/ CalculateHashes \/ AddNodes \/ MarkTargets
  /\ children' = [n \in DOMAIN tree' |-> [j \in 1 .. child_nodes'[n] |-> Append(n, j)]]
  /\ IF pc' = "clean" THEN phase' = "remove" /\ stack' = <<Call(<<>>)>>
                      ELSE UNCHANGED <<phase, stack>>
  /\ UNCHANGED freed

(* The rest of the run, and main's variables, stay as they are.            *)
Working == pc = "clean" /\ UNCHANGED <<in, pc, outcome, tree, todo, changed_dp,
                                       build_state, total_threads>>

(* A turn of a loop of file_remove_unnecessary_nodes(): the call for a     *)
(* child that is there                                                     *)
VisitChild ==
  /\ Working
  /\ phase = "remove" /\ stack # <<>>
  /\ IsTarget(Node) /\ Index <= child_nodes[Node]
  /\ stack' = IF children[Node][Index] = NoNode THEN AtNextIndex
              ELSE Append(AtNextIndex, Call(children[Node][Index]))
  /\ UNCHANGED <<phase, children, freed, child_nodes>>

(* bug: the parent's pointer stays.                                        *)
FreeOnly(n) ==
  /\ freed' = freed \cup {n}
  /\ UNCHANGED <<children, child_nodes>>

(* bug: the parent has one child less from now on, while its loop runs.    *)
TakeOutAndCount(n) ==
  /\ freed' = freed \cup {n}
  /\ children' = [children EXCEPT ![Front(n)] =
                    [j \in DOMAIN @ |-> IF @[j] = n THEN NoNode ELSE @[j]]]
  /\ child_nodes' = [child_nodes EXCEPT ![Front(n)] = @ - 1]

(* The parent's pointer to the node is set to NULL, and the node freed.    *)
TakeOut(n) ==
  /\ freed' = freed \cup {n}
  /\ children' = [children EXCEPT ![Front(n)] =
                    [j \in DOMAIN @ |-> IF @[j] = n THEN NoNode ELSE @[j]]]
  /\ UNCHANGED child_nodes

(* The end of a call: a source goes, and so does a target that has         *)
(* dependencies and none of them changed, unless it is the root.           *)
LeaveNode ==
  /\ Working
  /\ phase = "remove" /\ stack # <<>>
  /\ ~IsTarget(Node) \/ Index > child_nodes[Node]
  /\ \/ IsRemoved(Node) /\ TakeOut(Node)
     \/ ~IsRemoved(Node) /\ UNCHANGED <<children, freed, child_nodes>>
  /\ stack' = Return
  /\ UNCHANGED phase

(* The second recursion starts from the root.                              *)
StartCounting ==
  /\ Working
  /\ phase = "remove" /\ stack = <<>>
  /\ phase' = "count"
  /\ stack' = <<[node |-> <<>>, i |-> 0]>>
  /\ UNCHANGED <<children, freed, child_nodes>>

(* bug: a node none of whose children have been removed is left alone.     *)
AfterCount(present) == IF present = children[Node] THEN Return ELSE AtNextIndex

AfterCounting(present) == IF present = <<>> THEN Return ELSE AtNextIndex

(* bug: the count is left as it was before the removals.                   *)
OldCount(present) == child_nodes[Node]

NewCount(present) == Len(present)

(* The pointers of an array that are not NULL, in the order of their       *)
(* indices: the j-th has j - 1 before it.                                  *)
Present(array) ==
  LET left == {k \in DOMAIN array : array[k] # NoNode}
  IN  [j \in 1 .. Cardinality(left) |->
         array[CHOOSE k \in left : Cardinality({l \in left : l < k}) = j - 1]]

(* A call of file_update_children_count(): a new array takes the pointers  *)
(* that are left.                                                          *)
CountNode ==
  /\ Working
  /\ phase = "count" /\ stack # <<>>
  /\ Index = 0
  /\ LET present == Present(children[Node])
     IN  /\ children' = [children EXCEPT ![Node] = present]
         /\ child_nodes' = [child_nodes EXCEPT ![Node] = NewCount(present)]
         /\ stack' = AfterCounting(present)
  /\ UNCHANGED <<phase, freed>>

(* A turn of its second loop                                               *)
CountChild ==
  /\ Working
  /\ phase = "count" /\ stack # <<>>
  /\ Index > 0
  /\ stack' = IF Index > child_nodes[Node] THEN Return
              ELSE Append(AtNextIndex, [node |-> children[Node][Index], i |-> 0])
  /\ UNCHANGED <<phase, children, freed, child_nodes>>

(* What the pointers lead to from the root                                 *)
Reached ==
  {n \in DOMAIN tree : \A k \in 1 .. Len(n) :
     SubSeq(n, 1, k) \in ToSet(children[SubSeq(n, 1, k - 1)])}

(* main goes on with the tree that is left ...                             *)
FinishPruning ==
  /\ pc = "clean"
  /\ phase = "count" /\ stack = <<>>
  /\ phase' = "done"
  /\ tree' = [n \in Reached |-> tree[n]]
  /\ child_nodes' = [n \in Reached |-> child_nodes[n]]
  /\ Goto("threads")
  /\ UNCHANGED <<in, todo, changed_dp, build_state, total_threads,
                 stack, children, freed>>

(* ... to the number of threads.                                           *)
GoOn == (CountThreads \/ Ended) /\ UNCHANGED pruneVars

PruneNext ==
  \/ Build
  \/ VisitChild \/ LeaveNode
  \/ StartCounting \/ CountNode \/ CountChild
  \/ FinishPruning \/ GoOn

PruneSpec == PruneInit /\ [][PruneNext]_<<vars, pruneVars>>

-----------------------------------------------------------------------------
(* Properties *)

(* Neither recursion touches a freed node: the node of every call on the   *)
(* stack, its parent, and the children that it has still pointers to are   *)
(* there, although the call for a node may free it while the loop of the   *)
(* caller runs over the array it was in (file.c:517, 528, 553).  No node   *)
(* is freed twice, since it is freed by a call for it.                     *)
PointersAreLive ==
  \A j \in DOMAIN stack :
    LET n == stack[j].node
    IN  /\ n \notin freed
        /\ n # <<>> => Front(n) \notin freed
        /\ ToSet(children[n]) \cap freed = {}

(* main_dispatch_all_leaf_nodes() and print_dependency_graph() take the    *)
(* first child_nodes pointers of an array to be there (main.c:207): so     *)
(* they are, from the root down, and they lead to no freed node.           *)
ArraysAreDense ==
  phase = "done" =>
    /\ \A n \in DOMAIN tree : child_nodes[n] = Len(children[n])
                              /\ NoNode \notin ToSet(children[n])
    /\ DOMAIN tree \cap freed = {}

(* The two recursions are one step of DepGraph, in which all nodes are     *)
(* counted up to that step.                                                *)
AllChildren(n) == Cardinality({m \in DOMAIN tree : m # <<>> /\ Front(m) = n})
Whole == INSTANCE DepGraph WITH
  child_nodes <- IF phase = "count" THEN [n \in DOMAIN tree |-> AllChildren(n)]
                 ELSE child_nodes
ImplementsCleanup == Whole!Spec
=============================================================================
