------------------------------ MODULE DepGraph ------------------------------
(***************************************************************************)
(* main() from the check of the target to calculate_number_of_threads:     *)
(* the remodelfile's productions, and which sources have changed, become   *)
(* the dependency tree that is built (file.c, and main.c up to             *)
(* spawn_threads).  One thread runs it, so each function called by main is *)
(* one action, except that file_add_nodes_to_remodel() is one action per   *)
(* call of its recursion.                                                  *)
(*                                                                         *)
(* A tree node is named by its path: the child indices from the root on.   *)
(***************************************************************************)
EXTENDS Integers, Sequences, FiniteSets, SequencesExt

CONSTANTS
  Source,        \* the names check_dp_type() takes for sources and headers
  Input,         \* the remodelfiles, arguments and disks a run may start from
  BUILD_THREADS  \* thread_list has one slot more than this

(* An input: the productions, in the order of the remodelfile; the target  *)
(* asked for; the sources that can be read; those of them whose hash is    *)
(* not the one in .remodel/md5hashes.                                      *)
ASSUME InputAssumption == \A in \in Input :
  /\ in.file \in Seq([name : STRING, deps : Seq(STRING), command : BOOLEAN])
  /\ in.changed \subseteq in.disk
  /\ in.disk \subseteq Source
ASSUME ThreadsAssumption == BUILD_THREADS \in Nat \ {0}

VARIABLES
  in,            \* the input
  pc,            \* where main is
  outcome,       \* how the run ended
  tree,          \* the name at each node of the tree
  todo,          \* the pending calls of file_add_nodes_to_remodel()
  child_nodes,   \* remodel_node_t.child_nodes
  changed_dp,    \* the targets whose changed_dp is not 0
  build_state,   \* target_t.build_state
  total_threads

vars == <<in, pc, outcome, tree, todo, child_nodes, changed_dp, build_state,
          total_threads>>

Outcome == {"running", "no target", "command run", "no source", "invalid",
            "cyclic", "nothing new", "scheduled"}

Init ==
  /\ in \in Input
  /\ pc = "target"
  /\ outcome = "running"
  /\ tree = [n \in {<<>>} |-> in.goal]
  /\ todo = <<>>
  /\ child_nodes = [n \in {<<>>} |-> 0]
  /\ changed_dp = {}
  /\ build_state = [t \in {in.goal} |-> "READY"]
  /\ total_threads = BUILD_THREADS

-----------------------------------------------------------------------------
(* The target list and the source list that file_parse_line() leaves.      *)
(* Productions are put at the front of the list, and so are the            *)
(* dependencies of one: the last production of a name is the one found.    *)
Productions(name) == {j \in DOMAIN in.file : in.file[j].name = name}
HasTarget(name) == Productions(name) # {}
Target(name) ==
  in.file[CHOOSE j \in Productions(name) : \A k \in Productions(name) : k <= j]
Dependencies(name) == Reverse(Target(name).deps)
SourceList == Source \cap UNION {ToSet(in.file[j].deps) : j \in DOMAIN in.file}

Stop(how) == pc' = "end" /\ outcome' = how
Goto(where) == pc' = where /\ UNCHANGED outcome

(* bug: what has a production is a target, a generated source too.         *)
HasProduction(n) == n = <<>> \/ HasTarget(tree[n])

(* The root is a target, whatever its name.                                *)
IsTarget(n) == n = <<>> \/ tree[n] \notin Source
Children(n) == {Append(n, j) : j \in 1 .. child_nodes[n]} \cap DOMAIN tree

-----------------------------------------------------------------------------
(* The actions.  A definition marked "bug" is the one below it with a       *)
(* mistake in it; no action uses it.                                       *)

(* A target that is just a command to run (main.c:90-98)                   *)
IsCommand(name) == Dependencies(name) = <<>> /\ Target(name).command

(* file_get_target(), and the target that is just a command                *)
FindTarget ==
  /\ pc = "target"
  /\ \/ ~HasTarget(in.goal) /\ Stop("no target")
     \/ HasTarget(in.goal) /\ IsCommand(in.goal) /\ Stop("command run")
     \/ HasTarget(in.goal) /\ ~IsCommand(in.goal) /\ Goto("md5")
  /\ UNCHANGED <<in, tree, todo, child_nodes, changed_dp, build_state,
                 total_threads>>

(* md5_calculate_for_sources() reads every source of the remodelfile, those *)
(* that the target does not depend on too.  md5_load_from_file() cannot fail *)
(* and file_create_dependency_graph() makes the root a target node.        *)
CalculateHashes ==
  /\ pc = "md5"
  /\ \/ ~(SourceList \subseteq in.disk) /\ Stop("no source") /\ UNCHANGED todo
     \/ SourceList \subseteq in.disk /\ Goto("graph") /\ todo' = <<<<>>>>
  /\ UNCHANGED <<in, tree, child_nodes, changed_dp, build_state, total_threads>>

(* bug: only the parent's name is compared with, not every ancestor's.     *)
IsBelowParent(n, name) == name = tree[n]

(* file_check_cyclic_dependency(), for a child called name of node n       *)
IsBelowItself(n, name) ==
  \E k \in 0 .. Len(n) : tree[SubSeq(n, 1, k)] = name

(* What is wrong with a dependency of node n, if anything                  *)
Fault(n, name) ==
  CASE name \notin Source /\ ~HasTarget(name) -> "invalid"
    [] name \in Source \/ HasTarget(name) ->
         IF IsBelowItself(n, name) THEN "cyclic" ELSE "none"

(* One call of file_add_nodes_to_remodel().  All the children are checked  *)
(* and added before the calls for them, and the first fault ends the run.  *)
AddNodes ==
  /\ pc = "graph"
  /\ LET n == Head(todo)
         deps == IF IsTarget(n) THEN Dependencies(tree[n]) ELSE <<>>
         faulty == {j \in DOMAIN deps : Fault(n, deps[j]) # "none"}
         added == [j \in DOMAIN deps |-> Append(n, j)]
     IN  \/ /\ faulty # {}
            /\ Stop(Fault(n, deps[CHOOSE j \in faulty : \A k \in faulty : j <= k]))
            /\ UNCHANGED <<tree, todo, child_nodes, build_state>>
         \/ /\ faulty = {}
            /\ tree' = [m \in DOMAIN tree \cup ToSet(added) |->
                 IF m \in DOMAIN tree THEN tree[m] ELSE deps[Last(m)]]
            /\ child_nodes' = [m \in DOMAIN tree \cup ToSet(added) |->
                 IF m = n THEN Len(deps)
                 ELSE IF m \in DOMAIN tree THEN child_nodes[m] ELSE 0]
            /\ build_state' = [t \in DOMAIN build_state \cup (ToSet(deps) \ Source) |->
                 IF t \in DOMAIN build_state THEN build_state[t] ELSE "READY"]
            /\ todo' = added \o Tail(todo)
            /\ Goto(IF todo' = <<>> THEN "mark" ELSE "graph")
  /\ UNCHANGED <<in, changed_dp, total_threads>>

(* bug: a changed source counts only for the targets that name it.         *)
ChangesOfSources ==
  LET changes[n \in DOMAIN tree] ==
        IF IsTarget(n)
        THEN \E c \in Children(n) : ~IsTarget(c) /\ tree[c] \in in.changed
        ELSE tree[n] \in in.changed
  IN  changes

(* What file_mark_all_targets_for_build() returns for each node, as a      *)
(* truth value: a target without dependencies never counts as a change.    *)
Changes ==
  LET changes[n \in DOMAIN tree] ==
        IF IsTarget(n) THEN \E c \in Children(n) : changes[c]
                       ELSE tree[n] \in in.changed
  IN  changes

(* The marks are kept per target; changed_dp is set and never cleared.     *)
MarkTargets ==
  /\ pc = "mark"
  /\ LET changes == Changes
         changed == {tree[n] : n \in {m \in DOMAIN tree : IsTarget(m) /\ changes[m]}}
         childless == {tree[n] : n \in {m \in DOMAIN tree : child_nodes[m] = 0}}
     IN  /\ changed_dp' = changed_dp \cup changed
         /\ build_state' = [t \in DOMAIN build_state |->
              IF t \in changed \cup childless THEN "READY" ELSE "DONE"]
         /\ IF changes[<<>>] THEN Goto("clean") ELSE Stop("nothing new")
  /\ UNCHANGED <<in, tree, todo, child_nodes, total_threads>>

(* file_remove_unnecessary_nodes() takes a node out of its parent's list.  *)
IsRemoved(n) ==
  \/ ~IsTarget(n)
  \/ n # <<>> /\ tree[n] \notin changed_dp /\ child_nodes[n] # 0

(* file_update_children_count()                                            *)
CountChildren(n, kept) == Cardinality({c \in kept : c # <<>> /\ Front(c) = n})

(* file_cleanup_nodes_for_unchanged_files().  Nodes keep their path, so    *)
(* that a node's index is its order among its siblings and no more.        *)
Cleanup ==
  /\ pc = "clean"
  /\ LET kept == {n \in DOMAIN tree :
                    \A k \in 0 .. Len(n) : ~IsRemoved(SubSeq(n, 1, k))}
     IN  /\ tree' = [n \in kept |-> tree[n]]
         /\ child_nodes' = [n \in kept |-> CountChildren(n, kept)]
  /\ Goto("threads")
  /\ UNCHANGED <<in, todo, changed_dp, build_state, total_threads>>

(* print_dependency_graph() returns the number of nodes.                   *)
TotalNodes == Cardinality(DOMAIN tree)

(* calculate_number_of_threads_needed(): the square root, rounded down,    *)
(* and never 0                                                             *)
CountThreads ==
  /\ pc = "threads"
  /\ LET root == CHOOSE k \in 0 .. TotalNodes :
                   k * k <= TotalNodes /\ TotalNodes < (k + 1) * (k + 1)
     IN  total_threads' = IF root = 0 THEN 1 ELSE root
  /\ Stop("scheduled")
  /\ UNCHANGED <<in, tree, todo, child_nodes, changed_dp, build_state>>

(* The run has ended, or goes on with Scheduler.                           *)
Ended == pc = "end" /\ UNCHANGED vars

Next ==
  \/ FindTarget \/ CalculateHashes \/ AddNodes \/ MarkTargets \/ Cleanup
  \/ CountThreads \/ Ended

Spec == Init /\ [][Next]_vars

-----------------------------------------------------------------------------
(* Properties *)

(* The dependencies of the productions, with no tree: Below[a] is what a   *)
(* depends on, at once or through others, the least set that holds a's     *)
(* dependencies and those of its members.                                  *)
Name == Source \cup {in.goal} \cup DOMAIN build_state
          \cup {in.file[j].name : j \in DOMAIN in.file}
          \cup UNION {ToSet(in.file[j].deps) : j \in DOMAIN in.file}
Expanded(name) == HasTarget(name) /\ (name = in.goal \/ name \notin Source)
NeededBy(a) == IF Expanded(a) THEN ToSet(Dependencies(a)) ELSE {}
Below ==
  LET needed == [a \in Name |-> NeededBy(a)]
      closed == {S \in SUBSET Name : \A a \in S : needed[a] \subseteq S}
  IN  [a \in Name |-> {b \in Name : \A S \in closed : needed[a] \subseteq S => b \in S}]

TypeOK ==
  /\ pc \in {"target", "md5", "graph", "mark", "clean", "threads", "end"}
  /\ outcome \in Outcome
  /\ <<>> \in DOMAIN tree
  /\ \A n \in DOMAIN tree : tree[n] \in Name
  /\ DOMAIN child_nodes = DOMAIN tree
  /\ ToSet(todo) \subseteq DOMAIN tree
  /\ changed_dp \subseteq DOMAIN build_state
  /\ \A t \in DOMAIN build_state : build_state[t] \in {"READY", "DONE"}
  /\ total_threads \in Nat \ {0}

(* README:10-13 asks for a happens-before relation.  The tree is built if  *)
(* and only if the dependencies of the target are one: the run stops with  *)
(* "cyclic" or "invalid" exactly when a name the target depends on depends *)
(* on itself or has no production.  No name is ever below itself, so that  *)
(* no path is longer than there are names and the construction ends.       *)
IsFaulty(name) == name \notin Source \cup {in.goal} /\ ~HasTarget(name)
OnlyOrdersAreBuilt ==
  /\ pc = "mark" \/ outcome \in {"cyclic", "invalid"} =>
       LET below == Below
           reached == {in.goal} \cup below[in.goal]
       IN  /\ pc = "mark" => \A n \in reached : n \notin below[n] /\ ~IsFaulty(n)
           /\ outcome = "cyclic" => \E n \in reached : n \in below[n]
           /\ outcome = "invalid" => \E n \in reached : IsFaulty(n)
  /\ \A n \in DOMAIN tree : \A k \in 0 .. Len(n) - 1 :
       tree[SubSeq(n, 1, k)] # tree[n]

(* README:10-13: md5diff(oldA, newA) => everything that depends on A must  *)
(* be rebuilt.  Everything the target asked for leads to, that is, and     *)
(* nothing else but the commands without dependencies that it leads to.    *)
RebuildsWhatDepends ==
  outcome \in {"nothing new", "scheduled"} =>
    LET below == Below
        reached == {in.goal} \cup below[in.goal]
        toRebuild == {t \in reached : below[t] \cap in.changed # {}}
        commands == {c \in reached : HasTarget(c) /\ NeededBy(c) = {}
                                      /\ \E t \in toRebuild : c \in NeededBy(t)}
    IN  IF outcome = "nothing new"
        THEN toRebuild = {}
        ELSE {tree[n] : n \in DOMAIN tree} = toRebuild \cup (commands \ Source)

(* The leaves, in the order main's recursion meets them: the j-th one has  *)
(* j - 1 before it.                                                        *)
Leaf == {n \in DOMAIN tree : child_nodes[n] = 0}
IsBefore(m, n) ==
  \E k \in DOMAIN m \cap DOMAIN n :
    m[k] < n[k] /\ \A l \in 1 .. k - 1 : m[l] = n[l]
LeafOrder == [j \in 1 .. Cardinality(Leaf) |->
  CHOOSE n \in Leaf : Cardinality({m \in Leaf : IsBefore(m, n)}) = j - 1]

(* The tree handed to the build threads is one that Scheduler can run: a   *)
(* tree whose nodes agree on the targets they share, every one of them     *)
(* ready, child_nodes counting the children that are left, so that no      *)
(* count waits for a node that has been removed.                           *)
Left == INSTANCE BuildTree WITH
  Node <- DOMAIN tree,
  Root <- <<>>,
  Parent <- [n \in DOMAIN tree \ {<<>>} |-> Front(n)],
  TargetOf <- tree,
  LeafOrder <- LeafOrder
IsReadyToSchedule ==
  outcome = "scheduled" =>
    /\ Left!IsTree /\ Left!IsShared /\ Left!ListsLeaves
    /\ \A n \in DOMAIN tree :
         /\ build_state[tree[n]] = "READY"
         /\ child_nodes[n] = Cardinality(Left!Child(n))

(* main.c:32: the slot after the build threads' is for the monitor thread. *)
MonitorHasASlot == outcome = "scheduled" => total_threads <= BUILD_THREADS
=============================================================================
