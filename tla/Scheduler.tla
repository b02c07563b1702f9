------------------------------ MODULE Scheduler ------------------------------
(***************************************************************************)
(* The parallel build: main() from spawn_threads() to clean_queues(), the  *)
(* build threads and the monitor thread, and the three queues between them *)
(* (main.c, threads.c).                                                    *)
(*                                                                         *)
(* The dependency tree is the one left by                                  *)
(* file_cleanup_nodes_for_unchanged_files(): its nodes are all targets     *)
(* that need a build.  child_nodes is kept per node and build_state per    *)
(* target, and several nodes may share a target.                           *)
(*                                                                         *)
(* Every region between pthread_mutex_lock and pthread_mutex_unlock is one *)
(* action, and so is every read or write of a shared build_state.  Polling *)
(* an empty queue changes nothing and is a stuttering step.                *)
(***************************************************************************)
EXTENDS BuildTree

CONSTANTS
  N,             \* total_threads, the number of build threads
  SpawnMayFail,  \* may pthread_create fail? (its result is not looked at)
  Kill,          \* a queue node whose signal field is true
  NoNode         \* NULL

(* DepGraph shows that the trees it leaves are such trees.                 *)
ASSUME TreeAssumption == IsTree
ASSUME SharingAssumption == IsShared
ASSUME LeafAssumption == ListsLeaves

ASSUME ThreadAssumption ==
  /\ N \in Nat \ {0}
  /\ SpawnMayFail \in BOOLEAN
  /\ Kill \notin Node
  /\ NoNode \notin Node
  /\ Kill # NoNode

(* The slots of thread_list: the monitor thread has the last one.          *)
Builder == 0 .. N - 1
Monitor == N
Thread == 0 .. N

VARIABLES
  main,            \* where main() is
  i,               \* the loop index of main's spawn, leaf and kill loops
  held,            \* the tree node main is working on (rmnode)
  threads_alive,   \* kill signals sent and not yet acknowledged
  child_nodes,     \* remodel_node_t.child_nodes
  build_state,     \* target_t.build_state
  freed,           \* the remodel_node_t's that main has freed
  dispatch_queue,
  monitor_queue,
  response_queue,
  pc,              \* where each thread is
  hand             \* the data of the queue node each thread holds (qnode)

mainVars == <<main, i, held, threads_alive>>
treeVars == <<child_nodes, freed>>
queues == <<dispatch_queue, monitor_queue, response_queue>>
threadVars == <<pc, hand>>
vars == <<mainVars, treeVars, build_state, queues, threadVars>>

MainPc == {"spawn", "scan", "dispatch", "monitor", "poll", "handle",
           "save", "kill", "await", "exit"}
ThreadPc == {"none", "poll", "got", "running", "respond", "requeue",
             "ack", "exit"}
BuildState == {"READY", "ONQ", "RUNNING", "DONE"}
Entry == Node \cup {Kill}

TypeOK ==
  /\ main \in MainPc
  /\ i \in Nat
  /\ held \in Node \cup {NoNode}
  /\ threads_alive \in Nat
  /\ child_nodes \in [Node -> Int]
  /\ build_state \in [Target -> BuildState]
  /\ freed \in SUBSET Node
  /\ dispatch_queue \in Seq(Entry)
  /\ monitor_queue \in Seq(Entry)
  /\ response_queue \in Seq(Entry)
  /\ pc \in [Thread -> ThreadPc]
  /\ hand \in [Thread -> Entry \cup {NoNode}]

Init ==
  /\ main = "spawn"
  /\ i = 0
  /\ held = NoNode
  /\ threads_alive = 0
  /\ child_nodes = [n \in Node |-> Cardinality(Child(n))]
  /\ build_state = [t \in Target |-> "READY"]
  /\ freed = {}
  /\ dispatch_queue = <<>>
  /\ monitor_queue = <<>>
  /\ response_queue = <<>>
  /\ pc = [t \in Thread |-> "none"]
  /\ hand = [t \in Thread |-> NoNode]

-----------------------------------------------------------------------------
(* main *)
(*                                                                         *)
(* A definition marked "bug" is the one below it with a mistake in it: no  *)
(* action uses it, it is there to show that a property would notice.       *)

(* One turn of the loop of spawn_threads(), which records the thread as    *)
(* created whether or not pthread_create could create it.                  *)
Spawn ==
  /\ main = "spawn"
  /\ \/ pc' = [pc EXCEPT ![i] = "poll"]
     \/ SpawnMayFail /\ UNCHANGED pc
  /\ \/ i < N /\ i' = i + 1 /\ UNCHANGED main
     \/ i = N /\ i' = 1 /\ main' = "scan"
  /\ UNCHANGED <<held, threads_alive, treeVars, build_state, queues, hand>>

(* bug: the build state is not looked at, as if no target had two nodes.   *)
ReleaseAgain(n) ==
  /\ held' = n
  /\ build_state' = [build_state EXCEPT ![TargetOf[n]] = "ONQ"]
  /\ main' = "dispatch"

(* bug: the build state is not set before the node goes on the queue.      *)
ReleaseUnmarked(n) ==
  /\ held' = n
  /\ main' = IF build_state[TargetOf[n]] = "READY" THEN "dispatch" ELSE "monitor"
  /\ UNCHANGED build_state

(* main takes a node whose children are all built: the first node of its   *)
(* target to get there goes to the build threads, the others wait for it   *)
(* on the monitor queue.                                                   *)
Release(n) ==
  /\ held' = n
  /\ \/ /\ build_state[TargetOf[n]] = "READY"
        /\ build_state' = [build_state EXCEPT ![TargetOf[n]] = "ONQ"]
        /\ main' = "dispatch"
     \/ /\ build_state[TargetOf[n]] # "READY"
        /\ main' = "monitor"
        /\ UNCHANGED build_state

(* main_dispatch_all_leaf_nodes() reaches the next leaf.                   *)
ScanLeaf ==
  /\ main = "scan"
  /\ Release(LeafOrder[i])
  /\ i' = i + 1
  /\ UNCHANGED <<threads_alive, treeVars, queues, threadVars>>

(* bug: the last leaf is left out.                                         *)
AfterPutShort == IF i + 1 \in DOMAIN LeafOrder THEN "scan" ELSE "poll"

(* Where main goes after it has put a node on a queue: to the next leaf,   *)
(* or to the loop of main_process_response_queue().                        *)
AfterPut == IF i \in DOMAIN LeafOrder THEN "scan" ELSE "poll"

(* bug: held is cleared before it is put on the queue.                     *)
DispatchCleared ==
  /\ main = "dispatch"
  /\ dispatch_queue' = Append(dispatch_queue, NoNode)
  /\ held' = NoNode
  /\ main' = AfterPut
  /\ UNCHANGED <<i, threads_alive, treeVars, build_state, monitor_queue,
                 response_queue, threadVars>>

(* DISPATCH_NODE *)
DispatchNode ==
  /\ main = "dispatch"
  /\ dispatch_queue' = Append(dispatch_queue, held)
  /\ held' = NoNode
  /\ main' = AfterPut
  /\ UNCHANGED <<i, threads_alive, treeVars, build_state, monitor_queue,
                 response_queue, threadVars>>

(* MONITOR_NODE *)
MonitorNode ==
  /\ main = "monitor"
  /\ monitor_queue' = Append(monitor_queue, held)
  /\ held' = NoNode
  /\ main' = AfterPut
  /\ UNCHANGED <<i, threads_alive, treeVars, build_state, dispatch_queue,
                 response_queue, threadVars>>

GetResponse ==
  /\ main = "poll"
  /\ response_queue # <<>>
  /\ held' = Head(response_queue)
  /\ response_queue' = Tail(response_queue)
  /\ main' = "handle"
  /\ UNCHANGED <<i, threads_alive, treeVars, build_state, dispatch_queue,
                 monitor_queue, threadVars>>

(* bug: any response ends the build.                                       *)
AnyAnswer(n) == n \in Node

(* Is n a node of the target asked for? (names are compared)               *)
IsAnswer(n) == TargetOf[n] = TargetOf[Root]

(* bug: the variable points at the parent by the time it is freed.         *)
FreeParent(n) == freed' = freed \cup (IF n = Root THEN {n} ELSE {Parent[n]})

Free(n) == freed' = freed \cup {n}

(* The response is for the target asked for: the build is over.            *)
HandleRoot ==
  /\ main = "handle"
  /\ IsAnswer(held)
  /\ Free(held)
  /\ held' = NoNode
  /\ main' = "save"
  /\ UNCHANGED <<i, threads_alive, child_nodes, build_state, queues,
                 threadVars>>

(* bug: the last child is not waited for.                                  *)
OneChildLeft(n) == child_nodes'[n] <= 1

ChildrenBuilt(n) == child_nodes'[n] = 0

(* Any other response: the parent has one child less to wait for, and is   *)
(* released when it waits for none.                                        *)
HandleChild ==
  /\ main = "handle"
  /\ ~IsAnswer(held)
  /\ Free(held)
  /\ LET parent == Parent[held]
     IN  /\ child_nodes' = [child_nodes EXCEPT ![parent] = @ - 1]
         /\ \/ ChildrenBuilt(parent) /\ Release(parent)
            \/ /\ ~ChildrenBuilt(parent)
               /\ held' = NoNode
               /\ main' = "poll"
               /\ UNCHANGED build_state
  /\ UNCHANGED <<i, threads_alive, queues, threadVars>>

(* md5_save_md5_hashes(): what it writes is the subject of MetaFile.       *)
SaveHashes ==
  /\ main = "save"
  /\ main' = "kill"
  /\ i' = 0
  /\ UNCHANGED <<held, threads_alive, treeVars, build_state, queues,
                 threadVars>>

(* send_killsignal_to_threads(): one signal per build thread on the        *)
(* dispatch queue, then one on the monitor queue.                          *)
SendKill ==
  /\ main = "kill"
  /\ threads_alive' = threads_alive + 1
  /\ \/ /\ i < N
        /\ dispatch_queue' = Append(dispatch_queue, Kill)
        /\ i' = i + 1
        /\ UNCHANGED <<main, monitor_queue>>
     \/ /\ i = N
        /\ monitor_queue' = Append(monitor_queue, Kill)
        /\ main' = "await"
        /\ UNCHANGED <<i, dispatch_queue>>
  /\ UNCHANGED <<held, treeVars, build_state, response_queue, threadVars>>

(* bug: the monitor thread's acknowledgement is not counted.               *)
AllButOneAcknowledged == threads_alive <= 1

AllAcknowledged == threads_alive = 0

(* The loop that waits for the threads; an entry that is not a signal is   *)
(* dropped.                                                                *)
AwaitAck ==
  /\ main = "await"
  /\ ~AllAcknowledged
  /\ response_queue # <<>>
  /\ threads_alive' = IF Head(response_queue) = Kill THEN threads_alive - 1
                                                     ELSE threads_alive
  /\ response_queue' = Tail(response_queue)
  /\ UNCHANGED <<main, i, held, treeVars, build_state, dispatch_queue,
                 monitor_queue, threadVars>>

(* clean_queues(): from here on the three queues are freed memory.         *)
CleanQueues ==
  /\ main = "await"
  /\ AllAcknowledged
  /\ main' = "exit"
  /\ UNCHANGED <<i, held, threads_alive, treeVars, build_state, queues,
                 threadVars>>

MainStep ==
  \/ Spawn \/ ScanLeaf \/ DispatchNode \/ MonitorNode
  \/ GetResponse \/ HandleRoot \/ HandleChild
  \/ SaveHashes \/ SendKill \/ AwaitAck \/ CleanQueues

-----------------------------------------------------------------------------
(* The build threads and the monitor thread *)

Goto(t, from, to) == pc[t] = from /\ pc' = [pc EXCEPT ![t] = to]

(* Thread t takes the oldest entry of q; a kill signal ends its loop.      *)
Take(t, q) ==
  /\ q # <<>>
  /\ Goto(t, "poll", IF Head(q) = Kill THEN "ack" ELSE "got")
  /\ hand' = [hand EXCEPT ![t] = Head(q)]

(* bug: the entry is looked at under the lock and removed by nobody.       *)
PeekDispatched(b) ==
  /\ Take(b, dispatch_queue)
  /\ UNCHANGED <<mainVars, treeVars, build_state, queues>>

GetDispatched(b) ==
  /\ Take(b, dispatch_queue)
  /\ dispatch_queue' = Tail(dispatch_queue)
  /\ UNCHANGED <<mainVars, treeVars, build_state, monitor_queue,
                 response_queue>>

StartBuild(b) ==
  /\ Goto(b, "got", "running")
  /\ build_state' = [build_state EXCEPT ![TargetOf[hand[b]]] = "RUNNING"]
  /\ UNCHANGED <<mainVars, treeVars, queues, hand>>

(* system() returns, with whatever result, and the target counts as built. *)
FinishBuild(b) ==
  /\ Goto(b, "running", "respond")
  /\ build_state' = [build_state EXCEPT ![TargetOf[hand[b]]] = "DONE"]
  /\ UNCHANGED <<mainVars, treeVars, queues, hand>>

(* Thread t passes the queue node it holds on to main: the node it has     *)
(* finished with, or the kill signal as its acknowledgement.               *)
SendResponse(t) ==
  /\ Goto(t, "respond", "poll") \/ Goto(t, "ack", "exit")
  /\ response_queue' = Append(response_queue, hand[t])
  /\ hand' = [hand EXCEPT ![t] = NoNode]
  /\ UNCHANGED <<mainVars, treeVars, build_state, dispatch_queue,
                 monitor_queue>>

BuildThread(b) ==
  \/ GetDispatched(b) \/ StartBuild(b) \/ FinishBuild(b) \/ SendResponse(b)

GetMonitored ==
  /\ Take(Monitor, monitor_queue)
  /\ monitor_queue' = Tail(monitor_queue)
  /\ UNCHANGED <<mainVars, treeVars, build_state, dispatch_queue,
                 response_queue>>

(* The monitor thread reads the build state, without a lock.               *)
CheckMonitored ==
  /\ \/ /\ Goto(Monitor, "got", "respond")
        /\ build_state[TargetOf[hand[Monitor]]] = "DONE"
     \/ /\ Goto(Monitor, "got", "requeue")
        /\ build_state[TargetOf[hand[Monitor]]] # "DONE"
  /\ UNCHANGED <<mainVars, treeVars, build_state, queues, hand>>

(* bug: a node whose target is not built yet is dropped.                   *)
RequeueNothing ==
  /\ Goto(Monitor, "requeue", "poll")
  /\ hand' = [hand EXCEPT ![Monitor] = NoNode]
  /\ UNCHANGED <<mainVars, treeVars, build_state, queues>>

Requeue ==
  /\ Goto(Monitor, "requeue", "poll")
  /\ monitor_queue' = Append(monitor_queue, hand[Monitor])
  /\ hand' = [hand EXCEPT ![Monitor] = NoNode]
  /\ UNCHANGED <<mainVars, treeVars, build_state, dispatch_queue,
                 response_queue>>

MonitorThread ==
  GetMonitored \/ CheckMonitored \/ Requeue \/ SendResponse(Monitor)

-----------------------------------------------------------------------------
(* The process is over; everything else that stops is a deadlock.          *)
Terminated == main = "exit" /\ UNCHANGED vars

Next ==
  \/ MainStep
  \/ \E b \in Builder : BuildThread(b)
  \/ MonitorThread
  \/ Terminated

(* No thread is kept from running for ever, and every command returns.     *)
Fairness ==
  /\ WF_vars(MainStep)
  /\ \A b \in Builder : WF_vars(BuildThread(b))
  /\ WF_vars(MonitorThread)

Spec == Init /\ [][Next]_vars
FairSpec == Spec /\ Fairness

-----------------------------------------------------------------------------
(* Properties *)

NodesOn(q) == {q[j] : j \in DOMAIN q} \ {Kill}
Distinct(q) ==
  \A j, k \in DOMAIN q : q[j] = q[k] /\ q[j] # Kill => j = k
NodesInHand == {hand[t] : t \in Thread} \ {Kill, NoNode}
Held == {held} \ {NoNode}

(* The nodes that some queue, some thread or main has a pointer to.        *)
InFlight == NodesOn(dispatch_queue) \cup NodesOn(monitor_queue)
              \cup NodesOn(response_queue) \cup NodesInHand \cup Held

(* The asserts of the source hold where it makes them: the build state of  *)
(* a target taken from the dispatch queue is RM_BUILD_ONQ (threads.c:97),  *)
(* that of a target taken from the response queue is RM_BUILD_DONE         *)
(* (main.c:235), and child_nodes never goes below zero (main.c:255).       *)
AssertionsHold ==
  /\ \A b \in Builder :
       pc[b] = "got" => build_state[TargetOf[hand[b]]] = "ONQ"
  /\ main = "handle" => build_state[TargetOf[held]] = "DONE"
  /\ \A n \in Node : child_nodes[n] >= 0

(* The happens-before relation of README:10-13: whichever thread runs the  *)
(* command of a target, and through whichever tree node it got there, the  *)
(* target's dependencies have been built by then, even those that other    *)
(* nodes of theirs brought to the build threads.                           *)
DependenciesFirst ==
  \A n \in Node : \A c \in Child(n) :
    build_state[TargetOf[n]] \in {"RUNNING", "DONE"}
      => build_state[TargetOf[c]] = "DONE"

(* main frees a tree node when its response has been handled.  No queue,   *)
(* thread or tree node keeps a pointer to it, and no leaf that main still  *)
(* has to visit has been freed.                                            *)
NoUseAfterFree ==
  /\ InFlight \cap freed = {}
  /\ \A n \in freed : Child(n) \subseteq freed
  /\ main = "scan" =>
       \A j \in DOMAIN LeafOrder : j >= i => LeafOrder[j] \notin freed

(* A tree node is in one place at a time: it is never queued or worked on  *)
(* twice, so it is never freed twice nor its parent's count taken down     *)
(* twice.                                                                  *)
SingleOwner ==
  /\ Distinct(dispatch_queue)
  /\ Distinct(monitor_queue)
  /\ Distinct(response_queue)
  /\ NodesOn(dispatch_queue) \cap NodesOn(monitor_queue) = {}
  /\ NodesOn(dispatch_queue) \cap NodesOn(response_queue) = {}
  /\ NodesOn(monitor_queue) \cap NodesOn(response_queue) = {}
  /\ \A t, u \in Thread : hand[t] = hand[u] /\ hand[t] \in Node => t = u
  /\ NodesInHand \cap (NodesOn(dispatch_queue) \cup NodesOn(monitor_queue)
                         \cup NodesOn(response_queue)) = {}
  /\ Held \cap (NodesInHand \cup NodesOn(dispatch_queue)
                  \cup NodesOn(monitor_queue)
                  \cup NodesOn(response_queue)) = {}

(* When main leaves main_process_response_queue(), because the response    *)
(* for the target asked for has come, no work is left behind: every target *)
(* is built, every node freed, and nothing is queued or being run.  The    *)
(* kill signals, and the hashes, come after the last command.              *)
Returned == main \in {"save", "kill", "await", "exit"}
DrainedOnReturn ==
  Returned => /\ \A t \in Target : build_state[t] = "DONE"
              /\ freed = Node
              /\ InFlight = {}

(* clean_queues() frees the queues after the last access a thread makes to *)
(* them: every thread has left its loop by then, and no kill signal was    *)
(* sent too many.                                                          *)
QueuesOutliveThreads ==
  main = "exit" => /\ \A t \in Thread : pc[t] = "exit"
                   /\ dispatch_queue = <<>>
                   /\ monitor_queue = <<>>
                   /\ response_queue = <<>>

(* A target goes through its build states in order and one at a time: its  *)
(* command is run once, however many nodes it has and whatever the order   *)
(* in which the threads see them.                                          *)
BuildStep(s, t) ==
  <<s, t>> \in {<<"READY", "ONQ">>, <<"ONQ", "RUNNING">>, <<"RUNNING", "DONE">>}
EachTargetOnce ==
  [][\A t \in Target : build_state'[t] # build_state[t]
                         => BuildStep(build_state[t], build_state'[t])]_build_state

(* The build ends: main gets the response it waits for, all threads        *)
(* acknowledge their kill signal and the process exits.                    *)
Termination == <>(main = "exit")

(* A node that the monitor thread is left to watch, because its target is  *)
(* being built through another node, is eventually answered and freed.     *)
MonitoredIsAnswered ==
  \A n \in Node : n \in NodesOn(monitor_queue) ~> n \in freed

(* The build implements BuildOrder: the queues, the threads and the tree   *)
(* nodes cannot be told from commands run in dependency order.             *)
Abstract == INSTANCE BuildOrder WITH
  Deps <- [t \in Target |->
             UNION {ChildTargets(n) : n \in {m \in Node : TargetOf[m] = t}}],
  status <- [t \in Target |-> CASE build_state[t] = "RUNNING" -> "running"
                                [] build_state[t] = "DONE" -> "built"
                                [] OTHER -> "waiting"],
  returned <- Returned
ImplementsBuildOrder == Abstract!Spec
=============================================================================
