# A verification project for Remodel

Remodel is a replacement for `make` in C: it reads a `remodelfile`, finds by MD5
hashes which sources have changed since the last build, and runs the commands
of the targets that depend on them, in parallel and in the order of their
dependencies. The modules in this directory model that program in TLA+, check
the models with TLC on small instances and prove some of their properties with
TLAPS. File and line numbers are those of the repository.

## The system

| Component | State it keeps | Operations | What makes it correct |
|---|---|---|---|
| Arguments, error paths, the end: `main.c:35-172`, `270-369` | what is allocated; the slots of `thread_list`; the signals sent | check the arguments, call the parts below, and on every path signal the threads and free the lists | no queue is used that does not exist, the signals match the threads, the run ends if every thread was created, the lists are freed |
| Remodelfile parser, `file.c:23-237` | the target list and the source list | one production per line; both lists grow at the front | what the grammar of the README says is what the lists hold |
| Dependency graph, `file.c:239-606`, `main.c:82-134`, `371-378` | a tree of `remodel_node_t`; a target that several targets depend on has one node per place and one `target_t`; `changed_dp` and `build_state` per target, `child_nodes` and an array of pointers per node | build the tree (cyclic and missing dependencies end the run), mark, prune, count the children that are left, count the nodes for the number of threads | an order is built or an error reported; the pruned tree holds what must be rebuilt, and the build threads can run it |
| Parallel build, `main.c:134-268`, `330-369`, `threads.c` | three queues (dispatch, monitor, response), `build_state`, `child_nodes`, the threads | main dispatches the leaves and then releases parents as responses come in; build threads run commands; the monitor thread keeps the second and later nodes of a shared target until it is built; kill signals and acknowledgements end the threads | dependencies first, every target once, nothing left behind, nothing freed too early, an end |
| Queue, `queue.c` | a doubly linked list and a mutex | add at the head, take from the tail | first in, first out, for every interleaving |
| Hashes, `md5hash.c` | the hash of each source; `.remodel/md5hashes` and its backup, between runs | calculate all, load and compare, save: append to the backup, rename, close | an output made from an older content is noticed by the next run |
| Help, timing, logging | | | |

`main()` runs the parser, the hashes and the graph one after the other, then
starts the threads; from then on main and the threads share the queues, the
tree and the targets. main alone writes the tree and takes a target from READY
to ONQ; the build thread that has its node takes it to RUNNING and DONE; the
monitor thread only reads it, without a lock.

What is hard here: the interleavings of main, the builders and the monitor over
shared targets; memory that main frees while others have pointers to it; the
end of the build, which one response decides; the shutdown by counting
acknowledgements; threads that could not be created; runs that are killed
between the commands, the saving of the hashes and its steps; contents that
change while remodel runs or come back later. `PROJECT.json` lists each such
place with its line ("hazards") and the property that is about it.

## The modules

    BuildOrder         what a parallel build promises
      ^ implemented by
    Scheduler  ------- extends BuildTree (what a dependency tree is)
      ^ trees from               ^ instantiated by
    DepGraph  -----------------+        MetaFile (runs and hashes)
      ^ extended by, and one of its steps implemented by
    Pruning

    Fifo               what Scheduler takes the queues to be
      ^ implemented by
    LinkedQueue

    Remodelfile        the lists that DepGraph starts from
    MainRun            the paths through main around all of the above

The interfaces are checked, not only drawn. `IsReadyToSchedule` is what
Scheduler assumes of its tree; `ImplementsFifo` is what it assumes of its
queues; `SourcesAreListed` is what DepGraph assumes of the source list
(`SourceList`), and `ReadsProductions` of its productions; MetaFile assumes
`RebuildsWhatDepends` and BuildOrder. That there are no more threads than
`thread_list` has slots for is assumed nowhere, since the code does not keep to it
(`MonitorHasASlot`, below): MainRun takes any number that DepGraph may calculate.

**BuildOrder** is the abstract specification: targets with dependencies, a
command that starts when all dependencies are built and ends, and a build that
returns when every target is built.

**BuildTree** has no variables. It says what a dependency tree for the build
threads is: a tree, whose nodes of one target have the same child targets, and
the order of its leaves. `Scheduler` assumes it of its constants and `DepGraph`
shows it of the trees it makes, by instantiating the module with its own state.

**Scheduler** is the core: main from `spawn_threads()` to `clean_queues()`, the
build threads and the monitor thread.

| TLA+ | Code |
|---|---|
| `main`, `i`, `held`, `threads_alive` | where main is, its loop index, its `rmnode`, the local of `send_killsignal_to_threads()` |
| `child_nodes`, `freed`, `build_state` | the fields of nodes and targets; the nodes given to `FREE` |
| `dispatch_queue`, `monitor_queue`, `response_queue` | the queues, oldest entry first; an entry is a node or `Kill` |
| `pc`, `hand` | where each thread is, and its `qnode` |
| `Spawn` | one turn of `spawn_threads()` |
| `ScanLeaf`, `DispatchNode`, `MonitorNode` | `main_dispatch_all_leaf_nodes()` and the macros it uses |
| `GetResponse`, `HandleRoot`, `HandleChild` | one turn of `main_process_response_queue()`; `Release` is its end, and the test of the build state that the leaves share |
| `SendKill`, `AwaitAck`, `CleanQueues` | `send_killsignal_to_threads()`, `clean_queues()` |
| `GetDispatched`, `StartBuild`, `FinishBuild`, `SendResponse` | `build_thread()` |
| `GetMonitored`, `CheckMonitored`, `Requeue`, `SendResponse` | `monitor_thread()` |

An action is a region under a mutex, or one read or write of a shared build
state. Polling an empty queue is a stuttering step. What `system()` returns is
not looked at by the code and so not modelled.

**DepGraph** is main from the check of the target to the number of threads. A
node is the path of child indices from the root. `AddNodes` is one call of
`file_add_nodes_to_remodel()`: all dependencies of a node are checked and added
before the recursion goes on, and `todo` holds the calls to come. `MarkTargets`,
`Cleanup` and `CountThreads` are whole functions; marking is written as a
recursive function over the tree, pruning as a condition on the path. The list
order (productions and dependencies are put at the front) is kept, since the
last production of a name is the one that is found.

**Pruning** extends DepGraph and takes its step `Cleanup` apart into the turns of
the loops of two recursions. `children` is the array of pointers that DepGraph
has no need of.

| TLA+ | Code |
|---|---|
| `stack` | the calls of the recursion that runs, each with its node and loop index |
| `children`, `freed` | `remodel_node_t.children`, with `NoNode` for NULL; the nodes freed |
| `VisitChild`, `LeaveNode` | a turn of the loop, and the end, of `file_remove_unnecessary_nodes()`; `TakeOut` clears the parent's pointer and frees the node |
| `CountNode`, `CountChild` | the first part, and a turn of the last loop, of `file_update_children_count()` |
| `FinishPruning` | back in main: from here on the tree is what the pointers lead to |

**LinkedQueue** is `queue.c`, one write to shared memory per step.

| TLA+ | Code |
|---|---|
| `head`, `tail`, `next`, `prev`, `mtx` | the fields of `queue_t` and `queue_node_t`, the owner of the mutex |
| `NewNode`, `FreeNode` | `queue_node_new()`; `FREE`, after which malloc may give the memory out again |
| `StartGet`, `GetNothing`, `GetTail`, `Unlink`, `Relink` | lock, then `queue_get_node()` |
| `StartAdd`, `AddFirst`, `SetTail`, `AddInFront`, `SetHead`, `ClearPrev` | lock, then `queue_add_node()` |
| `Unlock` | the end of either |

**Fifo** is its abstract specification: sequences to which a cell is added at the
end, or from which the first is taken, in one step.

**Remodelfile** reads a file line by line. A line is a sequence of characters;
letters stand for parts of names. `Scan` is what the four `sscanf` formats read
and the choice between them; `Strip`, `Split`, `IsSource` are
`file_remove_extra_chars()`, `strtok` and `check_dp_type()`. `OpenFile`,
`SkipLine`, `RejectLine`, `AddTarget`, `AddDependency` (a turn of the loop over the
names), `EndLine` and `EndFile` are the paths through `file_parse_line()` and its
callers. `live` counts what has been allocated and not freed, by kind.

**MainRun** is `main()` on every path. The parts in the middle succeed or fail, as
the input says, and leave the lists they leave; `SignalBuilder`, `SignalMonitor`,
`TakeAck` and `AllAcknowledged` are `send_killsignal_to_threads()`, which all
paths go through, with and without queues and threads; `CleanQueues` to
`CleanSourceHead` free what there is. Scheduler has the same signals in more
detail, on the one path where threads exist.

`SpawnThreads` gives every thread its slot and creates any of them, since
`spawn_threads()` does not look at what pthread_create returns: `missing` are those that
it could not create. `Slot` is what `thread_list` is indexed with, of which it
declares `Declared` only. With more builders than `BUILD_THREADS` the run goes on as
if nobody used the memory behind the array, or `pc` becomes "overrun", and what
then happens is undefined and not followed. Without a monitor thread the build may
wait for an answer for ever ("unanswered"), and without a builder it always does.

**MetaFile** is a sequence of runs over one project: `StartRun` calculates the
hashes and finds what to build (the promise of DepGraph), `RunCommand` runs
commands in dependency order (the promise of BuildOrder), `WriteHashes`,
`Rename` and `Close` are `md5_save_md5_hashes()`, where the lines reach the file
after the rename. A hash stands for a content. `output[t]` is the set of source
contents that went into the output of t. A crash leaves any beginning of the
buffer in the file, with a last line that may lack its newline, a part of its
hash or a part of its name. `Clean` is a run for the target clean of
testcases/testcase-1/remodelfile, which removes the outputs and `.remodel`. Five
constants say what the environment may do: bring contents back, edit during a
run, let commands fail, kill remodel, clean.

**MCScheduler**, **MCDepGraph**, **MCPruning**, **MCLinkedQueue**, **MCRemodelfile**,
**MCMainRun** and **MCMetaFile** hold the instances for TLC. **SchedulerProofs**
holds the proofs about Scheduler: its types, its inductive invariant and what
follows from it. **GraphProofs** (about DepGraph), **PruningProofs**,
**RemodelfileProofs**, **LinkedQueueProofs**, **MainRunProofs** and **MetaFileProofs**
are the same for one module each, and **Numbers** has the lemmas about numbers, orders of finite sets
and repeated application of a function that they cite.

Definitions whose comment begins with "bug:" are wrong versions of the
definition below them. Nothing uses them: they document a mistake that each
property would notice (`PROJECT.json`, "mutants").

## What is checked

| Run | Instance | Properties | Result |
|---|---|---|---|
| sched_snap | testcase-1 with all sources changed: 9 nodes, 8 targets, 3 build threads; pthread_create may fail | type, `AssertionsHold`, `DependenciesFirst`, `NoUseAfterFree`, `SingleOwner`, `DrainedOnReturn`, `QueuesOutliveThreads`, `EachTargetOnce` | hold |
| sched_live | two targets over a shared one that has two dependencies; every thread created | `Termination`, `MonitoredIsAnswered`, `ImplementsBuildOrder`; no deadlock | hold |
| graph_build | 10,177 remodelfiles (every one with productions for three targets with at most two dependencies, some twice the same, and some larger or odd ones) and 576 for the pruning | type, `OnlyOrdersAreBuilt`, `RebuildsWhatDepends`, `IsReadyToSchedule`, `PointersAreLive`, `ArraysAreDense`, `ImplementsCleanup` | hold |
| graph_threads | five targets, each of which depends on all later ones | `MonitorHasASlot` | violated |
| queues | main and two build threads, two queues, three nodes | type, `NothingWrong`, `ReadsBothWays`, `ImplementsFifo`; no deadlock | hold |
| file_read | every line of up to four of ten characters, alone and after `a<-` or `a<-c:`; files of two productions in every spelling of the blanks; odd files | type, `ReadsProductions`, `SourcesAreListed`, `NothingIsLost`, `ConversionsFit` | hold |
| file_targets | a production for two targets | `ReadsProductions` | violated |
| main_paths | every way out of main, three lengths of the lists, up to four build threads (one more than there are slots), any of which, or the monitor thread, pthread_create may fail to create | type, `SignalsMatchThreads`, `FreesLists`, `RunEnds` | hold |
| meta_crash | edits at any time, crashes, no content comes back | type, `StaleIsNoticed`, `RecordsAreBuilt`, `UpToDateAtLast`, `SavesWhatItCalculated` | hold |
| meta_revert | contents come back, edits between runs, clean, no crash | `StaleIsNoticed` | hold |
| meta_goal | runs for either target | `StaleIsNoticed` | violated |
| meta_fail | commands fail | `RecordsAreBuilt` | violated |

What the runs show of the code:

* The protocol of the three queues is right. However responses, builders and
  the monitor thread interleave, the dependencies of a target are built before
  its command runs, also when some of its nodes were brought to the build
  through another tree node; a target's command runs once; when the response
  of the root comes every node has been answered and freed, so that the hashes
  are saved after the last command and the queues are freed after their last
  use. The monitor thread's unlocked read is harmless: it only looks for DONE,
  which never goes away.
* The graph is right: cycles and missing productions are found exactly when
  there are some below the target, the pruned tree is what depends on a changed
  source, plus the commands without dependencies next to it. A target whose
  only dependencies are such commands is never built (`file.c:304`): this is
  what `RebuildsWhatDepends` says of it, and the README is silent.
* The pruning is right although it frees nodes out of the arrays that its
  callers loop over: an array keeps its length until the second recursion
  replaces it. Commands without dependencies below an unchanged target are
  neither freed nor reachable any more (they are small, and the process is
  short).
* The linked lists are sequences. What makes them so is that every node is put
  in front with both its pointers set, so that those it has kept from its last
  queue do no harm; that `queue_is_empty()` looks at the head twice and at the
  tail never (`queue.c:77`) is harmless, since the two are NULL together when
  the mutex is taken.
* The parser means by a file what the grammar says, for one target per
  production (file_targets) and commands that do not end with a colon (below). The buffers for names and commands lack the byte for the final
  0, and are never filled to the last byte all the same (`ConversionsFit`).
* On every path the signals are as many as the threads that main believes to
  exist, and only those that pthread_create could create read theirs
  (`SignalsMatchThreads`). With all of them created, main gets an acknowledgement for each
  signal, comes to its end and has freed the queues and what `FreesLists` names of the
  lists. With one of them missing it waits for ever, in the build or for an
  acknowledgement: this is the exception in `RunEnds`, and the code has no other. What holds
  this together on the early paths is the -1 that main writes into `thread_list`
  before anything can fail.
* A run that saves its hashes hands them to the next, although it appends them to
  whatever a killed run left in the backup (`SavesWhatItCalculated`): the last line of a
  source counts. Only the line of the first source can be lost, when the
  backup ends in a line that was cut short; that source is built once more.
* The hashes are safe against crashes at any point as long as no content comes
  back, and against contents that come back, and clean, as long as nothing else
  happens. A project whose edits end, and that is built again and again without
  being killed for ever, gets up to date (`UpToDateAtLast`). A run for a part of
  the project hides changes (meta_goal), and so does a failing command
  (meta_fail).

The violated properties are the findings of `PROJECT.json`, each with the line
of the repository that says otherwise. Changing the constants or the properties
of the passing runs shows where else the code does not keep what it says:

| Change | Counterexample |
|---|---|
| main_paths with `<>(pc \in {"exit", "overrun"})` as a property, or sched_live with `SpawnMayFail = TRUE` | main waits for ever, which is against `Termination`: `spawn_threads()` drops the results of pthread_create (`threads.c:31,36`), the error path "unable to create threads" (`main.c:145-147`) is never taken, and main waits for an acknowledgement from a thread that does not exist |
| meta_crash with `MayRevert = TRUE` | `StaleIsNoticed`: a run is killed after a command, the source gets its old content back, and its hash matches while the output is of the other content |
| meta_crash with `SavesWhatItCalculated` without its exception | a backup that a killed run has left is appended to ("ab+", `md5hash.c:85`), and the first new line joins one that was cut short |
| meta_revert with a clean that removes the outputs only, as that of testcases/cyclic_dependency/remodelfile:17 (`RemoveOutputs` in the place of `Clean`) | `StaleIsNoticed`: the hashes stay and match, and nothing is built |
| file_read with a command that ends with a colon | `ReadsProductions`: `:"` then occurs in the line, the format without a gap between colon and quote is chosen (`file.c:154`), and `a <- a.c : "c:"` gets no command |
| main_paths with `pc = "exit" => live \subseteq {remodel_head}` as an invariant | `clean_target_list()` logs "freeing target" (`main.c:291`) and leaves every target and command allocated |

### Bounds

* Scheduler: nine nodes make `calculate_number_of_threads_needed()` return 3,
  the number of build threads of both trees. SnapNode has a target shared at
  two depths, so that its second node may be found READY, ONQ, RUNNING or DONE;
  LibNode has a shared target that is released twice, by different children.
  Three builders are enough for two of them to have nodes while a third is
  idle. The state space is finite: there is no other bound.
* DepGraph: three targets can make every cycle of up to three names, a shared
  target and a chain; the files listed one by one add depth, a missing source,
  duplicate productions and sources that have productions.
* Pruning: arrays of up to three pointers of which the first, the last, one
  between others, or all are removed, in trees four levels deep.
* LinkedQueue: three cells give lists with a first, a last and an inner node.
  Of the three processes, two compete for one end of a list and one is at the
  other. The monitor queue is used like the dispatch queue, by a single thread.
* Remodelfile: `MaxLength` bounds the lines, or what comes after their
  beginning. The four formats differ in two pairs of characters, and the
  beginnings lead to each of them. Two productions are enough for a source that
  is listed already, and for a name that is produced twice.
* MainRun: lists of no, one and three targets with none to two dependencies;
  `BUILD_THREADS` is 3, as in the code. One thread to four are asked for: fewer
  than there are slots, as many, and one more, for which `Slot` has one slot behind
  the declared ones. Any set of them may be missing. In the theorems `Slot` is any
  set that has a slot for each thread asked for.
* MetaFile: `LastVersion` bounds the edits (three contents are an old, a
  recorded and a new one), `MaxLines` the lines a crash leaves in the backup
  (one whole line and one cut short are enough to hide a new line behind an old
  one). Two targets, one of which uses the other, have a source each, so that
  sources are read at once and through an output.

### Fairness

`sched_live` uses `FairSpec` of Scheduler: weak fairness of main, of each build
thread and of the monitor thread. The threads are run by the operating system,
which stops none of them for ever; fairness of `FinishBuild` says that every
command returns, which is up to the commands. Weak fairness of a thread covers
taking from a queue, since only the threads of that kind take from it and an
entry stays until it is taken.

An action of Scheduler has the taking of a mutex in it, and weak fairness of the
action takes for granted that a thread which asks for a mutex gets it in the
end. pthread_mutex_lock does not promise that: threads that lock a queue's mutex to
find nothing can always be first. Nothing here discharges this assumption.
LinkedQueue, whose steps are those inside the mutexes, has no fairness: TLC checks
that no process blocks the others for good (no deadlock), and not who is next.

MainRun has weak fairness of main and of the threads, as Scheduler. Its threads only matter
for the signals they take. That every thread is created is not assumed: `RunEnds` says
of which runs it speaks.

`FairSpec` of MetaFile is weak fairness of `RunStep`: the user runs remodel again
while there is something to build, and a run goes on. `UpToDateAtLast` excuses
the project that is killed again and again. That the edits come to an end is
given by the bound on contents, not by fairness.

DepGraph, Pruning and Remodelfile are sequential and have no fairness: the
construction of the tree ends because no name is below itself
(`OnlyOrdersAreBuilt`), a recursion because the tree is finite, the reading because
lines are consumed, and TLC finds no deadlock in any of them.

## What is proved

A theorem holds for every value of the constants that satisfies the assumptions
which the module states about them, and TLC evaluates those assumptions on the
instances. No other fact is assumed; the lemmas rest on the library's theorems
about finite sets, sequences and well-founded sets.

### Scheduler

For every tree that satisfies BuildTree, every way of sharing targets in it and
every number of threads, whether or not all of them can be created:

| Theorem | Statement |
|---|---|
| `TypeCorrect` | `Spec => []TypeOK` |
| `InductiveInvariant` | `Spec => []Inductive` |
| `AssertsNeverFail` | `Spec => []AssertionsHold` |
| `HappensBefore` | `Spec => []DependenciesFirst` |
| `FreedAreUnused` | `Spec => []NoUseAfterFree` |
| `OneOwner` | `Spec => []SingleOwner` |
| `Drained` | `Spec => []DrainedOnReturn` |
| `RunOnce` | `Spec => EachTargetOnce` |
| `Implements` | `Spec => Abstract!Safety` (BuildOrder without its fairness) |
| `QueuesAreLast` | `Spec => []QueuesOutliveThreads` |

The proofs rest on the assumptions of Scheduler about its constants and on the
library's facts about finite sets. The argument has four parts.

*Control*. TypeOK is not inductive: that main puts a node on
a queue, and not NULL, depends on where main is; that a builder answers with the
node it took depends on where it is. `Control` says, for each place in main and
in the threads, what they hold there, which loop index they have, and that no
kill signal is on any queue before the build has returned.

*Places*. A node is nowhere, in one place in flight, or freed.
The leaves that main has still to visit are nowhere; a node that is in flight or
freed has all its children freed, and `child_nodes` counts the children that are
not. This is why a parent is not yet in flight when the response of a child
arrives, and why it is released once: the count reaches zero when the last child
is freed. The root is answered when its children are freed, theirs before them,
and so on: `IsTree` says that a set which contains the root and the children of
its members is the whole tree. Queues are dealt with once, in lemmas on what
taking and adding do to the nodes of a queue.

*States*. The build state of a target is known from where its
nodes are: ONQ if one of them is on the way to a builder, RUNNING if its command
runs, DONE if one of them is answered, and at most one node is on the way or
running. A target that has left READY has all its dependencies DONE. A target is
released by one of its nodes, whose children are freed and hence DONE; its other
nodes have other children, and these are DONE because the nodes of a target have
children with the same targets (`IsShared`).

*Signals*. After the return the queues hold nothing but kill
signals. Those sent to the builders are on the dispatch queue or taken by
different builders, the one for the monitor thread is on its queue or taken, and
`threads_alive` is the number of signals that are on a queue or not yet
acknowledged. When it is zero after N + 1 signals, all N + 1 threads have stopped.

### DepGraph

For every remodelfile, every target asked for, every state of the disk and any
number of build threads:

| Theorem | Statement |
|---|---|
| `GraphTypes` | `Spec => []TypeOK` |
| `OrdersOnly` | `Spec => []OnlyOrdersAreBuilt` |
| `RebuildsDependents` | `Spec => []RebuildsWhatDepends` |
| `ReadyToSchedule` | `Spec => []IsReadyToSchedule` |

The last one discharges what Scheduler assumes of its tree (`TreeAssumption`): the
theorems about Scheduler are about the trees that main hands to the threads.

`GraphInv(N, D, H, g)` is the invariant. Its parameters are the names, the
dependencies of each, the names that have a production, and the target asked
for: they are read off the remodelfile once (`FileIs`) and never change, so that
the lemmas on trees are about sets and functions and not about a state.
`TreeShape(T, C, W, ...)` describes the tree while calls are pending: `T` names its
nodes, `C` counts the children, and the children of every node not in `W`, the
nodes whose calls are to come, are the dependencies of its target in the order of
the list. No name occurs twice on a path.

From this follows, when no call is pending, that what is below a node in the tree
is what is below its name in the remodelfile (`CompleteBelow`, by induction from
the deepest node up), hence that the names are ordered. A run that stops with a
fault has found a witness: a name that is below itself, or has no production. The
other direction is that a finished tree has neither. `MarkTargets` is a recursive
function over the tree: `ChangesAre` shows it equal to `HasChange`, "a changed
source is at or below the node", since a deepest node where the two differed would
have children where they agree. What is left after the pruning (`Kept`) has no node
whose parent is gone, and `PrunedInv` relates it to the tree there was. The order
in which main meets the leaves is the order of their paths: `RankedOnce` in
Numbers says that numbering a finite ordered set by the members before each lists
it, each member once.

### Pruning

For every remodelfile, again:

| Theorem | Statement |
|---|---|
| `PointersLive` | `PruneSpec => []PointersAreLive` |
| `ArraysDense` | `PruneSpec => []ArraysAreDense` |
| `CleanupImplemented` | `PruneSpec => ImplementsCleanup` |

`PruneInv` has a part for each phase. While nodes are removed (`RemoveInv`), the
calls are for the nodes on the way to a place in the tree (`Walks`), and the freed
nodes are those before that place, in the order of paths, that the code takes out
(`Taken`): no node is before one above it, so that neither the node of a call nor
its parent is among them, and an array has NULL exactly for the freed ones
(`Pointers`). While the children are counted (`CountInv`), every node that is left
and not counted yet is at or below a pointer that a call on the stack has still to
follow (`Counts`): when no call is left, all are counted, and `main` goes on with
arrays that have no holes. `ReachedIs` then shows that the pointers lead to
exactly the nodes that `Cleanup` of DepGraph keeps, which is the step of the
refinement that is not a stutter.

### Remodelfile

For every remodelfile, whether it is read to its end or rejected, and lines of any
length:

| Theorem | Statement |
|---|---|
| `FileTypes` | `Spec => []TypeOK` |
| `SourcesListed` | `Spec => []SourcesAreListed` |
| `NothingLost` | `Spec => []NothingIsLost` |
| `BuffersSuffice` | `Spec => []ConversionsFit` |
| `GrammarIsRead` | `Spec => []ReadsProductions`, if each file whose meaning is given follows the grammar |

The assumption is that a line has at least one character, as `getline()` gives
them. `SourcesAreListed` is inductive together with the types (`Agree`).
`NothingIsLost` speaks of the moments between two lines; `Counted` adds the moments
when dependencies are being added, when the list of dependencies has one more
buffer, and says that the dependency nodes are as many as the places in the
dependency lists: a target in front moves every place (a bijection), a
dependency in front adds one. `ScanFits` goes through the four formats: what follows
the arrow is shorter than the line by two at least, unless there is no arrow and
nothing follows; what a conversion reads is no longer than what it reads from.
`ListAt` and `RankedOnce` say that what `file_remove_extra_chars()` and `strtok()`
leave is a sequence, and of names that are not empty.

`GrammarIsRead` has a hypothesis, `FollowsGrammar`, that says for a file and its
productions, without a word of how the code reads, that the one is written as the
other: the lines that are not blank are the productions, in their order; in a line,
the target is left of the arrow, and right of it are the names, separated by commas,
and perhaps a colon and a command in quotes, with blanks anywhere but in the arrow.
It is for productions of one target, since the code does not read others as
README:25 has them (file_targets). It also forbids what would choose another format: "<-:" in a
line that has dependencies, and a colon next to a quote unless they are those in
front of the command. The grammar allows a command to have either, and the code
then reads the line wrong (`file.c:154`, and the table of changes above). The quotes and
colons that `sscanf` stops at may not be in a name. There are files that follow the
grammar: TLC evaluates `Followed` of MCRemodelfile, that all of `Following` do, in
every spelling.

The proof has two parts. For a line, `ReadsBare` and `ReadsFull` compute `Scan` with and
without a command: what each conversion reads is the part up to the
first stop character, and there is none before the place the grammar gives
(`SpanIs`, `AfterIs`). The names between commas are what `strtok` gives
(`SplitsList`), where `NthOnly` says that the numbering of places used by both is the only one
that is in order. For the file, `Reading` is the invariant: behind `n` lines the target
list holds, from its end, the productions of those lines with their dependencies
reversed, and while a line's dependencies are being added, those added and those still to come
make up its list (`InHand`). No line that is written as the grammar says is
rejected. The first target of a name is the last production of it (`LastCounts`),
because each was put in front.

### LinkedQueue

For any finite set of cells, any queues and any clients (which queue a process
polls, which it adds to, whether it makes new nodes):

| Theorem | Statement |
|---|---|
| `QueueTypes` | `Spec => []TypeOK` |
| `EndsAgree` | `Spec => []NothingWrong` |
| `SameBothWays` | `Spec => []ReadsBothWays` |
| `QueuesAreFifo` | `Spec => ImplementsFifo` |

The inductive invariant is `LinkInv`, of all moments and not only those when the
mutex is free. `Shape(L)` says for a family `L` of sequences, one per queue, what
the cells, the two ends and the node in each hand are when `L[q]` is what queue
`q` holds, and, for the process inside the mutex, which write is still missing at
its place in the code: after `Unlink` the tail is right and the new last cell
still points to the cell that was taken, and so on. `L` is rigid in the lemma
about each action, which names the sequences after the step and shows that they
have the shape again; `ListsAfter` then says that they are what `Listed` finds, by
induction on their length. A step writes only to cells of its own queue and hand,
so the rest keeps its shape (`OwnPart`, `OutsideStep`): this is where it is needed
that no cell is in two hands or on two queues, which is a part of the shape. For the
refinement, each write of the code is a stuttering step of Fifo but the one that
takes the cell or puts it in.

### MainRun

For all inputs, any number of build threads, more than `thread_list` has slots for
too, and whichever of the threads pthread_create can create:

| Theorem | Statement |
|---|---|
| `MainTypes` | `Spec => []TypeOK` |
| `SignalsAndThreads` | `Spec => []SignalsMatchThreads` |
| `ListsAreFreed` | `Spec => []FreesLists` |

`ThreadInv` says for each place in main which threads there are, what is in
`thread_list` and how signals, acknowledgements and threads add up. It counts a
missing thread as one that never ends (`Expected`): while main signals, the signals
that are still on the dispatch queue and the acknowledgements are as many as the
signals sent, and when it waits, the signals on each queue are as many as the
threads that could still take them. That all threads have ended when the queues
are freed follows, and that main does not come there when one is missing. `ListInv`
says which lists exist at each place.

### MetaFile

For any sources, targets and productions, and any bounds on versions and lines:

| Theorem | Hypotheses | Statement |
|---|---|---|
| `MetaFileTypes` | none | `Spec => []TypeOK` |
| `RecordsOfBuilds` | no content comes back, no command fails, each run is for all targets | `Spec => []RecordsAreBuilt` |
| `StaleIsNoticedAfterCrash` | the same | `Spec => []StaleIsNoticed` |
| `SavedIsCalculated` | none | `Spec => SavesWhatItCalculated` |
| `StaleIsNoticedAfterReverts` | no crash, edits between runs only, no command fails, each run is for all targets | `Spec => []StaleIsNoticed` |

Each hypothesis is about the environment and needed. Without the goals being
everything, or with commands that fail, the runs meta_goal and meta_fail show the
property violated, and the table of changes above shows what a content that comes
back does together with a crash.

`HistoryInv` carries the two theorems with crashes. The versions of a source are
ordered, since none comes back: a line of the file or of the backup is sound when
its hash is of a content not newer than those that the outputs which need the
source were made from. A run that is killed leaves lines cut short, which are
sound because they match nothing. `SavedIsCalculated` needs only what is in the buffer while `md5_save_md5_hashes()`
runs (`WritingInv`): `EndsWithHashes` says that the file then ends with a line for every
source, behind any number of others, and may lack the first; the last line of
a source is among these. `SavingInv` says that there is no backup to append to while
no run is killed. `ExactInv`
replaces the order of versions when contents come back: what the file records of
a source is the very content that the outputs were made from; `Clean` removes
both.

### What is only model-checked

Liveness (`Termination`, `MonitoredIsAnswered`, `RunEnds`,
`UpToDateAtLast` and the fairness of BuildOrder in `ImplementsBuildOrder`) rests
on fairness, which the prover does not reach. Every other property that a passing run
checks has a theorem. For a remodelfile that does not follow the grammar nothing is
proved of what its targets are, only that the lists are sound.

## What is not modelled

* Logging, the usage text, the time taken and the printing of the graph: no
  state of the program depends on them, except for the number of nodes that
  `print_dependency_graph()` returns, which is in DepGraph. It is called with one
  argument of two (`main.c:373`), so that the indentation is whatever a register
  holds.
* The sizes of the arrays that names and hashes are copied into (`file.c:131`,
  `maindefs.h`), and lines longer than they are.
* What is undefined and has no state to tell it by: `new_remodel_node()` without
  a return statement (`maindefs.c:53`), `getline()` with a buffer and a length
  that were never set (`md5hash.c:134`), the byte that `file_remove_extra_chars()`
  may write behind its buffer (`file.c:100`).
* malloc that fails, but for the three list heads in MainRun: the code reports it
  and then uses the pointer.
* MD5, which is taken to give different hashes to different contents.
* `queue_free()`, `queue_print_all_nodes()`, `queue_next_node()` and
  `queue_prev_node()`, which nothing calls.
* A remodelfile that is changed between runs: MetaFile keeps it the same. Only
  the contents of sources are compared, so that a new command or dependency
  alone causes no build.
* `testcases/`: about 5,300 lines of C that are input for the test scripts to
  append to, and compile: a few functions that print their name, headers, and
  thousands of lines `//changed` that the scripts have appended. Their
  remodelfiles are instances here.

## Plan

Every invariant and action property of the passing runs is proved. What could be
said next is how the modules fit together: that the list Remodelfile leaves is one
that DepGraph starts from.
