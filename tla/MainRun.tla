------------------------------ MODULE MainRun ------------------------------
(***************************************************************************)
(* main() from its arguments to its exit, on every path: what it allocates *)
(* and frees, and the signals it sends to the threads that it takes to be  *)
(* there (main.c:35-172, 270-369, threads.c:25-41).                        *)
(*                                                                         *)
(* What the parser, the hashes, the graph and the build do is the subject  *)
(* of the other modules: here each of them succeeds or fails, and leaves   *)
(* the lists that it leaves.  The nodes of the tree are left to Pruning    *)
(* and Scheduler.                                                          *)
(***************************************************************************)
EXTENDS Integers, Sequences, FiniteSets

CONSTANTS
  Input,         \* the command lines and remodelfiles a run may start from
  BUILD_THREADS, \* thread_list is declared with one slot more than this
  Slot           \* what thread_list may be indexed with, also behind its end

Outcome == {"no target", "command run", "no source", "invalid", "cyclic",
            "nothing new", "scheduled"}

(* An input: the number of arguments, the program's name included, and     *)
(* whether the one that is given asks for help; whether the remodelfile    *)
(* can be read to its end, and the lists up to there: for each target the  *)
(* number of its dependencies, and the number of sources; what DepGraph    *)
(* makes of them, and the number of build threads that it calculates,      *)
(* which is at least one (main.c:375) and has no upper bound.              *)
ASSUME MainAssumption ==
  /\ BUILD_THREADS \in Nat \ {0}
  /\ Slot \subseteq Nat /\ 0 .. BUILD_THREADS \subseteq Slot
  /\ \A in \in Input :
       /\ in.argc \in Nat \ {0} /\ in.help \in BOOLEAN /\ in.read \in BOOLEAN
       /\ in.targets \in Seq(Nat) /\ in.sources \in Nat
       /\ in.outcome \in Outcome
       /\ in.threads \in Nat \ {0} /\ 0 .. in.threads \subseteq Slot

(* Those of the slots that thread_list has                                 *)
Declared == 0 .. BUILD_THREADS

VARIABLES
  in,             \* the input
  pc,             \* where main is
  live,           \* what main and the functions it calls have allocated
  tid,            \* thread_data_t.tid, for each slot of thread_list
  total_threads,
  running,        \* the threads that have been created and not ended
  missing,        \* the threads that pthread_create could not create
  i,              \* the loop index of send_killsignal_to_threads()
  threads_alive,  \* signals sent and not yet acknowledged
  signals,        \* the signals on each queue
  current         \* the list node that is being cleaned

threadVars == <<tid, total_threads, running, missing, i, threads_alive, signals>>
vars == <<in, pc, live, threadVars, current>>

(* What is allocated, as tuples of a name and numbers                      *)
target_head == <<"target_head">>
srcfile_head == <<"srcfile_head">>
remodel_head == <<"remodel_head">>
dispatch_queue == <<"dispatch_queue">>
monitor_queue == <<"monitor_queue">>
response_queue == <<"response_queue">>
ListHead == {target_head, srcfile_head, remodel_head}
Queue == {dispatch_queue, monitor_queue, response_queue}

(* What the lists consist of, besides their heads                          *)
ListTargets == DOMAIN in.targets
TargetNodes == {<<"target", j>> : j \in ListTargets}
Commands == {<<"command", j>> : j \in ListTargets}
DependenciesOf(j) ==
  IF j = 0 THEN {} ELSE {<<"dependency", j, k>> : k \in 1 .. in.targets[j]}
Dependencies == UNION {DependenciesOf(j) : j \in ListTargets}
Sources == {<<"source", k>> : k \in 1 .. in.sources}
Object == ListHead \cup Queue \cup TargetNodes \cup Commands \cup Dependencies \cup Sources

(* thread_list has static storage, and is zero before main starts.         *)
Init ==
  /\ in \in Input
  /\ pc = "arguments"
  /\ live = {}
  /\ tid = [t \in Slot |-> 0]
  /\ total_threads = BUILD_THREADS
  /\ running = {}
  /\ missing = {}
  /\ i = 0
  /\ threads_alive = 0
  /\ signals = [q \in Queue |-> 0]
  /\ current = 0

Goto(from, to) == pc = from /\ pc' = to

-----------------------------------------------------------------------------
(* Up to the build.  A definition marked "bug" is the one below it with a  *)
(* mistake in it; no action uses it.                                       *)

CheckArguments ==
  /\ Goto("arguments", IF in.argc > 2 \/ (in.argc = 2 /\ in.help)
                       THEN "exit" ELSE "globals")
  /\ UNCHANGED <<in, live, threadVars, current>>

(* bug: the slots keep what they have.                                     *)
Unassigned == tid

NoThreads == [t \in Slot |-> IF t \in Declared THEN -1 ELSE tid[t]]

(* The heads of the lists and of the tree, any of which malloc may refuse  *)
AllocateGlobals ==
  /\ \E heads \in SUBSET ListHead :
       /\ live' = heads
       /\ Goto("globals", IF heads = ListHead THEN "read" ELSE "signal")
  /\ tid' = NoThreads
  /\ UNCHANGED <<in, total_threads, running, missing, i, threads_alive, signals, current>>

(* bug: there is nothing to clean up yet.                                  *)
ReadFailed == "exit"

AfterError == "signal"

(* file_process_remodelfile(): the productions before one that it rejects  *)
(* stay in the lists.                                                      *)
ReadRemodelfile ==
  /\ Goto("read", IF in.read THEN "graph" ELSE AfterError)
  /\ live' = live \cup TargetNodes \cup Commands \cup Dependencies \cup Sources
  /\ UNCHANGED <<in, threadVars, current>>

(* From file_get_target() to calculate_number_of_threads_needed()          *)
MakeGraph ==
  /\ \/ /\ in.outcome = "scheduled"
        /\ Goto("graph", "queues")
        /\ total_threads' = in.threads
     \/ /\ in.outcome # "scheduled"
        /\ Goto("graph", AfterError)
        /\ UNCHANGED total_threads
  /\ UNCHANGED <<in, live, tid, running, missing, i, threads_alive, signals,
                 current>>

MakeQueues ==
  /\ Goto("queues", "spawn")
  /\ live' = live \cup Queue
  /\ UNCHANGED <<in, threadVars, current>>

(* spawn_threads() gives each slot a tid and asks for its thread, the      *)
(* monitor thread's after the builders'; it does not look at whether       *)
(* pthread_create could create it.  Where there are more builders than     *)
(* BUILD_THREADS it writes behind thread_list: into memory that nobody     *)
(* uses, or into other variables.  (gcc puts dispatch_queue there.)  What  *)
(* the run does after that is undefined, and not followed.                 *)
SpawnThreads ==
  /\ pc = "spawn"
  /\ \/ pc' = "build"
     \/ total_threads \notin Declared /\ pc' = "overrun"
  /\ tid' = [t \in Slot |-> IF t <= total_threads THEN t + 1 ELSE tid[t]]
  /\ missing' \in SUBSET (0 .. total_threads)
  /\ running' = 0 .. total_threads \ missing'
  /\ UNCHANGED <<in, live, total_threads, i, threads_alive, signals, current>>

(* main_initiate_builds() returns if there is a builder to run commands,   *)
(* and a monitor thread if one is needed, and so does                      *)
(* md5_save_md5_hashes(), with or without success.                         *)
BuildAndSave ==
  /\ pc = "build"
  /\ running \ {total_threads} # {}
  /\ \/ pc' = "signal"
     \/ total_threads \in missing /\ pc' = "unanswered"
  /\ UNCHANGED <<in, live, threadVars, current>>

-----------------------------------------------------------------------------
(* send_killsignal_to_threads() *)

(* bug: the loop takes the monitor thread's slot for one more builder's.   *)
UpToMonitor(t) == t <= total_threads

IsBuilder(t) == t < total_threads

SignalBuilder ==
  /\ Goto("signal", "signal")
  /\ IsBuilder(i)
  /\ \/ /\ tid[i] # -1
        /\ threads_alive' = threads_alive + 1
        /\ signals' = [signals EXCEPT ![dispatch_queue] = @ + 1]
     \/ tid[i] = -1 /\ UNCHANGED <<threads_alive, signals>>
  /\ i' = i + 1
  /\ UNCHANGED <<in, live, tid, total_threads, running, missing, current>>

(* bug: the monitor thread is signalled on every path.                     *)
NeverSkipped == FALSE

NoThreadsCreated == threads_alive = 0

SignalMonitor ==
  /\ ~IsBuilder(i)
  /\ \/ /\ NoThreadsCreated
        /\ Goto("signal", "queues to free")
        /\ UNCHANGED <<threads_alive, signals>>
     \/ /\ ~NoThreadsCreated
        /\ Goto("signal", "await")
        /\ threads_alive' = threads_alive + 1
        /\ signals' = [signals EXCEPT ![monitor_queue] = @ + 1]
  /\ UNCHANGED <<in, live, tid, total_threads, running, missing, i, current>>

(* A thread takes a signal off its queue, acknowledges it and ends.        *)
EndThread(t) ==
  LET q == IF t = total_threads THEN monitor_queue ELSE dispatch_queue
  IN  /\ t \in running
      /\ signals[q] > 0
      /\ signals' = [signals EXCEPT ![q] = @ - 1, ![response_queue] = @ + 1]
      /\ running' = running \ {t}
      /\ UNCHANGED <<in, pc, live, tid, total_threads, missing, i, threads_alive,
                     current>>

TakeAck ==
  /\ pc = "await" /\ threads_alive > 0
  /\ signals[response_queue] > 0
  /\ signals' = [signals EXCEPT ![response_queue] = @ - 1]
  /\ threads_alive' = threads_alive - 1
  /\ UNCHANGED <<in, pc, live, tid, total_threads, running, missing, i, current>>

AllAcknowledged ==
  /\ threads_alive = 0
  /\ Goto("await", "queues to free")
  /\ UNCHANGED <<in, live, threadVars, current>>

-----------------------------------------------------------------------------
(* Cleaning up: FREE does nothing with a null pointer, and neither do the  *)
(* functions for the lists with a list that has no head.                   *)

CleanQueues ==
  /\ Goto("queues to free", "targets to free")
  /\ live' = live \ Queue
  /\ current' = 0
  /\ UNCHANGED <<in, threadVars>>

(* A turn of the loop of clean_target_list(), which starts at the head and *)
(* frees the dependencies of each target                                   *)
CleanTarget ==
  /\ pc = "targets to free" /\ target_head \in live
  /\ current <= Len(in.targets)
  /\ live' = live \ DependenciesOf(current)
  /\ current' = current + 1
  /\ UNCHANGED <<in, pc, threadVars>>

CleanTargetHead ==
  /\ Goto("targets to free", "sources to free")
  /\ target_head \in live => current > Len(in.targets)
  /\ live' = live \ {target_head}
  /\ current' = 1
  /\ UNCHANGED <<in, threadVars>>

(* A turn of the loop of clean_srcfile_list(), which starts after the head *)
CleanSource ==
  /\ pc = "sources to free" /\ srcfile_head \in live
  /\ current <= in.sources
  /\ live' = live \ {<<"source", current>>}
  /\ current' = current + 1
  /\ UNCHANGED <<in, pc, threadVars>>

CleanSourceHead ==
  /\ Goto("sources to free", "exit")
  /\ srcfile_head \in live => current > in.sources
  /\ live' = live \ {srcfile_head}
  /\ UNCHANGED <<in, threadVars, current>>

MainStep ==
  \/ CheckArguments \/ AllocateGlobals \/ ReadRemodelfile \/ MakeGraph
  \/ MakeQueues \/ SpawnThreads \/ BuildAndSave
  \/ SignalBuilder \/ SignalMonitor \/ TakeAck \/ AllAcknowledged
  \/ CleanQueues \/ CleanTarget \/ CleanTargetHead
  \/ CleanSource \/ CleanSourceHead

Next == MainStep \/ \E t \in Slot : EndThread(t)

(* The system stops neither main nor a thread for ever.                    *)
Spec ==
  /\ Init /\ [][Next]_vars
  /\ WF_vars(MainStep)
  /\ \A t \in Slot : WF_vars(EndThread(t))

-----------------------------------------------------------------------------
(* Properties *)

TypeOK ==
  /\ live \subseteq Object
  /\ tid \in [Slot -> Int]
  /\ total_threads \in Nat \ {0}
  /\ running \subseteq 0 .. total_threads
  /\ missing \subseteq 0 .. total_threads
  /\ i \in 0 .. total_threads
  /\ threads_alive \in 0 .. total_threads + 1
  /\ signals \in [Queue -> Nat]
  /\ current \in Nat

(* The threads that have been asked for and have not ended, as far as main *)
(* can tell                                                                *)
Expected == running \cup missing

(* send_killsignal_to_threads() is called on every path that leads to the  *)
(* end of main, with and without queues and threads, and goes by tid only. *)
(* It has a signal for every builder that runs, and for the monitor        *)
(* thread; the others are one for each thread that could not be created,   *)
(* which nobody will read.  No signal is for a queue that does not exist,  *)
(* and no queue is freed with a signal on it, or while a thread polls it,  *)
(* or when a thread is missing: main then waits for ever.                  *)
SignalsMatchThreads ==
  LET builders == Expected \ {total_threads}
      toSignal == {t \in Slot : i <= t /\ t < total_threads /\ tid[t] # -1}
  IN  /\ pc = "signal" =>
           /\ toSignal # {} => Queue \subseteq live
           /\ Cardinality(builders) = signals[dispatch_queue] + Cardinality(toSignal)
      /\ pc = "await" =>
           /\ Cardinality(builders) = signals[dispatch_queue]
           /\ signals[monitor_queue] = IF total_threads \in Expected THEN 1 ELSE 0
      /\ \A q \in Queue : signals[q] > 0 => q \in live
      /\ Expected # {} => Queue \subseteq live

(* On whatever path main comes to its end, and however much of the         *)
(* remodelfile was read, the queues, the dependencies, the sources and the *)
(* heads of both lists have been freed.  (The targets and their commands   *)
(* never are.)                                                             *)
FreesLists ==
  pc = "exit" =>
    live \cap (Queue \cup Dependencies \cup Sources
                 \cup {target_head, srcfile_head}) = {}

(* A run ends, on every path: on those without threads main waits for no   *)
(* acknowledgement, on the others it gets one for each signal.  The only   *)
(* exceptions are a thread that could not be created, for whose answer or  *)
(* acknowledgement main waits for ever (SignalsMatchThreads), and memory   *)
(* overwritten behind thread_list.                                         *)
RunEnds == <>(pc \in {"exit", "overrun"} \/ missing # {})
=============================================================================
