---------------------------- MODULE MainRunProofs ----------------------------
(***************************************************************************)
(* What MainRun promises, for every command line, every remodelfile and    *)
(* every number of threads.                                                *)
(***************************************************************************)
EXTENDS MainRun, FiniteSetTheorems, TLAPS

-----------------------------------------------------------------------------
(* The inductive invariant *)

(* Main before it has threads, and after the last of them has ended.       *)
BeforeThreads == {"arguments", "globals", "read", "graph", "queues", "spawn"}
WithThreads == {"build", "overrun", "unanswered", "signal", "await"}
AfterThreads == {"queues to free", "targets to free", "sources to free", "exit"}

NothingRuns ==
  Expected = {} /\ threads_alive = 0 /\ signals = [q \in Queue |-> 0]
HasTids == \A t \in 0 .. total_threads : tid[t] # -1
HasNone == \A t \in Declared : tid[t] = -1
Builders == Expected \ {total_threads}

(* A signal for a builder is on the dispatch queue, or a builder has ended *)
(* and the acknowledgement is on the response queue.  A thread that could  *)
(* not be created is one that never ends.                                  *)
Signalling ==
  /\ Queue \subseteq live
  /\ HasTids
  /\ total_threads \in Expected
  /\ threads_alive = i
  /\ signals[monitor_queue] = 0
  /\ signals[dispatch_queue] + signals[response_queue] = i
  /\ Cardinality(Builders) + signals[response_queue] = total_threads

Awaiting ==
  /\ Queue \subseteq live
  /\ signals[monitor_queue] = IF total_threads \in Expected THEN 1 ELSE 0
  /\ signals[dispatch_queue] = Cardinality(Builders)
  /\ signals[dispatch_queue] + signals[monitor_queue] + signals[response_queue]
       = threads_alive

ThreadInv ==
  /\ pc \in BeforeThreads => NothingRuns /\ i = 0
  /\ running \cap missing = {}
  /\ total_threads = BUILD_THREADS \/ total_threads = in.threads
  /\ pc \in BeforeThreads \ {"spawn", "queues"} => total_threads = BUILD_THREADS
  /\ pc \in {"read", "graph"} => HasNone
  /\ pc = "spawn" => Queue \subseteq live
  /\ pc \in {"build", "overrun", "unanswered"} => Signalling /\ i = 0
  /\ pc = "signal" =>
       Signalling \/ (NothingRuns /\ HasNone /\ total_threads = BUILD_THREADS)
  /\ pc = "await" => Awaiting
  /\ pc \in AfterThreads => NothingRuns

(* There is nothing of a list without its head, and the cleaning up goes   *)
(* through the lists from the front.                                       *)
ListInv ==
  /\ pc \in {"arguments", "globals"} => live = {}
  /\ pc = "read" => ListHead \subseteq live
  /\ pc \notin {"sources to free", "exit"} /\ target_head \notin live
       => live \cap Dependencies = {}
  /\ pc # "exit" /\ srcfile_head \notin live => live \cap Sources = {}
  /\ pc \in {"targets to free", "sources to free", "exit"} => live \cap Queue = {}
  /\ pc = "targets to free" =>
       \A j \in ListTargets : j < current => live \cap DependenciesOf(j) = {}
  /\ pc \in {"sources to free", "exit"} =>
       live \cap Dependencies = {} /\ target_head \notin live
  /\ pc = "sources to free" =>
       \A k \in 1 .. in.sources : k < current => <<"source", k>> \notin live
  /\ pc = "exit" => live \cap Sources = {} /\ srcfile_head \notin live

MainInv ==
  /\ in \in Input
  /\ pc \in BeforeThreads \cup WithThreads \cup AfterThreads
  /\ ThreadInv
  /\ ListInv

-----------------------------------------------------------------------------
(* What the model's sets are *)

LEMMA Inputs ==
  ASSUME in \in Input
  PROVE  /\ in.targets \in Seq(Nat) /\ in.sources \in Nat
         /\ in.threads \in Nat \ {0} /\ 0 .. in.threads \subseteq Slot
         /\ ListTargets = 1 .. Len(in.targets) /\ Len(in.targets) \in Nat
BY MainAssumption DEF ListTargets

LEMMA ObjectsDiffer ==
  /\ target_head # srcfile_head
  /\ {target_head, srcfile_head} \cap (Queue \cup Dependencies \cup Sources) = {}
  /\ Queue \cap (Dependencies \cup Sources) = {}
  /\ Dependencies \cap Sources = {}
  /\ \A j \in Nat : DependenciesOf(j) \cap {target_head, srcfile_head} = {}
  /\ \A k \in Nat : <<"source", k>> \notin {target_head, srcfile_head}
  /\ dispatch_queue # monitor_queue /\ dispatch_queue # response_queue
  /\ monitor_queue # response_queue
<1> USE DEF target_head, srcfile_head, dispatch_queue, monitor_queue, response_queue
<1>1. \A x \in Dependencies : \E j, k : x = <<"dependency", j, k>>
  BY DEF Dependencies, DependenciesOf
<1>2. \A x \in Sources : \E k : x = <<"source", k>>
  BY DEF Sources
<1>3. \A j \in Nat : \A x \in DependenciesOf(j) : \E k : x = <<"dependency", j, k>>
  BY DEF DependenciesOf
<1>4. \A j, k : <<"dependency", j, k>> \notin Queue \cup {target_head, srcfile_head}
  BY DEF Queue
<1>5. \A k : <<"source", k>> \notin Queue \cup {target_head, srcfile_head}
  BY DEF Queue
<1>6. \A j, k, m : <<"dependency", j, k>> # <<"source", m>>
  OBVIOUS
<1>7. {target_head, srcfile_head} \cap Queue = {}
  BY DEF Queue
<1>8. dispatch_queue # monitor_queue /\ dispatch_queue # response_queue
      /\ monitor_queue # response_queue /\ target_head # srcfile_head
  OBVIOUS
<1> HIDE DEF target_head, srcfile_head, dispatch_queue, monitor_queue, response_queue
<1> QED BY <1>1, <1>2, <1>3, <1>4, <1>5, <1>6, <1>7, <1>8

(* A builder that ends is one less.                                        *)
LEMMA CountBuilders ==
  ASSUME total_threads \in Nat, Expected \subseteq 0 .. total_threads
  PROVE  /\ IsFiniteSet(Builders)
         /\ Cardinality(Builders) \in Nat
         /\ Cardinality(Builders) = 0 => Builders = {}
         /\ \A t \in Builders : Cardinality(Builders \ {t}) = Cardinality(Builders) - 1
<1>1. IsFiniteSet(0 .. total_threads)
  BY FS_Interval
<1>2. Builders \subseteq 0 .. total_threads
  BY DEF Builders
<1>3. IsFiniteSet(Builders)
  BY <1>1, <1>2, FS_Subset
<1> QED BY <1>3, FS_CardinalityType, FS_EmptySet, FS_RemoveElement

LEMMA MainInit == Init => TypeOK /\ MainInv
<1> SUFFICES ASSUME Init PROVE TypeOK /\ MainInv
  OBVIOUS
<1>1. TypeOK
  BY MainAssumption DEF Init, TypeOK
<1>2. ThreadInv
  BY DEF Init, ThreadInv, BeforeThreads, AfterThreads, NothingRuns, Expected
<1>3. ListInv
  BY DEF Init, ListInv
<1> QED BY <1>1, <1>2, <1>3 DEF Init, MainInv, BeforeThreads

-----------------------------------------------------------------------------
(* Threads and signals *)

LEMMA SignalBuilderStep ==
  ASSUME TypeOK, MainInv, SignalBuilder
  PROVE  TypeOK' /\ ThreadInv'
<1> USE MainAssumption, ObjectsDiffer DEF TypeOK
<1>1. /\ pc = "signal" /\ pc' = "signal" /\ i < total_threads /\ i' = i + 1
      /\ UNCHANGED <<live, tid, total_threads, running, missing, current, in>>
  BY DEF SignalBuilder, Goto, IsBuilder
<1>2. i \in 0 .. total_threads /\ UNCHANGED Expected
  BY <1>1 DEF Expected
<1>3. CASE Signalling
  <2>1. tid[i] # -1
    BY <1>2, <1>3 DEF Signalling, HasTids
  <2>2. threads_alive' = threads_alive + 1
        /\ signals' = [signals EXCEPT ![dispatch_queue] = @ + 1]
    BY <2>1 DEF SignalBuilder
  <2>3. signals' \in [Queue -> Nat] /\ dispatch_queue \in Queue
        /\ monitor_queue \in Queue /\ response_queue \in Queue
    BY <2>2 DEF Queue
  <2>4. signals'[dispatch_queue] = signals[dispatch_queue] + 1
        /\ signals'[monitor_queue] = signals[monitor_queue]
        /\ signals'[response_queue] = signals[response_queue]
    BY <2>2, <2>3
  <2>5. Signalling'
    BY <1>1, <1>2, <1>3, <2>2, <2>3, <2>4 DEF Signalling, HasTids, Builders
  <2>6. TypeOK'
    BY <1>1, <1>3, <2>2, <2>3 DEF Signalling, Object, Dependencies, Sources,
       TargetNodes, Commands, ListTargets, DependenciesOf
  <2> QED BY <1>1, <2>5, <2>6 DEF ThreadInv, MainInv, BeforeThreads, AfterThreads
<1>4. CASE NothingRuns /\ HasNone /\ total_threads = BUILD_THREADS
  <2>1. tid[i] = -1
    BY <1>2, <1>4 DEF HasNone, Declared
  <2>2. UNCHANGED <<threads_alive, signals>>
    BY <2>1 DEF SignalBuilder
  <2>3. TypeOK'
    BY <1>1, <2>2 DEF Object, Dependencies, Sources,
       TargetNodes, Commands, ListTargets, DependenciesOf
  <2> QED BY <1>1, <1>2, <1>4, <2>2, <2>3
             DEF ThreadInv, MainInv, NothingRuns, HasNone, BeforeThreads, AfterThreads
<1> QED BY <1>1, <1>3, <1>4 DEF MainInv, ThreadInv

LEMMA SignalMonitorStep ==
  ASSUME TypeOK, MainInv, SignalMonitor
  PROVE  TypeOK' /\ ThreadInv'
<1> USE MainAssumption, ObjectsDiffer DEF TypeOK
<1>1. /\ pc = "signal" /\ i = total_threads
      /\ UNCHANGED <<live, tid, total_threads, running, missing, current, in, i>>
  <2>1. /\ pc = "signal" /\ ~(i < total_threads)
        /\ UNCHANGED <<live, tid, total_threads, running, missing, current, in, i>>
    BY DEF SignalMonitor, Goto, IsBuilder
  <2> QED BY <2>1
<1>2. live' \subseteq Object' /\ UNCHANGED Expected
  BY <1>1 DEF Object, Dependencies, Sources, TargetNodes, Commands, ListTargets,
              DependenciesOf, Expected
<1>3. CASE Signalling
  <2>1. threads_alive # 0
    BY <1>1, <1>3 DEF Signalling
  <2>2. /\ pc' = "await" /\ threads_alive' = threads_alive + 1
        /\ signals' = [signals EXCEPT ![monitor_queue] = @ + 1]
    BY <2>1 DEF SignalMonitor, NoThreadsCreated, Goto
  <2>3. signals' \in [Queue -> Nat] /\ dispatch_queue \in Queue
        /\ monitor_queue \in Queue /\ response_queue \in Queue
    BY <2>2 DEF Queue
  <2>4. signals'[dispatch_queue] = signals[dispatch_queue]
        /\ signals'[monitor_queue] = signals[monitor_queue] + 1
        /\ signals'[response_queue] = signals[response_queue]
    BY <2>2, <2>3
  <2>7. Cardinality(Builders) \in Nat
    BY CountBuilders DEF Expected
  <2>5. Awaiting'
    BY <1>1, <1>2, <1>3, <2>2, <2>3, <2>4, <2>7 DEF Signalling, Awaiting, Builders
  <2>6. TypeOK'
    BY <1>1, <1>2, <1>3, <2>2, <2>3 DEF Signalling
  <2> QED BY <1>1, <2>2, <2>5, <2>6 DEF ThreadInv, MainInv, BeforeThreads, AfterThreads
<1>4. CASE NothingRuns /\ HasNone /\ total_threads = BUILD_THREADS
  <2>1. pc' = "queues to free" /\ UNCHANGED <<threads_alive, signals>>
    BY <1>4 DEF SignalMonitor, NoThreadsCreated, NothingRuns, Goto
  <2> QED BY <1>1, <1>2, <1>4, <2>1
             DEF ThreadInv, MainInv, NothingRuns, BeforeThreads, AfterThreads
<1> QED BY <1>1, <1>3, <1>4 DEF MainInv, ThreadInv

LEMMA EndThreadStep ==
  ASSUME TypeOK, MainInv, NEW t \in Slot, EndThread(t)
  PROVE  TypeOK' /\ ThreadInv'
<1> USE MainAssumption, ObjectsDiffer DEF TypeOK
<1> DEFINE q == IF t = total_threads THEN monitor_queue ELSE dispatch_queue
<1>1. /\ t \in running /\ signals[q] > 0
      /\ signals' = [signals EXCEPT ![q] = @ - 1, ![response_queue] = @ + 1]
      /\ running' = running \ {t}
      /\ UNCHANGED <<in, pc, live, tid, total_threads, missing, i, threads_alive,
                     current>>
  BY DEF EndThread
<1>2. q \in Queue /\ response_queue \in Queue /\ q # response_queue
      /\ dispatch_queue \in Queue /\ monitor_queue \in Queue
  BY DEF Queue
<1>3. /\ signals' \in [Queue -> Nat]
      /\ signals'[q] = signals[q] - 1
      /\ signals'[response_queue] = signals[response_queue] + 1
      /\ \A p \in Queue \ {q, response_queue} : signals'[p] = signals[p]
  <2>1. signals \in [Queue -> Nat] /\ signals[q] - 1 \in Nat /\ signals[response_queue] + 1 \in Nat
    <3>1. signals \in [Queue -> Nat]
      OBVIOUS
    <3>2. signals[q] \in Nat /\ signals[response_queue] \in Nat /\ signals[q] > 0
      BY ONLY <1>1, <1>2, <3>1
    <3> QED BY ONLY <3>1, <3>2
  <2> HIDE DEF q
  <2> QED BY ONLY <1>1, <1>2, <2>1
<1>4. TypeOK'
  BY <1>1, <1>3 DEF Object, Dependencies, Sources, TargetNodes, Commands, ListTargets,
                    DependenciesOf
<1>8. t \in Expected /\ Expected' = Expected \ {t} /\ running' \cap missing' = {}
  BY <1>1 DEF Expected, MainInv, ThreadInv
<1>5. pc \in {"signal", "await"} /\ (pc = "signal" => Signalling)
  BY <1>1, <1>2, <1>8
     DEF MainInv, ThreadInv, NothingRuns, Signalling, BeforeThreads, WithThreads
<1>6. CASE t = total_threads
  <2>1. pc = "await" /\ Awaiting
    BY <1>1, <1>5, <1>6 DEF Signalling, MainInv, ThreadInv
  <2>2. Builders' = Builders /\ total_threads \notin Expected'
    BY <1>1, <1>6, <1>8 DEF Builders
  <2>3. Awaiting'
    BY SMTT(20), <1>1, <1>2, <1>3, <1>6, <1>8, <2>1, <2>2 DEF Awaiting
  <2> QED BY <1>1, <1>4, <1>8, <2>1, <2>3
             DEF ThreadInv, MainInv, BeforeThreads, AfterThreads
<1>7. CASE t # total_threads
  <2>1. Builders' = Builders \ {t} /\ t \in Builders
        /\ (total_threads \in Expected' <=> total_threads \in Expected)
    BY <1>1, <1>7, <1>8 DEF Builders
  <2>2. Cardinality(Builders') = Cardinality(Builders) - 1
        /\ Cardinality(Builders) \in Nat
    BY <2>1, CountBuilders DEF Expected
  <2>5. signals'[dispatch_queue] = signals[dispatch_queue] - 1
        /\ signals'[monitor_queue] = signals[monitor_queue]
        /\ signals'[response_queue] = signals[response_queue] + 1
    BY <1>2, <1>3, <1>7
  <2>6. signals[dispatch_queue] \in Nat /\ signals[response_queue] \in Nat
        /\ signals[monitor_queue] \in Nat
    BY <1>2
  <2>3. CASE pc = "signal"
    <3>1. Signalling'
      <4>1. Cardinality(Builders)' + signals'[response_queue] = total_threads'
        <5>1. Cardinality(Builders) + signals[response_queue] = total_threads
              /\ total_threads' = total_threads
          BY <1>1, <1>5, <2>3 DEF Signalling
        <5>2. total_threads \in Nat
          OBVIOUS
        <5> QED BY ONLY <2>2, <2>5, <2>6, <5>1, <5>2
      <4>2. signals'[dispatch_queue] + signals'[response_queue] = i'
        <5>1. signals[dispatch_queue] + signals[response_queue] = i /\ i' = i
          BY <1>1, <1>5, <2>3 DEF Signalling
        <5> QED BY ONLY <2>5, <2>6, <5>1
      <4>3. HasTids'
        BY <1>1, <1>5, <2>3 DEF Signalling, HasTids
      <4>4. Queue \subseteq live' /\ total_threads' \in Expected'
            /\ threads_alive' = i' /\ signals'[monitor_queue] = 0
        BY <1>1, <1>5, <2>1, <2>3, <2>5 DEF Signalling
      <4> QED BY <4>1, <4>2, <4>3, <4>4 DEF Signalling
    <3> QED BY <1>1, <1>4, <1>8, <2>3, <3>1
               DEF ThreadInv, MainInv, BeforeThreads, AfterThreads
  <2>4. CASE pc = "await"
    <3>1. Awaiting
      BY <2>4 DEF MainInv, ThreadInv
    <3>2. Awaiting'
      <4>1. signals'[dispatch_queue] = Cardinality(Builders)'
        BY <1>1, <2>2, <2>5, <3>1 DEF Awaiting
      <4>2. signals'[dispatch_queue] + signals'[monitor_queue]
              + signals'[response_queue] = threads_alive'
        <5>1. signals[dispatch_queue] + signals[monitor_queue]
                + signals[response_queue] = threads_alive
              /\ threads_alive' = threads_alive
          BY <1>1, <3>1 DEF Awaiting
        <5> QED BY ONLY <2>5, <2>6, <5>1
      <4>3. Queue \subseteq live'
            /\ signals'[monitor_queue] = IF total_threads' \in Expected' THEN 1 ELSE 0
        BY <1>1, <2>1, <2>5, <3>1 DEF Awaiting
      <4> QED BY <4>1, <4>2, <4>3 DEF Awaiting
    <3> QED BY <1>1, <1>4, <1>8, <2>4, <3>2
               DEF ThreadInv, MainInv, BeforeThreads, AfterThreads
  <2> QED BY <1>5, <2>3, <2>4
<1> QED BY <1>6, <1>7

LEMMA AwaitStep ==
  ASSUME TypeOK, MainInv, TakeAck \/ AllAcknowledged
  PROVE  TypeOK' /\ ThreadInv'
<1> USE MainAssumption, ObjectsDiffer DEF TypeOK
<1>1. /\ pc = "await" /\ Awaiting
      /\ UNCHANGED <<live, tid, total_threads, running, missing, current, in, i>>
  BY DEF TakeAck, AllAcknowledged, threadVars, Goto, MainInv, ThreadInv
<1>2. live' \subseteq Object' /\ UNCHANGED Expected
  BY <1>1 DEF Object, Dependencies, Sources, TargetNodes, Commands, ListTargets,
              DependenciesOf, Expected
<1>3. dispatch_queue \in Queue /\ monitor_queue \in Queue /\ response_queue \in Queue
  BY DEF Queue
<1>4. CASE TakeAck
  <2>1. /\ pc' = "await" /\ threads_alive' = threads_alive - 1 /\ threads_alive > 0
        /\ signals[response_queue] > 0
        /\ signals' = [signals EXCEPT ![response_queue] = @ - 1]
    BY <1>4 DEF TakeAck
  <2>2. signals' \in [Queue -> Nat]
        /\ signals'[dispatch_queue] = signals[dispatch_queue]
        /\ signals'[monitor_queue] = signals[monitor_queue]
        /\ signals'[response_queue] = signals[response_queue] - 1
    BY <1>3, <2>1
  <2>3. signals[dispatch_queue] \in Nat /\ signals[response_queue] \in Nat
        /\ signals[monitor_queue] \in Nat
    BY <1>3
  <2>4. signals[dispatch_queue] + signals[monitor_queue] + signals[response_queue]
          = threads_alive /\ threads_alive' = threads_alive - 1
    BY <1>1, <2>1 DEF Awaiting
  <2>5. signals'[dispatch_queue] + signals'[monitor_queue] + signals'[response_queue]
          = threads_alive'
    BY ONLY <2>2, <2>3, <2>4
  <2>6. Awaiting'
    BY <1>1, <1>2, <2>2, <2>5 DEF Awaiting, Builders
  <2> QED BY <1>1, <1>2, <2>1, <2>2, <2>6
             DEF ThreadInv, MainInv, BeforeThreads, AfterThreads
<1>5. CASE AllAcknowledged
  <2>1. /\ pc' = "queues to free" /\ threads_alive = 0
        /\ UNCHANGED <<threads_alive, signals>>
    BY <1>5 DEF AllAcknowledged, Goto, threadVars
  <2>2. signals[dispatch_queue] \in Nat /\ signals[response_queue] \in Nat
        /\ signals[monitor_queue] \in Nat
    BY <1>3
  <2>3. signals[dispatch_queue] + signals[monitor_queue] + signals[response_queue] = 0
    BY <1>1, <2>1 DEF Awaiting
  <2>4. signals[dispatch_queue] = 0 /\ signals[monitor_queue] = 0
        /\ signals[response_queue] = 0
    <3>1. \A a, b, c \in Nat : a + b + c = 0 => a = 0 /\ b = 0 /\ c = 0
      OBVIOUS
    <3> QED BY ONLY <2>2, <2>3, <3>1
  <2>5. signals = [q \in Queue |-> 0]
    BY <2>4 DEF Queue
  <2>6. Builders = {} /\ total_threads \notin Expected
    <3>1. Cardinality(Builders) = 0 /\ total_threads \notin Expected
      BY <1>1, <2>4 DEF Awaiting
    <3> QED BY <3>1, CountBuilders DEF Expected
  <2>8. Expected = {}
    BY <2>6 DEF Builders
  <2>7. NothingRuns
    BY <2>1, <2>5, <2>8 DEF NothingRuns
  <2> QED BY <1>1, <1>2, <2>1, <2>7
             DEF ThreadInv, MainInv, NothingRuns, BeforeThreads, AfterThreads
<1> QED BY <1>4, <1>5

LEMMA SpawnStep ==
  ASSUME TypeOK, MainInv, SpawnThreads
  PROVE  TypeOK' /\ ThreadInv'
<1> USE MainAssumption DEF TypeOK
<1>1. /\ pc = "spawn" /\ pc' \in {"build", "overrun"}
      /\ tid' = [t \in Slot |-> IF t <= total_threads THEN t + 1 ELSE tid[t]]
      /\ missing' \in SUBSET (0 .. total_threads)
      /\ running' = 0 .. total_threads \ missing'
      /\ UNCHANGED <<in, live, total_threads, i, threads_alive, signals, current>>
  BY DEF SpawnThreads
<1>2. NothingRuns /\ i = 0 /\ Queue \subseteq live
  BY <1>1 DEF MainInv, ThreadInv, BeforeThreads
<1>3. live' \subseteq Object'
  BY <1>1 DEF Object, Dependencies, Sources, TargetNodes, Commands, ListTargets,
              DependenciesOf
<1>4. tid' \in [Slot -> Int] /\ HasTids'
  <2>1. \A t \in Slot : t \in Nat /\ t + 1 # -1 /\ tid[t] \in Int
    OBVIOUS
  <2>2. tid' \in [Slot -> Int]
    BY <1>1, <2>1
  <2>3. 0 .. total_threads \subseteq Slot
    BY Inputs DEF MainInv, ThreadInv
  <2>4. \A t \in 0 .. total_threads : t <= total_threads
    OBVIOUS
  <2>5. \A t \in 0 .. total_threads : tid'[t] = t + 1
    BY <1>1, <2>3, <2>4
  <2> QED BY <1>1, <2>1, <2>2, <2>3, <2>5 DEF HasTids
<1>5. Expected' = 0 .. total_threads /\ running' \cap missing' = {}
  BY <1>1 DEF Expected
<1>6. Builders' = 0 .. total_threads - 1
  BY <1>1, <1>5 DEF Builders
<1>7. Cardinality(0 .. total_threads - 1) = total_threads
  BY FS_Interval
<1>8. signals'[dispatch_queue] = 0 /\ signals'[monitor_queue] = 0
      /\ signals'[response_queue] = 0
  BY <1>1, <1>2 DEF NothingRuns, Queue
<1>9. Cardinality(Builders)' + signals'[response_queue] = total_threads'
  BY <1>1, <1>6, <1>7, <1>8
<1>10. Signalling'
  BY <1>1, <1>2, <1>4, <1>5, <1>8, <1>9 DEF Signalling, NothingRuns
<1>11. TypeOK'
  BY <1>1, <1>3, <1>4
<1> QED
  BY <1>1, <1>2, <1>5, <1>10, <1>11
     DEF ThreadInv, MainInv, NothingRuns, BeforeThreads, AfterThreads

(* The steps that neither send nor take a signal nor change a thread       *)
LEMMA OtherStep ==
  ASSUME TypeOK, MainInv,
         \/ CheckArguments \/ AllocateGlobals \/ ReadRemodelfile \/ MakeGraph
         \/ MakeQueues \/ BuildAndSave
         \/ CleanQueues \/ CleanTarget \/ CleanTargetHead
         \/ CleanSource \/ CleanSourceHead
  PROVE  TypeOK' /\ ThreadInv'
<1> USE MainAssumption DEF TypeOK
<1>1. UNCHANGED <<in, running, missing, Expected, i, threads_alive, signals>>
  BY DEF CheckArguments, AllocateGlobals, ReadRemodelfile, MakeGraph,
         MakeQueues, BuildAndSave, CleanQueues, CleanTarget, CleanTargetHead,
         CleanSource, CleanSourceHead, threadVars, Expected
<1>2. UNCHANGED <<Object, Queue, ListHead, TargetNodes, Commands, Dependencies, Sources>>
  BY <1>1 DEF Object, TargetNodes, Commands, Dependencies, Sources, ListTargets,
              DependenciesOf
<1>3. live' \subseteq Object
  BY DEF CheckArguments, AllocateGlobals, ReadRemodelfile, MakeGraph,
         MakeQueues, BuildAndSave, CleanQueues, CleanTarget, CleanTargetHead,
         CleanSource, CleanSourceHead, Object
<1>4. current' \in Nat
  <2>1. current' \in {current, current + 1, 0, 1}
    BY DEF CheckArguments, AllocateGlobals, ReadRemodelfile, MakeGraph,
           MakeQueues, BuildAndSave, CleanQueues, CleanTarget, CleanTargetHead,
           CleanSource, CleanSourceHead
  <2> QED BY <2>1
<1>5. CASE CheckArguments \/ AllocateGlobals
  <2>1. UNCHANGED total_threads /\ tid' \in [Slot -> Int]
        /\ (pc' \in {"read", "signal"} => HasNone')
    <3>1. CASE CheckArguments
      BY <3>1 DEF CheckArguments, threadVars, Goto
    <3>2. CASE AllocateGlobals
      <4>1. tid' = [t \in Slot |-> IF t \in Declared THEN -1 ELSE tid[t]]
            /\ UNCHANGED total_threads
        BY <3>2 DEF AllocateGlobals, NoThreads
      <4>2. Declared \subseteq Slot
        BY DEF Declared
      <4> QED BY <4>1, <4>2 DEF HasNone
    <3> QED BY <1>5, <3>1, <3>2
  <2>2. NothingRuns /\ i = 0 /\ total_threads = BUILD_THREADS
    BY <1>5 DEF CheckArguments, AllocateGlobals, Goto, MainInv, ThreadInv, BeforeThreads
  <2>3. pc' \in {"exit", "globals", "read", "signal"}
    BY <1>5 DEF CheckArguments, AllocateGlobals, Goto
  <2> QED BY <1>1, <1>2, <1>3, <1>4, <2>1, <2>2, <2>3
             DEF ThreadInv, MainInv, NothingRuns, BeforeThreads, AfterThreads
<1>6. CASE ReadRemodelfile \/ MakeGraph \/ MakeQueues
  <2>1. total_threads' \in Nat \ {0} /\ UNCHANGED tid
        /\ (total_threads' = BUILD_THREADS \/ total_threads' = in.threads)
        /\ (pc' \in {"graph", "signal"} => total_threads' = BUILD_THREADS)
    BY <1>6, Inputs DEF ReadRemodelfile, MakeGraph, MakeQueues, threadVars, MainInv,
                        ThreadInv, Goto, BeforeThreads
  <2>2. NothingRuns /\ i = 0 /\ (pc' \in {"graph", "signal"} => HasNone)
    BY <1>6 DEF ReadRemodelfile, MakeGraph, MakeQueues, Goto, MainInv, ThreadInv,
                BeforeThreads
  <2>3. \/ pc' \in {"graph", "queues", "signal"}
        \/ pc' = "spawn" /\ Queue \subseteq live'
    BY <1>6 DEF ReadRemodelfile, MakeGraph, MakeQueues, Goto, AfterError
  <2>4. i' \in 0 .. total_threads' /\ threads_alive' \in 0 .. total_threads' + 1
    <3>1. i' = 0 /\ threads_alive' = 0
      BY <1>1, <2>2 DEF NothingRuns
    <3>2. total_threads' \in Nat
      BY <2>1
    <3>3. \A n \in Nat : 0 \in 0 .. n /\ 0 \in 0 .. n + 1
      OBVIOUS
    <3> QED BY ONLY <3>1, <3>2, <3>3
  <2>5. running' = {} /\ missing' = {}
    BY <1>1, <2>2 DEF NothingRuns, Expected
  <2> QED BY <1>1, <1>2, <1>3, <1>4, <2>1, <2>2, <2>3, <2>4, <2>5
             DEF ThreadInv, MainInv, NothingRuns, HasNone, BeforeThreads, AfterThreads
<1>7. CASE BuildAndSave
  <2>1. pc = "build" /\ pc' \in {"signal", "unanswered"}
        /\ UNCHANGED <<live, tid, total_threads>>
    BY <1>7 DEF BuildAndSave, threadVars
  <2>2. Signalling /\ i = 0
    BY <2>1 DEF MainInv, ThreadInv
  <2>3. Signalling'
    BY <1>1, <2>1, <2>2 DEF Signalling, HasTids, Builders
  <2> QED BY <1>1, <1>2, <1>3, <1>4, <2>1, <2>2, <2>3
             DEF ThreadInv, MainInv, BeforeThreads, AfterThreads
<1>8. CASE CleanQueues \/ CleanTarget \/ CleanTargetHead
             \/ CleanSource \/ CleanSourceHead
  <2>1. UNCHANGED <<tid, total_threads>> /\ pc \in AfterThreads /\ pc' \in AfterThreads
    BY <1>8 DEF CleanQueues, CleanTarget, CleanTargetHead, CleanSource,
                CleanSourceHead, Goto, threadVars, AfterThreads
  <2>2. NothingRuns
    BY <2>1 DEF MainInv, ThreadInv
  <2> QED BY <1>1, <1>2, <1>3, <1>4, <2>1, <2>2
             DEF ThreadInv, MainInv, NothingRuns, BeforeThreads, AfterThreads
<1> QED BY <1>5, <1>6, <1>7, <1>8

-----------------------------------------------------------------------------
(* Lists *)

LEMMA ListBuildStep ==
  ASSUME TypeOK, MainInv,
         \/ CheckArguments \/ AllocateGlobals \/ ReadRemodelfile \/ MakeGraph
         \/ MakeQueues \/ SpawnThreads \/ BuildAndSave
         \/ SignalBuilder \/ SignalMonitor \/ TakeAck \/ AllAcknowledged
         \/ \E t \in Slot : EndThread(t)
  PROVE  ListInv'
<1> USE DEF MainInv
<1>1. UNCHANGED in
  BY DEF CheckArguments, AllocateGlobals, ReadRemodelfile, MakeGraph, MakeQueues,
         SpawnThreads, BuildAndSave, SignalBuilder, SignalMonitor, TakeAck,
         AllAcknowledged, EndThread, threadVars
<1>2. UNCHANGED <<Dependencies, Sources>>
  BY <1>1 DEF Dependencies, Sources, ListTargets, DependenciesOf
<1>3. CASE CheckArguments \/ AllocateGlobals
  <2>1. \/ pc' \in {"exit", "globals"} /\ live' = {}
        \/ pc' = "read" /\ live' = ListHead
        \/ pc' = "signal" /\ live' \subseteq ListHead
    BY <1>3 DEF CheckArguments, AllocateGlobals, Goto, ListInv
  <2>2. ListHead \cap (Dependencies \cup Sources) = {}
    BY DEF ListHead, Dependencies, DependenciesOf, Sources, target_head,
           srcfile_head, remodel_head
  <2> QED BY <1>2, <2>1, <2>2 DEF ListInv
<1>4. CASE ReadRemodelfile
  <2>1. pc' \in {"graph", "signal"} /\ {target_head, srcfile_head} \subseteq live'
    BY <1>4 DEF ReadRemodelfile, Goto, AfterError, ListInv, ListHead
  <2> QED BY <2>1 DEF ListInv
<1>5. CASE MakeQueues
  <2>1. pc = "queues" /\ pc' = "spawn" /\ live' = live \cup Queue
    BY <1>5 DEF MakeQueues, Goto
  <2> QED BY <1>2, <2>1, ObjectsDiffer DEF ListInv
<1>6. CASE \/ MakeGraph \/ SpawnThreads \/ BuildAndSave
           \/ SignalBuilder \/ SignalMonitor \/ TakeAck \/ AllAcknowledged
           \/ \E t \in Slot : EndThread(t)
  <2>1. /\ UNCHANGED live
        /\ \/ pc \in {"graph", "spawn", "build", "signal", "await"}
                /\ pc' \in {"queues", "build", "overrun", "unanswered", "signal",
                            "await", "queues to free"}
           \/ UNCHANGED <<pc, current>>
    BY <1>6 DEF MakeGraph, SpawnThreads, BuildAndSave, SignalBuilder, SignalMonitor,
       TakeAck, AllAcknowledged, EndThread, threadVars, Goto, AfterError
  <2> QED BY <1>1, <1>2, <2>1 DEF ListInv, ListTargets, DependenciesOf
<1> QED BY <1>3, <1>4, <1>5, <1>6

LEMMA ListCleanStep ==
  ASSUME TypeOK, MainInv,
         \/ CleanQueues \/ CleanTarget \/ CleanTargetHead
         \/ CleanSource \/ CleanSourceHead
  PROVE  ListInv'
<1> USE ObjectsDiffer DEF MainInv, TypeOK
<1>1. UNCHANGED in
  BY DEF CleanQueues, CleanTarget, CleanTargetHead, CleanSource, CleanSourceHead
<1>2. UNCHANGED <<Dependencies, Sources, ListTargets>>
      /\ \A j : DependenciesOf(j)' = DependenciesOf(j)
  BY <1>1 DEF Dependencies, Sources, ListTargets, DependenciesOf
<1>0. /\ current \in Nat /\ in.sources \in Nat /\ Len(in.targets) \in Nat
      /\ ListTargets = 1 .. Len(in.targets)
  BY Inputs
<1>3. CASE CleanQueues
  <2>1. /\ pc = "queues to free" /\ pc' = "targets to free"
        /\ live' = live \ Queue /\ current' = 0
    BY <1>3 DEF CleanQueues, Goto
  <2>2. \A j \in ListTargets : ~(j < 0)
    BY Inputs
  <2> QED BY <1>2, <2>1, <2>2 DEF ListInv
<1>4. CASE CleanTarget
  <2>1. /\ pc = "targets to free" /\ pc' = "targets to free"
        /\ live' = live \ DependenciesOf(current) /\ current' = current + 1
        /\ target_head \in live
    BY <1>4 DEF CleanTarget
  <2>2. ASSUME NEW j \in ListTargets, j < current'
        PROVE  live' \cap DependenciesOf(j) = {}
    <3>2. current' = current + 1
      BY <2>1
    <3>1. j < current \/ j = current
      BY ONLY <1>0, <2>2, <3>2
    <3> QED BY <2>1, <3>1 DEF ListInv
  <2>3. target_head \in live' /\ (srcfile_head \in live' <=> srcfile_head \in live)
    BY <2>1
  <2> QED BY <1>2, <2>1, <2>2, <2>3 DEF ListInv
<1>5. CASE CleanTargetHead
  <2>1. /\ pc = "targets to free" /\ pc' = "sources to free"
        /\ live' = live \ {target_head} /\ current' = 1
        /\ target_head \in live => current > Len(in.targets)
    BY <1>5 DEF CleanTargetHead, Goto
  <2>2. live \cap Dependencies = {}
    <3>1. CASE target_head \notin live
      BY <2>1, <3>1 DEF ListInv
    <3>2. CASE target_head \in live
      <4>1. current > Len(in.targets)
        BY <2>1, <3>2
      <4>2. \A j \in ListTargets : j < current
        BY ONLY <1>0, <4>1
      <4>3. \A j \in ListTargets : live \cap DependenciesOf(j) = {}
        BY <2>1, <4>2 DEF ListInv
      <4> QED BY <4>3 DEF Dependencies
    <3> QED BY <3>1, <3>2
  <2>3. \A k \in 1 .. in.sources : ~(k < 1)
    BY Inputs
  <2>4. srcfile_head \in live' <=> srcfile_head \in live
    BY <2>1
  <2> QED BY <1>1, <1>2, <2>1, <2>2, <2>3, <2>4 DEF ListInv
<1>6. CASE CleanSource
  <2>1. /\ pc = "sources to free" /\ pc' = "sources to free"
        /\ live' = live \ {<<"source", current>>} /\ current' = current + 1
        /\ srcfile_head \in live
    BY <1>6 DEF CleanSource
  <2>2. ASSUME NEW k \in 1 .. in.sources, k < current'
        PROVE  <<"source", k>> \notin live'
    <3>2. current' = current + 1
      BY <2>1
    <3>1. k < current \/ k = current
      BY ONLY <1>0, <2>2, <3>2
    <3> QED BY <2>1, <3>1 DEF ListInv
  <2>3. srcfile_head \in live'
    BY <2>1
  <2> QED BY <1>1, <1>2, <2>1, <2>2, <2>3 DEF ListInv
<1>7. CASE CleanSourceHead
  <2>1. /\ pc = "sources to free" /\ pc' = "exit"
        /\ live' = live \ {srcfile_head}
        /\ srcfile_head \in live => current > in.sources
    BY <1>7 DEF CleanSourceHead, Goto
  <2>2. live \cap Sources = {}
    <3>1. CASE srcfile_head \notin live
      BY <2>1, <3>1 DEF ListInv
    <3>2. CASE srcfile_head \in live
      <4>1. current > in.sources
        BY <2>1, <3>2
      <4>2. \A k \in 1 .. in.sources : k < current
        BY ONLY <1>0, <4>1
      <4>3. \A k \in 1 .. in.sources : <<"source", k>> \notin live
        BY <2>1, <4>2 DEF ListInv
      <4> QED BY <4>3 DEF Sources
    <3> QED BY <3>1, <3>2
  <2> QED BY <1>2, <2>1, <2>2 DEF ListInv
<1> QED BY <1>3, <1>4, <1>5, <1>6, <1>7

LEMMA MainNext ==
  ASSUME TypeOK, MainInv, [Next]_vars
  PROVE  TypeOK' /\ MainInv'
<1>1. CASE UNCHANGED vars
  <2>1. UNCHANGED <<Object, Dependencies, Sources, ListTargets, Builders, Expected>>
        /\ \A j : DependenciesOf(j)' = DependenciesOf(j)
    BY <1>1 DEF vars, threadVars, Object, Dependencies, Sources, ListTargets,
                DependenciesOf, TargetNodes, Commands, Builders, Expected
  <2>2. TypeOK'
    BY <1>1, <2>1 DEF vars, threadVars, TypeOK
  <2>3. ThreadInv'
    BY <1>1, <2>1 DEF vars, threadVars, MainInv, ThreadInv, NothingRuns, Signalling,
                      HasTids, HasNone, Awaiting
  <2>4. ListInv'
    BY <1>1, <2>1 DEF vars, threadVars, MainInv, ListInv
  <2> QED BY <1>1, <2>2, <2>3, <2>4 DEF vars, MainInv
<1>2. CASE Next
  <2>1. TypeOK' /\ ThreadInv'
    BY <1>2, SignalBuilderStep, SignalMonitorStep, EndThreadStep, AwaitStep, SpawnStep,
       OtherStep DEF Next, MainStep
  <2>2. ListInv'
    BY <1>2, ListBuildStep, ListCleanStep DEF Next, MainStep
  <2>3. UNCHANGED in
    BY <1>2 DEF Next, MainStep, CheckArguments, AllocateGlobals, ReadRemodelfile,
       MakeGraph, MakeQueues, SpawnThreads, BuildAndSave, SignalBuilder, SignalMonitor,
       TakeAck, AllAcknowledged, EndThread, CleanQueues, CleanTarget, CleanTargetHead,
       CleanSource, CleanSourceHead, threadVars
  <2>4. pc' \in BeforeThreads \cup WithThreads \cup AfterThreads
    BY <1>2 DEF MainInv, Next, MainStep, CheckArguments, AllocateGlobals,
       ReadRemodelfile, MakeGraph, MakeQueues, SpawnThreads, BuildAndSave,
       SignalBuilder, SignalMonitor, TakeAck, AllAcknowledged, EndThread, CleanQueues,
       CleanTarget, CleanTargetHead, CleanSource, CleanSourceHead, Goto, AfterError,
       BeforeThreads, WithThreads, AfterThreads
  <2> QED BY <2>1, <2>2, <2>3, <2>4 DEF MainInv
<1> QED BY <1>1, <1>2

-----------------------------------------------------------------------------
(* Theorems *)

LEMMA MainHolds == Spec => [](TypeOK /\ MainInv)
BY MainInit, MainNext, PTL DEF Spec

(* Every variable of MainRun keeps its type, however many threads the      *)
(* graph asks for and whichever of them are created; among them the number *)
(* of signals that wait for an acknowledgement, which is never negative    *)
(* and never more than the threads asked for.                              *)
THEOREM MainTypes == Spec => []TypeOK
BY MainHolds, PTL

(* Main has one signal for every builder that runs and one for the monitor *)
(* thread, and the only others are for the threads that pthread_create     *)
(* could not create; while one of these is missing, or a thread runs, the  *)
(* queues are not freed.                                                   *)
THEOREM SignalsAndThreads == Spec => []SignalsMatchThreads
<1>1. ASSUME TypeOK, MainInv PROVE SignalsMatchThreads
  <2> DEFINE toSignal == {t \in Slot : i <= t /\ t < total_threads /\ tid[t] # -1}
  <2>1. dispatch_queue \in Queue /\ monitor_queue \in Queue /\ response_queue \in Queue
    BY DEF Queue
  <2>2. ASSUME pc = "signal"
        PROVE  /\ toSignal # {} => Queue \subseteq live
               /\ Cardinality(Builders) = signals[dispatch_queue] + Cardinality(toSignal)
    <3>1. CASE Signalling
      <4>1. toSignal = i .. total_threads - 1
        <5>1. i \in Nat /\ total_threads \in Nat
          BY <1>1 DEF TypeOK
        <5>2. 0 .. total_threads \subseteq Slot /\ Slot \subseteq Nat
          BY <1>1, Inputs, MainAssumption DEF MainInv, ThreadInv
        <5>3. \A t \in 0 .. total_threads : tid[t] # -1
          BY <3>1 DEF Signalling, HasTids
        <5>4. \A t \in Slot : t \in 0 .. total_threads => tid[t] # -1
          BY <5>3
        <5>5. toSignal = {t \in Slot : i <= t /\ t < total_threads}
          <6>1. \A t \in Slot : t < total_threads => t \in 0 .. total_threads
            BY ONLY <5>1, <5>2
          <6> QED BY <5>4, <6>1
        <5>6. i .. total_threads - 1 \subseteq Slot
          BY ONLY <5>1, <5>2
        <5>7. \A t \in Slot : i <= t /\ t < total_threads => t \in i .. total_threads - 1
          BY ONLY <5>1, <5>2
        <5>8. \A t \in i .. total_threads - 1 : i <= t /\ t < total_threads
          BY ONLY <5>1
        <5> HIDE DEF toSignal
        <5> QED BY <5>5, <5>6, <5>7, <5>8
      <4>2. Cardinality(i .. total_threads - 1) = total_threads - i
        BY <1>1, FS_Interval DEF TypeOK
      <4>3. Cardinality(Builders) \in Nat /\ signals[dispatch_queue] \in Nat
            /\ signals[response_queue] \in Nat
        BY <1>1, <2>1, CountBuilders DEF TypeOK, Expected
      <4>4. i \in Nat /\ total_threads \in Nat
        BY <1>1 DEF TypeOK
      <4>5. signals[dispatch_queue] + signals[response_queue] = i
            /\ Cardinality(Builders) + signals[response_queue] = total_threads
        BY <3>1 DEF Signalling
      <4>6. Cardinality(Builders) = signals[dispatch_queue] + (total_threads - i)
        BY ONLY <4>3, <4>4, <4>5
      <4> QED BY <3>1, <4>1, <4>2, <4>6 DEF Signalling
    <3>2. CASE NothingRuns /\ HasNone /\ total_threads = BUILD_THREADS
      <4>1. toSignal = {} /\ Builders = {}
        <5>1. \A t \in Slot : t < total_threads => t \in Declared
          BY <3>2, MainAssumption DEF Declared
        <5> QED BY <3>2, <5>1 DEF NothingRuns, HasNone, Builders
      <4>2. signals[dispatch_queue] = 0
        BY <2>1, <3>2 DEF NothingRuns
      <4> HIDE DEF toSignal
      <4> QED BY <4>1, <4>2, FS_EmptySet
    <3> QED BY <1>1, <2>2, <3>1, <3>2 DEF MainInv, ThreadInv
  <2>3. ASSUME pc = "await"
        PROVE  /\ Cardinality(Builders) = signals[dispatch_queue]
               /\ signals[monitor_queue] = IF total_threads \in Expected THEN 1 ELSE 0
    BY <1>1, <2>3 DEF MainInv, ThreadInv, Awaiting
  <2>4. \/ Queue \subseteq live
        \/ Expected = {} /\ signals = [q \in Queue |-> 0]
    BY <1>1 DEF MainInv, ThreadInv, Signalling, Awaiting, WithThreads, NothingRuns
  <2>5. /\ \A q \in Queue : signals[q] > 0 => q \in live
        /\ Expected # {} => Queue \subseteq live
    BY <2>4
  <2> QED BY <2>2, <2>3, <2>5 DEF SignalsMatchThreads, Builders
<1> QED BY <1>1, MainHolds, PTL

(* Whenever main ends, after any error and with any lists, none of the     *)
(* queues, the dependencies, the sources and the heads of the two lists is *)
(* left allocated.                                                         *)
THEOREM ListsAreFreed == Spec => []FreesLists
<1>1. MainInv => FreesLists
  BY DEF MainInv, ListInv, FreesLists
<1> QED BY <1>1, MainHolds, PTL
=============================================================================
