----------------------------- MODULE BuildOrder -----------------------------
(***************************************************************************)
(* What a parallel build promises, with no threads, queues or tree nodes:  *)
(* the command of a target runs once, after the commands of the targets it *)
(* depends on, and the build returns when every target has been built.     *)
(* README:10-13: the dependency chain is a happens-before relation and     *)
(* independent commands run in parallel.                                   *)
(***************************************************************************)
CONSTANTS
  Target,     \* the targets left in the dependency tree
  Deps        \* Deps[t]: the targets of that set that t depends on

VARIABLES
  status,     \* status[t]: has the command of t been run?
  returned    \* has the build returned to its caller?

vars == <<status, returned>>

TypeOK ==
  /\ status \in [Target -> {"waiting", "running", "built"}]
  /\ returned \in BOOLEAN

Init ==
  /\ status = [t \in Target |-> "waiting"]
  /\ returned = FALSE

(* The command of a target starts when everything it depends on is built. *)
Start(t) ==
  /\ status[t] = "waiting"
  /\ \A d \in Deps[t] : status[d] = "built"
  /\ status' = [status EXCEPT ![t] = "running"]
  /\ UNCHANGED returned

Finish(t) ==
  /\ status[t] = "running"
  /\ status' = [status EXCEPT ![t] = "built"]
  /\ UNCHANGED returned

Return ==
  /\ ~returned
  /\ \A t \in Target : status[t] = "built"
  /\ returned' = TRUE
  /\ UNCHANGED status

Next ==
  \/ \E t \in Target : Start(t) \/ Finish(t)
  \/ Return

(* Every target that can start is started, every command ends, and the     *)
(* build returns.                                                          *)
Fairness ==
  /\ \A t \in Target : WF_vars(Start(t)) /\ WF_vars(Finish(t))
  /\ WF_vars(Return)

Safety == Init /\ [][Next]_vars
Spec == Safety /\ Fairness
=============================================================================
