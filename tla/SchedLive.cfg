\* Liveness and refinement, under the fairness of the threads.
CONSTANTS
  Node <- LibNode
  Root = "DEFAULT"
  Parent <- LibParent
  TargetOf <- LibTarget
  LeafOrder <- LibLeaves
  N = 3
  SpawnMayFail = FALSE
  Kill = Kill
  NoNode = NoNode
SPECIFICATION FairSpec
PROPERTIES Termination MonitoredIsAnswered ImplementsBuildOrder
