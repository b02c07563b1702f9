\* Safety, on the tree of testcase-1 with three build threads that pthread_create
\* may fail to create: such a run may stop short of its end.
CONSTANTS
  Node <- SnapNode
  Root = "DEFAULT"
  Parent <- SnapParent
  TargetOf <- SnapTarget
  LeafOrder <- SnapLeaves
  N = 3
  SpawnMayFail = TRUE
  Kill = Kill
  NoNode = NoNode
SPECIFICATION Spec
INVARIANTS TypeOK AssertionsHold DependenciesFirst NoUseAfterFree SingleOwner
           DrainedOnReturn QueuesOutliveThreads
PROPERTY EachTargetOnce
CHECK_DEADLOCK FALSE
