\* Every path through main.
CONSTANTS
  Input <- RInput
  BUILD_THREADS = 3
  Slot = {0, 1, 2, 3, 4}
SPECIFICATION Spec
CHECK_DEADLOCK FALSE
INVARIANTS TypeOK SignalsMatchThreads FreesLists
PROPERTY RunEnds
