\* A dependency tree of sixteen nodes.
CONSTANTS
  Source <- MCSource
  Input <- ChainInput
  BUILD_THREADS = 3
SPECIFICATION Spec
INVARIANT MonitorHasASlot
