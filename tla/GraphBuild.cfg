\* Small remodelfiles of all kinds, one changed source and one unchanged, with
\* the pruning of the tree one turn of a loop at a time.
CONSTANTS
  Source <- MCSource
  Input <- AllInput
  BUILD_THREADS = 3
  NoNode = NoNode
SPECIFICATION PruneSpec
INVARIANTS TypeOK OnlyOrdersAreBuilt RebuildsWhatDepends IsReadyToSchedule
           PointersAreLive ArraysAreDense
PROPERTY ImplementsCleanup
