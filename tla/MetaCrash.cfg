\* Runs again and again: sources edited at any time to contents they never had,
\* and crashes.
CONSTANTS
  SourceOrder <- LibSources
  Target = {"app", "lib"}
  Reads <- LibReads
  Uses <- LibUses
  Goal = {"app"}
  Garbage = Garbage
  LastVersion = 2
  MaxLines = 2
  MayRevert = FALSE
  MayEditInRun = TRUE
  MayFail = FALSE
  MayCrash = TRUE
  MayClean = FALSE
SPECIFICATION FairSpec
CHECK_DEADLOCK FALSE
INVARIANTS TypeOK StaleIsNoticed RecordsAreBuilt
PROPERTIES UpToDateAtLast SavesWhatItCalculated
