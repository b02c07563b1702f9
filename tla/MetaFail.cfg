\* Commands that fail.
CONSTANTS
  SourceOrder <- LibSources
  Target = {"app", "lib"}
  Reads <- LibReads
  Uses <- LibUses
  Goal = {"app"}
  Garbage = Garbage
  LastVersion = 1
  MaxLines = 4
  MayRevert = FALSE
  MayEditInRun = FALSE
  MayFail = TRUE
  MayCrash = FALSE
  MayClean = FALSE
SPECIFICATION Spec
CHECK_DEADLOCK FALSE
INVARIANT RecordsAreBuilt
