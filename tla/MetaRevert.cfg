\* Contents that come back, edits between runs only, clean, no crash.
CONSTANTS
  SourceOrder <- LibSources
  Target = {"app", "lib"}
  Reads <- LibReads
  Uses <- LibUses
  Goal = {"app"}
  Garbage = Garbage
  LastVersion = 2
  MaxLines = 4
  MayRevert = TRUE
  MayEditInRun = FALSE
  MayFail = FALSE
  MayCrash = FALSE
  MayClean = TRUE
SPECIFICATION Spec
CHECK_DEADLOCK FALSE
INVARIANT StaleIsNoticed
