\* Runs that ask for a part of the targets.
CONSTANTS
  SourceOrder <- LibSources
  Target = {"app", "lib"}
  Reads <- LibReads
  Uses <- LibUses
  Goal = {"app", "lib"}
  Garbage = Garbage
  LastVersion = 1
  MaxLines = 4
  MayRevert = FALSE
  MayEditInRun = FALSE
  MayFail = FALSE
  MayCrash = FALSE
  MayClean = FALSE
SPECIFICATION Spec
CHECK_DEADLOCK FALSE
INVARIANT StaleIsNoticed
