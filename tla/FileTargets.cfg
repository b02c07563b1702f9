\* A production for two targets.
CONSTANTS
  Input <- TwoTargets
  MaxLength = 0
SPECIFICATION Spec
INVARIANTS ReadsProductions
