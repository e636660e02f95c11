SPECIFICATION Spec
CONSTANTS
  Sources <- MCSources
  Width = 3
  fnv <- MCfnv
INVARIANTS
  BaselineEquivalent
CHECK_DEADLOCK FALSE
