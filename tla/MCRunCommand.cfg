CONSTANTS
  k1 = k1
  k2 = k2
  Kids = {k1, k2}
  PipeCap = 2
  MaxOut = 4
SPECIFICATION FairSpec
INVARIANTS
  TypeOK
  TimeoutClearsGroup
  VerdictFaithful
  OutputComplete
  StrangerSpared
PROPERTIES
  ReturnsAfterDeadline
  PipeEmptied
