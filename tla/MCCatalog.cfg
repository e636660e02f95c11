CONSTANTS
  u1 = u1
  u2 = u2
  b1 = b1
  b2 = b2
  Units = {u1, u2}
  Binaries = {b1, b2}
  Versions <- MCVersions
  ModuleName <- MCModuleName
  Spelling <- MCSpelling
SPECIFICATION Spec
INVARIANTS
  TypeOK
  FirstOnlyLost
  DirComplete
  Reproducible
