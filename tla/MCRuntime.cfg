CONSTANTS
  t1 = t1
  t2 = t2
  Threads = {t1, t2}
  Ids = {1, 2, 3}
  UMax = 9
  HitCap = 3
  Probes = 2
  Hash <- MCHash
SPECIFICATION FairSpec
INVARIANTS
  TypeOK
  NoDuplicate
  HitsReported
  IndInv
PROPERTIES
  SlotsWriteOnce
  ImplementsCoverageLog
  CallReturns
