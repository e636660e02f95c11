CONSTANTS
  t1 = t1
  t2 = t2
  Threads = {t1, t2}
  Ids = {1, 2, 3}
  UMax = 3
  HitCap = 3
  Probes = 2
  Hash <- MCHash
SPECIFICATION Spec
INVARIANT OnlyTheAskedMutant
