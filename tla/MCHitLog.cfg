SPECIFICATION Spec
CONSTANTS
  Procs = {p1, p2, p3}
  p1 = p1
  p2 = p2
  p3 = p3
  Logs <- MCLogs
  Listed = {7, 56, 134, 200, 90}
  Block = 7
  UIntMax = 255
  ULongMax = 65535
INVARIANTS
  TypeOK
  SmallLogsWhole
  LossBounded
CHECK_DEADLOCK FALSE
