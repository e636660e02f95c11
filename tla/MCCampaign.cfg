CONSTANTS
  N = 3
  MaxJobs = 2
  MinScores <- MCMinScores
SPECIFICATION FairSpec
INVARIANTS
  TypeOK
  ExactlyOnce
  ReportTrue
  CleanRefusal
  GateEarned
  IndInv
PROPERTIES
  ImplementsVerdicts
  Terminates
