CONSTANTS
  N = 3
  MaxJobs = 2
  MinScores <- MCMinScores
SPECIFICATION Spec
INVARIANT KilledMeansTestFailed
