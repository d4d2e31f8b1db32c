CONSTANTS
  Values = {a, b}
  None = None
  LogErrors = {"Coordinator", "CastVote", "Abort"}
  N = 2
  MaxTransactions = 3
  MaxFaults = 3
  MaxDelayed = 1
  Delayable = {"CastVote"}
SPECIFICATION OperatedSpec
INVARIANTS Agreement
PROPERTIES NoWorkerBlocked CommitReachesAll
CHECK_DEADLOCK FALSE
