CONSTANTS
  Values = {a, b}
  None = None
  LogErrors = {"Coordinator", "CastVote", "Abort"}
  N = 3
  MaxTransactions = 3
  MaxFaults = 3
  MaxDelayed = 0
  Delayable = {}
SPECIFICATION Spec
INVARIANTS Agreement CommitIsDurable Recoverable
PROPERTIES DecisionFinal VoteHonoured ShowsOneValue
CHECK_DEADLOCK FALSE
