SPECIFICATION Spec
CONSTANTS
  l1 = l1
  l2 = l2
  w1 = w1
  w2 = w2
  Leaves = {l1}
  Workers = {w1}
  TokensOf <- MCTokensOf
  TokenBudget = 1
  Fanout = 2
  TopLevel = 2
  MaxSummaries = 4
  FailingSteps = {"claimed", "committed", "sealing", "flushing"}
  MaxFaults = 1
  MaxInterruptions = 1
  MaxResets = 1
  UserFlushes = TRUE
  UserRetries = TRUE
  Reingests = TRUE
INVARIANTS TypeOK UpperFanIn BacklinksAgree BufferConsistent RootIsHighest
CHECK_DEADLOCK FALSE
