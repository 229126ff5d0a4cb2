SPECIFICATION Spec
CONSTANTS
  l1 = l1
  l2 = l2
  w1 = w1
  w2 = w2
  Leaves = {l1}
  Workers = {w1}
  TokensOf <- MCTokensOf
  TokenBudget = 1
  Fanout = 2
  TopLevel = 2
  MaxSummaries = 4
  FailingSteps = {"claimed"}
  MaxFaults = 1
  MaxInterruptions = 0
  MaxResets = 0
  UserFlushes = FALSE
  UserRetries = TRUE
  Reingests = TRUE
INVARIANTS FoldedOnce
CHECK_DEADLOCK FALSE
