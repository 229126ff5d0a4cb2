SPECIFICATION Spec
CONSTANTS
  l1 = l1
  l2 = l2
  w1 = w1
  w2 = w2
  Leaves = {l1, l2}
  Workers = {w1, w2}
  TokensOf <- MCTokensOf
  TokenBudget = 1
  Fanout = 2
  TopLevel = 2
  MaxSummaries = 3
  FailingSteps = {}
  MaxFaults = 0
  MaxInterruptions = 0
  MaxResets = 0
  UserFlushes = FALSE
  UserRetries = FALSE
  Reingests = FALSE
INVARIANTS LeafKept
CHECK_DEADLOCK FALSE
