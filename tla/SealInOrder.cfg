SPECIFICATION FairSpec
CONSTANTS
  l1 = l1
  l2 = l2
  w1 = w1
  w2 = w2
  Leaves = {l1, l2}
  Workers = {w1, w2}
  TokensOf <- MCTokensOf
  TokenBudget = 2
  Fanout = 2
  TopLevel = 2
  MaxSummaries = 4
  FailingSteps = {"claimed", "sealing", "flushing"}
  MaxFaults = 1
  MaxInterruptions = 0
  MaxResets = 0
  UserFlushes = FALSE
  UserRetries = TRUE
  Reingests = FALSE
INVARIANTS AdmittedIsQueued
PROPERTIES RipeIsNoticed FoldsOnce LeavesAreSealed
CHECK_DEADLOCK FALSE
