SPECIFICATION Spec
CONSTANTS
  a1 = a1
  a2 = a2
  b = b
  r = r
  s = s
  w1 = w1
  w2 = w2
  Jobs = {a1, r}
  Workers = {w1, w2}
  KindOf <- MCKindOf
  KeyOf <- MCKeyOf
  NoKey = NoKey
  NoWorker = NoWorker
  MaxAttempts = 2
  LockDuration = 1
  RetryBase = 1
  RetryCap = 2
  RevisitDelay = 1
  ExtraBatch = 1
  UsesLocal = TRUE
  MaxTime = 2
  MaxInterruptions = 2
  MaxDbErrors = 1
INVARIANTS
  TypeOK
  OneExecutor
  TokensDistinct
  GateFindsActive
PROPERTIES
  LeaseExclusive
  TerminalIsFinal
SYMMETRY WorkerSymmetry
CHECK_DEADLOCK FALSE
