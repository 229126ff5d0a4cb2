SPECIFICATION FairSpec
CONSTANTS
  a1 = a1
  a2 = a2
  b = b
  r = r
  s = s
  w1 = w1
  w2 = w2
  Jobs = {a1, a2, b}
  Workers = {w1, w2}
  KindOf <- MCKindOf
  KeyOf <- MCKeyOf
  NoKey = NoKey
  NoWorker = NoWorker
  MaxAttempts = 1
  LockDuration = 1
  RetryBase = 1
  RetryCap = 2
  RevisitDelay = 1
  ExtraBatch = 1
  UsesLocal = TRUE
  MaxTime = 1
  MaxInterruptions = 1
  MaxDbErrors = 1
INVARIANTS
  ActiveKeysDistinct
  OneLocalLlm
  AttemptsBounded
  OrphansNeedAFault
PROPERTIES
  KeepsPromise
  PoolDrains
CHECK_DEADLOCK FALSE
