SPECIFICATION Spec
CONSTANTS
  c1 = c1
  c2 = c2
  k = k
  send = send
  t1 = t1
  Calls = {c1, c2, k}
  Tools = {send}
  Threads = {t1}
  ToolOf <- MCToolOf
  ThreadOf <- MCThreadOf
  OriginOf <- MCOriginOf
  NoThread = NoThread
  NoCall = NoCall
  MaxDeciders = 2
  MaxAborts = 1
  MaxErrors = 1
  MaxRestarts = 1
INVARIANTS
  TypeOK
  OutcomeMatchesRow
  ExecutedWasApproved
  ApprovalReachesCall
  RouteIsWaiting
PROPERTIES KeepsConsent
SYMMETRY ChatSymmetry
CHECK_DEADLOCK FALSE
