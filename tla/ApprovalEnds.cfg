SPECIFICATION FairSpec
CONSTANTS
  c1 = c1
  c2 = c2
  k = k
  send = send
  t1 = t1
  Calls = {c1, c2}
  Tools = {send}
  Threads = {t1}
  ToolOf <- MCToolOf
  ThreadOf <- MCThreadOf
  OriginOf <- MCOriginOf
  NoThread = NoThread
  NoCall = NoCall
  MaxDeciders = 1
  MaxAborts = 1
  MaxErrors = 1
  MaxRestarts = 1
PROPERTIES
  ParkedCallsEnd
  ApprovalIsHonoured
CHECK_DEADLOCK FALSE
