SPECIFICATION FairSpec
CONSTANTS
  plain = plain
  gcard = gcard
  triage = triage
  u = u
  Poller = poller
  NoCard = NoCard
  Cards = {plain, gcard}
  Triages = {triage}
  Users = {u}
  MaxRuns = 2
  AgentStatuses = {"blocked", "done"}
  Gated = {gcard}
  MaxReclaims = 1
  Sections = 2
  OutlivesTtl = FALSE
  TornReclaim = FALSE
  FailingSteps = {"record"}
  MaxMoved = 0
  MaxFaults = 2
INVARIANTS
  ReclaimsBounded
PROPERTIES
  GatedRunsApproved
  KeepsLifecycle
  TrackedCardsSettle
CHECK_DEADLOCK FALSE
