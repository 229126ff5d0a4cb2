SPECIFICATION Spec
CONSTANTS
  plain = plain
  gcard = gcard
  triage = triage
  u = u
  Poller = poller
  NoCard = NoCard
  Cards = {plain, gcard}
  Triages = {triage}
  Users = {u}
  MaxRuns = 1
  AgentStatuses = {"blocked", "done"}
  Gated = {}
  MaxReclaims = 1
  Sections = 1
  OutlivesTtl = FALSE
  TornReclaim = TRUE
  FailingSteps = {}
  MaxMoved = 0
  MaxFaults = 1
INVARIANTS
  InProgressIsTracked
CHECK_DEADLOCK FALSE
