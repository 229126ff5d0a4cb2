SPECIFICATION Spec
CONSTANTS
  plain = plain
  gcard = gcard
  triage = triage
  u = u
  Poller = poller
  NoCard = NoCard
  Cards = {plain, gcard}
  Triages = {triage}
  Users = {}
  MaxRuns = 2
  AgentStatuses = {}
  Gated = {}
  MaxReclaims = 1
  Sections = 2
  OutlivesTtl = FALSE
  TornReclaim = FALSE
  FailingSteps = {}
  MaxMoved = 0
  MaxFaults = 0
INVARIANTS
  OneActiveRun
CHECK_DEADLOCK FALSE
