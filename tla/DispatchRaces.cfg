SPECIFICATION Spec
CONSTANTS
  plain = plain
  gcard = gcard
  triage = triage
  u = u
  Poller = poller
  NoCard = NoCard
  Cards = {plain, gcard}
  Triages = {triage}
  Users = {u}
  MaxRuns = 1
  AgentStatuses = {"in_progress", "blocked"}
  Gated = {plain, gcard}
  MaxReclaims = 1
  Sections = 2
  OutlivesTtl = TRUE
  TornReclaim = TRUE
  FailingSteps = {"create", "beat", "save", "record"}
  MaxMoved = 1
  MaxFaults = 1
INVARIANTS
  TypeOK
  OneInProgress
  OneWriteBack
PROPERTIES
  OutcomeFinal
SYMMETRY CardSymmetry
CHECK_DEADLOCK FALSE
