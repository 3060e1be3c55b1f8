SPECIFICATION DriverSpec
CONSTANTS
  None = None
  writer = writer
  reviewer = reviewer
  Humans = {"owner"}
  Steps = {"draft"}
  Workflow <- PlainWorkflow
  Agents = {writer, reviewer}
  Holders = {d1, w1}
  Drivers = {d1}
  Workers = {w1}
  Overlap = FALSE
  Cli = FALSE
  HumanVerbs = {}
  Trouble = {"lapse"}
  MessageIds = {}
  Files = {"work", "ungraded"}
  Contents = {c1, c2}
  Costs = {0}
  MaxCycles = 6
  CycleCeiling = 8
  Extensions = {1}
  DefaultCeiling = 1
  MaxCrashes = 0
CHECK_DEADLOCK FALSE
INVARIANT EvidenceStays
