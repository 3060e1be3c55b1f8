SPECIFICATION DriverSpec
CONSTANTS
  None = None
  writer = writer
  reviewer = reviewer
  Humans = {"owner"}
  Steps = {"draft"}
  Workflow <- PlainWorkflow
  Agents = {writer, reviewer}
  Holders = {d1, w1}
  Drivers = {d1}
  Workers = {w1}
  Overlap = FALSE
  Cli = FALSE
  HumanVerbs = {"approve", "reject", "cancel", "extend", "expire"}
  Trouble = {"error", "ungraded", "rejected", "lapse"}
  MessageIds = {}
  Files = {"work", "ungraded"}
  Contents = {c1}
  Costs = {0}
  MaxCycles = 4
  CycleCeiling = 5
  Extensions = {1}
  DefaultCeiling = 1
  MaxCrashes = 1
CHECK_DEADLOCK FALSE
PROPERTY WorkersWriteTheirOwn
