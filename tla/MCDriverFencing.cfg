SPECIFICATION DriverSpec
CONSTANTS
  None = None
  writer = writer
  reviewer = reviewer
  Humans = {"owner"}
  Steps = {"draft"}
  Workflow <- PlainWorkflow
  Agents = {writer, reviewer}
  Holders = {d1, d2}
  Drivers = {d1, d2}
  Workers = {}
  Overlap = TRUE
  Cli = FALSE
  HumanVerbs = {}
  Trouble = {"lapse"}
  MessageIds = {}
  Files = {"work", "ungraded"}
  Contents = {c1}
  Costs = {0}
  MaxCycles = 8
  CycleCeiling = 8
  Extensions = {1}
  DefaultCeiling = 1
  MaxCrashes = 0
CHECK_DEADLOCK FALSE
PROPERTY DriversWriteTheirOwn
