SPECIFICATION DriverFairSpec
CONSTANTS
  None = None
  writer = writer
  reviewer = reviewer
  Humans = {"owner"}
  Steps = {"send"}
  Workflow <- YellowWorkflow
  Agents = {writer, reviewer}
  Holders = {d1}
  Drivers = {d1}
  Workers = {}
  Overlap = FALSE
  Cli = FALSE
  HumanVerbs = {"approve"}
  Trouble = {"error"}
  MessageIds = {}
  Files = {"work", "ungraded"}
  Contents = {c1}
  Costs = {0}
  MaxCycles = 8
  CycleCeiling = 8
  Extensions = {1}
  DefaultCeiling = 1
  MaxCrashes = 0
CHECK_DEADLOCK FALSE
PROPERTY RunsSettle
