SPECIFICATION DriverFairSpec
CONSTANTS
  None = None
  writer = writer
  reviewer = reviewer
  Humans = {"owner"}
  Steps = {"draft"}
  Workflow <- ReviewedWorkflow
  Agents = {writer, reviewer}
  Holders = {d1, d2}
  Drivers = {d1, d2}
  Workers = {}
  Overlap = FALSE
  Cli = FALSE
  HumanVerbs = {}
  Trouble = {"crash", "lapse"}
  MessageIds = {m1, m2}
  Files = {"work", "ungraded", "check1", "check2"}
  Contents = {c1}
  Costs = {0}
  MaxCycles = 8
  CycleCeiling = 8
  Extensions = {1}
  DefaultCeiling = 1
  MaxCrashes = 0
CHECK_DEADLOCK FALSE
PROPERTY RunsSettle
