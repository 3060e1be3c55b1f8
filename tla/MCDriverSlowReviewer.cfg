SPECIFICATION DriverSpec
CONSTANTS
  None = None
  writer = writer
  reviewer = reviewer
  Humans = {"owner"}
  Steps = {"draft"}
  Workflow <- ReviewedWorkflow
  Agents = {writer, reviewer}
  Holders = {d1, d2}
  Drivers = {d1, d2}
  Workers = {}
  Overlap = TRUE
  Cli = FALSE
  HumanVerbs = {}
  Trouble = {"returned"}
  MessageIds = {m1, m2, m3}
  Files = {"work", "ungraded", "check1", "check2"}
  Contents = {c1, c2}
  Costs = {0}
  MaxCycles = 8
  CycleCeiling = 8
  Extensions = {1}
  DefaultCeiling = 1
  MaxCrashes = 0
CHECK_DEADLOCK FALSE
PROPERTY VerdictOnWhatWasRead
