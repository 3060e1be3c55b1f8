SPECIFICATION DriverFairSpec
CONSTANTS
  None = None
  writer = writer
  reviewer = reviewer
  Humans = {"owner"}
  Steps = {"left", "right", "join"}
  Workflow <- DiamondWorkflow
  Agents = {writer, reviewer}
  Holders = {d1, d2}
  Drivers = {d1, d2}
  Workers = {}
  Overlap = FALSE
  Cli = FALSE
  HumanVerbs = {"approve"}
  Trouble = {"transient", "error", "crash", "lapse"}
  MessageIds = {}
  Files = {"work", "ungraded"}
  Contents = {c1}
  Costs = {1}
  MaxCycles = 7
  CycleCeiling = 7
  Extensions = {1}
  DefaultCeiling = 2
  MaxCrashes = 1
CHECK_DEADLOCK FALSE
INVARIANT DependenciesDone
INVARIANT BillAddsUp
PROPERTY NothingDispatchedOverCeiling
PROPERTY RunsSettle
