SPECIFICATION Spec
CONSTANTS
  None = None
  writer = writer
  reviewer = reviewer
  Steps = {"draft", "pay"}
  Workflow <- RedAfterReview
  Agents = {writer, reviewer}
  Humans = {"owner"}
  Holders = {h1}
  MessageIds = {m1, m2}
  Files = {"work"}
  Contents = {c1}
  Costs = {0}
  MaxCycles = 6
  CycleCeiling = 6
  Extensions = {1}
  DefaultCeiling = 1
  MaxCrashes = 0
SYMMETRY MessageSymmetry
CHECK_DEADLOCK FALSE
INVARIANT EverySubmissionJudgedOnce
