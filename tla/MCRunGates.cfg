SPECIFICATION Spec
CONSTANTS
  None = None
  writer = writer
  reviewer = reviewer
  Steps = {"draft", "send"}
  Workflow <- GatedWorkflow
  Agents = {writer}
  Humans = {"owner"}
  Holders = {h1, h2}
  MessageIds = {}
  Files = {"work"}
  Contents = {"c1"}
  Costs = {0}
  MaxCycles = 6
  CycleCeiling = 7
  Extensions = {1}
  DefaultCeiling = 1
  MaxCrashes = 1
SYMMETRY HolderSymmetry
CHECK_DEADLOCK FALSE
INVARIANT EndMatchesSteps
INVARIANT ClaimsMatchWork
INVARIANT AttemptsAccounted
INVARIANT EveryParkDecidedOnce
INVARIANT GatedTransitionsAudited
INVARIANT LedgerBalances
PROPERTY TokensOutrank
PROPERTY KeepsLifecycle
