SPECIFICATION Spec
CONSTANTS
  None = None
  crm = crm
  desk = desk
  invoice = invoice
  post = post
  Connectors = {crm, desk}
  Kind <- Kinds
  Secrets = {"token"}
  Actions = {invoice, post}
  On <- Places
  Approvals = {a1}
  Humans = {"owner"}
  Requesters = {"maker"}
  Callers = {p1, p2}
  Keys = {k1, k2}
  Window = 1
  Verdicts = {"confirmed"}
  MaxTime = 2
  MaxAdmin = 4
  MaxCrashes = 2
  Network = {"unreached", "refused", "ok", "bad", "unclear"}
SYMMETRY ApprovalKeySymmetry
CHECK_DEADLOCK FALSE
INVARIANT ReceiptsTellTheTruth
INVARIANT NothingLeavesUnrecorded
INVARIANT AnswersAreOnesOwn
INVARIANT EnabledMeansAuthorized
PROPERTY OneCallPerApproval
