SPECIFICATION Spec
CONSTANTS
  None = None
  crm = crm
  desk = desk
  invoice = invoice
  post = post
  Connectors = {crm, desk}
  Kind <- Kinds
  Secrets = {"token"}
  Actions = {invoice, post}
  On <- Places
  Approvals = {a1, a2}
  Humans = {"owner"}
  Requesters = {"maker"}
  Callers = {p1}
  Keys = {k1, k2}
  Window = 1
  Verdicts = {"confirmed"}
  MaxTime = 0
  MaxAdmin = 2
  MaxCrashes = 0
  Network = {"unclear"}
CHECK_DEADLOCK FALSE
PROPERTY UnknownIsReconciledFirst
