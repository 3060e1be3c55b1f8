SPECIFICATION Spec
CONSTANTS
  NoArchive = NoArchive
  Lessons = {"pricing", "sources"}
  Authors = {"driver"}
  People = {"owner"}
  MaxRecords = 3
  Runs = {"run"}
  Keepers = {"keeper"}
  EvidenceInRuns = TRUE
  MaxDrafts = 2
CHECK_DEADLOCK FALSE
INVARIANT ChainIntact
PROPERTY QuietArchiveIsFaithful
