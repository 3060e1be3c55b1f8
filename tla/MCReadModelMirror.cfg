SPECIFICATION FairSpec
CONSTANTS
  NoRow = NoRow
  NoCopy = NoCopy
  Runs = {"run"}
  Sweeps = {"sweep"}
  ByHand = {"hand"}
  Requests = {"q1", "q2"}
  MaxEvents = 4
  MaxMishaps = 1
CHECK_DEADLOCK FALSE
INVARIANT StoreFollowsTheLog
PROPERTY MirrorCatchesUp
