SPECIFICATION FairSpec
CONSTANTS
  NoNotice = NoNotice
  Places = {"run"}
  Troubles <- OneRun
  Scanners = {"sweep"}
  Terminals = {"cron"}
  MaxNews = 3
  MaxCount = 1
  MaxTries = 1
  MaxCrashes = 1
CHECK_DEADLOCK FALSE
INVARIANT DeliveredMeansTold
INVARIANT SameFactOnce
PROPERTY StandingNeedsAreTold
