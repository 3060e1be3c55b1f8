SPECIFICATION FairSpec
CONSTANTS
  None = None
  Schedules = {}
  Timing <- NoTiming
  Day = 2
  MaxTime = 0
  Ideas = {"a", "b"}
  Deliveries = {}
  Cap = 1
  MaxAttempts = 2
  Trouble = {"invalid", "transient", "stalls", "suspend"}
  Services = {s1, s2}
  Commands = {}
  LookAhead = 2
  MaxWakes = 1
  MaxCrashes = 1
CHECK_DEADLOCK FALSE
INVARIANT SettledMatchesRun
INVARIANT AttemptsAreTheRequestsOwn
INVARIANT OneAtATime
PROPERTY KeepsTheLine
PROPERTY RequestsAnswered
