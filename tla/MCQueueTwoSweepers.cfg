SPECIFICATION Spec
CONSTANTS
  None = None
  Schedules = {"hourly"}
  Timing <- OneHourly
  Day = 2
  MaxTime = 3
  Ideas = {}
  Deliveries = {}
  Cap = 1
  MaxAttempts = 2
  Trouble = {"withdraw"}
  Services = {s1}
  Commands = {c1}
  LookAhead = 2
  MaxWakes = 0
  MaxCrashes = 0
CHECK_DEADLOCK FALSE
INVARIANT ClaimsBringWork
