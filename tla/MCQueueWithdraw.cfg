SPECIFICATION Spec
CONSTANTS
  None = None
  Schedules = {}
  Timing <- NoTiming
  Day = 2
  MaxTime = 0
  Ideas = {"a", "b"}
  Deliveries = {}
  Cap = 1
  MaxAttempts = 2
  Trouble = {"withdraw"}
  Services = {s1}
  Commands = {}
  LookAhead = 2
  MaxWakes = 0
  MaxCrashes = 0
CHECK_DEADLOCK FALSE
INVARIANT WithdrawnStaysOut
