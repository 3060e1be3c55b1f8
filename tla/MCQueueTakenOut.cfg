SPECIFICATION Spec
CONSTANTS
  None = None
  Schedules = {}
  Timing <- NoTiming
  Day = 2
  MaxTime = 0
  Ideas = {"a", "b"}
  Deliveries = {}
  Cap = 0
  MaxAttempts = 1
  Trouble = {"withdraw", "resend"}
  Services = {s1}
  Commands = {c1}
  LookAhead = 2
  MaxWakes = 0
  MaxCrashes = 1
CHECK_DEADLOCK FALSE
PROPERTY WithdrawalIsFinal
