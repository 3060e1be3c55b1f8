SPECIFICATION Spec
CONSTANTS
  None = None
  Schedules = {"hourly"}
  Timing <- OneHourly
  Day = 2
  MaxTime = 2
  Ideas = {}
  Deliveries = {"n"}
  Cap = 0
  MaxAttempts = 1
  Trouble = {"admin", "withdraw", "resend", "disk", "stop", "cancel"}
  Services = {s1}
  Commands = {}
  LookAhead = 2
  MaxWakes = 0
  MaxCrashes = 0
CHECK_DEADLOCK FALSE
INVARIANT QueueBounded
INVARIANT ClaimsBringWork
PROPERTY FiringsSpaced
PROPERTY WithdrawalIsFinal
