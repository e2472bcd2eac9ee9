\* One schedule, edited while it fires, without faults.
SPECIFICATION Spec
CONSTANTS
  a = a
  b = b
  c = c
  Schedules = {a}
  Grace = 1
  RetryDelay = 1
  ChannelDelay = 2
  MaxFailures = 2
  MaxPerUser = 1
  DueLimit = 2
  Period = 3
  Crons = {0}
  Horizon = 4
  MaxEdits = 3
  MaxFaults = 0
CHECK_DEADLOCK FALSE
INVARIANT
  MissedOnlyLate
