\* One schedule under many commands, and up to three that share ticks of two rows.
SPECIFICATION Spec
CONSTANTS
  a = a
  b = b
  c = c
  Schedules = {a, b, c}
  Grace = 1
  RetryDelay = 1
  ChannelDelay = 2
  MaxFailures = 2
  MaxPerUser = 3
  DueLimit = 2
  Period = 3
  Crons = {0}
  Horizon = 4
  MaxEdits = 3
  MaxFaults = 1
CONSTRAINT Apart
CHECK_DEADLOCK FALSE
INVARIANTS
  TypeOK
  OncePerDue
  GraceKept
  FailuresPause
PROPERTIES
  EditKept
  DueServed
