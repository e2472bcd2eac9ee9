CONSTANTS
  alice = alice
  Messages = {1, 2}
  Author <- OneAuthor
  Handlers = {h1}
  Turn = turn
  Retry = retry
  MaxAttempts = 2
  ErrorReplies = TRUE
  Deliveries <- Once
  MaxCrashes = 0
SPECIFICATION Spec
CHECK_DEADLOCK FALSE
PROPERTY SupersededByNewer
