CONSTANTS
  alice = alice
  Messages = {1, 2}
  Author <- OneAuthor
  Handlers = {h1}
  Turn = turn
  Retry = retry
  MaxAttempts = 2
  ErrorReplies = TRUE
  Deliveries <- Once
  MaxCrashes = 1
SPECIFICATION FairSpec
CHECK_DEADLOCK FALSE
PROPERTY Settled
