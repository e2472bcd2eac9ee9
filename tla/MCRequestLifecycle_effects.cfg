CONSTANTS
  alice = alice
  Messages = {1, 2}
  Author <- OneAuthor
  Handlers = {h1, h2}
  Turn = turn
  Retry = retry
  MaxAttempts = 2
  ErrorReplies = TRUE
  Deliveries <- Redelivered
  MaxCrashes = 0
SPECIFICATION Spec
SYMMETRY Symmetry
CHECK_DEADLOCK FALSE
INVARIANTS
  TypeOK
  EffectsOnce
  OneOwner
PROPERTY SupersededSilent
