\* One channel, two authors, five messages, two of them to Maxwell.
SPECIFICATION Spec
CONSTANTS
  ann = ann
  bob = bob
  None = None
  Messages <- Lines
  Author <- AuthorOf
  Direct <- Addressed
CHECK_DEADLOCK FALSE
INVARIANTS
  TypeOK
  OneTimer
  DispatchedOnce
PROPERTIES
  OthersKept
  Answered
