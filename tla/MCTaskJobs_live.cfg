\* One message, one submission: shutdown and deletion together, and progress.
SPECIFICATION Spec
CONSTANTS
  s1 = s1
  ann = ann
  j1 = j1
  j2 = j2
  Nobody = nobody
  Outside = outside
  Jobs = {j1}
  Sources = {s1}
  Users = {ann}
  Src <- OneJob
  Owner <- OneOwner
  Size <- OneSize
  MaxActive = 2
  MaxTurns = 2
  MaxCrashes = 1
CHECK_DEADLOCK FALSE
PROPERTIES
  ReservationFreed
  CancelEnds
