\* One message, two submissions.
SPECIFICATION Spec
CONSTANTS
  s1 = s1
  ann = ann
  j1 = j1
  j2 = j2
  Nobody = nobody
  Outside = outside
  Jobs = {j1, j2}
  Sources = {s1}
  Users = {ann}
  Src <- OneMessage
  Owner <- OneOwner
  Size <- OneSize
  MaxActive = 2
  MaxTurns = 2
  MaxCrashes = 1
SYMMETRY Alike
CONSTRAINT Apart
CHECK_DEADLOCK FALSE
INVARIANTS
  TypeOK
  ReservationsExact
  OneRun
  OneResult
  CancelledSilent
  LedgerHonest
  ErasedStaysErased
  SettledUnlessAbandoned
