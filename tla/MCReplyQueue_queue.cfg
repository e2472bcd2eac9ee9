\* Two channels under both limits: accounting, retention, ownership, order, progress.
SPECIFICATION Spec
CONSTANTS
  c1 = c1
  c2 = c2
  m1 = m1
  m2 = m2
  m3 = m3
  n1 = n1
  ann = ann
  bob = bob
  None = None
  Channels <- TwoRooms
  Messages <- FourMessages
  Authors = {ann, bob}
  Chan <- RoomOf
  Author <- AuthorOf
  Protected = {m2}
  WatchBurst <- NoBurst
  MaxDirected = 2
  MaxOutstanding = 3
INVARIANTS
  TypeOK
  SlotsAccounted
  RetainedOnce
  NoLostWakeup
  NoOrphanReply
PROPERTIES
  DirectedKept
  DropsReported
  PromiseKept
  DirectedServed
  CloseReturns
