\* Startup, two operations, one cancelled caller.
SPECIFICATION Spec
CONSTANTS
  base = base
  addon = addon
  solo = solo
  None = None
  Plugins = {base, addon, solo}
  Deps <- Needs
  Rank <- Order
  Async = {base}
  Working = {addon}
  Installed = {solo}
  MaxOps = 2
  MaxCancels = 1
CHECK_DEADLOCK FALSE
INVARIANTS
  TypeOK
  NothingHalfLoaded
PROPERTIES
  InOrder
  ClosedOnce
