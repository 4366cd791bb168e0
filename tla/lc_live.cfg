CONSTANTS
  Cancels = {c1}
  CancelKeys = {k1}
  Pays = {p1}
  Intents = {i1}
  Faults <- NoFaults
  MaxCrashes = 0
  None = None
  NoKey = NoKey
SPECIFICATION FairSpec
CHECK_DEADLOCK FALSE
PROPERTIES
  PendingSettles
  AtHotelCancelSettles
  PaidCancelSettles
