CONSTANTS
  Cancels = {c1}
  CancelKeys = {k1}
  Pays = {p1, p2}
  Intents = {i1, i2}
  Faults <- PayFaults
  MaxCrashes = 1
  None = None
  NoKey = NoKey
SPECIFICATION Spec
SYMMETRY Symmetry
CHECK_DEADLOCK FALSE
INVARIANTS
  TypeOK
  CompletedIsCaptured
  ConfirmedByPayment
PROPERTIES
  ChargedOnce
  PendingOnce
