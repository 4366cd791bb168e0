CONSTANTS
  Requests = {r1, r2, r3}
  Addresses = {a1, a2}
  MaxCrashes = 1
  None = None
SPECIFICATION Spec
SYMMETRY Symmetry
CHECK_DEADLOCK FALSE
INVARIANTS
  ShownCodesStored
  CodeResetsOnce
  PhotoExists
