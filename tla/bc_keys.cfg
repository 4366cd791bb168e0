CONSTANTS
  Users = {u1}
  Hotels = {h1}
  Keys = {k1, k2}
  Requests = {r1, r2, r3, r4}
  Faults <- KeyFaults
  MaxCrashes = 1
  None = None
SPECIFICATION Spec
SYMMETRY Symmetry
CHECK_DEADLOCK FALSE
PROPERTY
  BookedOncePerKey
