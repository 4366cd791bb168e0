CONSTANTS
  Users = {u1}
  Hotels = {h1}
  Keys = {k1}
  Requests = {r1, r2, r3}
  Faults <- OnlySaveFails
  MaxCrashes = 1
  None = None
SPECIFICATION Spec

CHECK_DEADLOCK FALSE
INVARIANT ReservedOncePerKey
