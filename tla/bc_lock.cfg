CONSTANTS
  Users = {u1}
  Hotels = {h1, h2}
  Keys = {k1}
  Requests = {r1, r2, r3}
  Faults <- AnyFaults
  MaxCrashes = 1
  None = None
SPECIFICATION Spec
SYMMETRY Symmetry
CHECK_DEADLOCK FALSE
INVARIANTS
  TypeOK
  OneInFlight
  ReplayIsOwn
  OrphansLogged
  NothingLeftBehind
PROPERTY
  StoredResultStays
