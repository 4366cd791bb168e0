CONSTANTS
  Requests = {r1, r2, r3, r4}
  MaxCrashes = 1
  None = None
SPECIFICATION Spec
SYMMETRY Symmetry
CHECK_DEADLOCK FALSE
INVARIANTS
  OneTokenPerLogin
  OldSessionsSwept
  LoggedOutEverywhere
PROPERTY
  EndedForGood
