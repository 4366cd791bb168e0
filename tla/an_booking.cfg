CONSTANTS
  Bookings = {b1, b2}
  a1 = a1
  Admins <- MCAdmins
  Sockets = {s1, s2}
  Owner <- MCOwner
  Devices = {d1}
  MaxFaults = 1
  Customer = Customer
SPECIFICATION Spec
SYMMETRY Symmetry
CHECK_DEADLOCK FALSE
INVARIANTS
  ToldIsWatched
  OpenAdminsTold
  ReadWasFetched
