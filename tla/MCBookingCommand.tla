-------------------------- MODULE MCBookingCommand --------------------------
(* Small instances of BookingCommand.                                      *)
EXTENDS BookingCommand, TLC

AnyFaults == FaultKinds \ {"slow"}
KeyFaults == {"saveFails", "lostAnswer", "timeouts"}

OnlySaveFails == {"saveFails"}

Symmetry == Permutations(Requests) \cup Permutations(Keys)
            \cup Permutations(Hotels) \cup Permutations(Users)
=============================================================================
