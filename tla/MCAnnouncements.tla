-------------------------- MODULE MCAnnouncements ---------------------------
(* Small instances of Announcements: an admin with two sockets.            *)
EXTENDS Announcements, TLC

CONSTANT a1
MCAdmins == {a1}
MCOwner == [s \in Sockets |-> a1]

Symmetry == Permutations(Bookings) \cup Permutations(Sockets)
=============================================================================
