----------------------------- MODULE OncePerKey -----------------------------
(***************************************************************************)
(* What an idempotency key promises: one booking per key, and every client *)
(* that is shown a booking for the key is shown that one.  Locks, conflicts *)
(* and retries are left to BookingCommand.                                 *)
(***************************************************************************)
CONSTANTS Slots, Requests, None

VARIABLES
  row,    \* the request that made the booking of each key, or None
  shown   \* the request whose booking each client was shown, or None

vars == <<row, shown>>

Init ==
  /\ row = [s \in Slots |-> None]
  /\ shown = [r \in Requests |-> None]

Make(s, r) ==
  /\ row[s] = None
  /\ row' = [row EXCEPT ![s] = r]
  /\ UNCHANGED shown

Show(s, r) ==
  /\ row[s] # None /\ shown[r] = None
  /\ shown' = [shown EXCEPT ![r] = row[s]]
  /\ UNCHANGED row

Next == \E s \in Slots, r \in Requests : Make(s, r) \/ Show(s, r)

Spec == Init /\ [][Next]_vars
=============================================================================
