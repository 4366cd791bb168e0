---------------------------- MODULE SingleCharge ----------------------------
(***************************************************************************)
(* What the payment side promises the customer of one booking: a single    *)
(* PaymentIntent is ever offered for it, it is charged at most once, and   *)
(* money only goes back once it was taken.  How initialisations,           *)
(* webhooks, jobs and refunds race is left to BookingLifecycle.            *)
(***************************************************************************)
CONSTANTS Intents, None

VARIABLES
  bill,    \* the intent the customer was offered, or None
  money    \* "kept" by the customer, "taken" or "returned"

Init == bill = None /\ money = "kept"

Offer ==
  /\ bill = None
  /\ bill' \in Intents
  /\ UNCHANGED money

Take ==
  /\ bill # None /\ money = "kept"
  /\ money' = "taken"
  /\ UNCHANGED bill

Return ==
  /\ money = "taken"
  /\ money' = "returned"
  /\ UNCHANGED bill

Next == Offer \/ Take \/ Return
vars == <<bill, money>>

Spec == Init /\ [][Next]_vars
=============================================================================
