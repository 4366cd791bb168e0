------------------------- MODULE MCBookingLifecycle -------------------------
(* Small instances of BookingLifecycle: the requests are model values.     *)
EXTENDS BookingLifecycle, TLC

NoFaults == {}
CancelFaults == {"providerError", "noReference", "dbError", "saveFails", "crash"}
PayFaults == {"lostAnswer", "notifyFails", "dbError", "stripeError", "declines",
              "duplicates", "keyExpires", "redisFails"}

Symmetry == Permutations(Cancels) \cup Permutations(CancelKeys)
            \cup Permutations(Pays) \cup Permutations(Intents)
=============================================================================
