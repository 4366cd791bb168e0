CONSTANTS
  Cancels = {c1, c2}
  CancelKeys = {k1, k2}
  Pays = {p1}
  Intents = {i1}
  Faults <- CancelFaults
  MaxCrashes = 1
  None = None
  NoKey = NoKey
SPECIFICATION Spec
SYMMETRY Symmetry
CHECK_DEADLOCK FALSE
INVARIANTS
  CancelledAtProvider
  ClosedPaymentIsCancelled
  MailedIsCancelled
  AtHotelNeverCharged
  CancelOncePerKey
  PendingIsWatched
  MarkIsWatched
PROPERTY
  CancelledLeftOnlyByCancel
