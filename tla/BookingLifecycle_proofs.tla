----------------------- MODULE BookingLifecycle_proofs -----------------------
(***************************************************************************)
(* Proofs about BookingLifecycle, for every set of requests and intents,   *)
(* every set of faults and any number of crashes.  IInv is the inductive   *)
(* invariant; its parts are proved one after the other, each using those   *)
(* before it.                                                              *)
(***************************************************************************)
EXTENDS BookingLifecycle, TLAPS

\* A job that still may run has failed less often than it may.
AttemptsLeft ==
  \A c \in Cancels :
    job[c] \in ActiveJob \cup {"none", "waiting"} => attempts[c] < JobAttempts

\* A request has no job before it queues one.
NoJobYet ==
  \A c \in Cancels :
    cpc[c] \in {"idle", "peeking", "locked", "checked", "marked"} => job[c] = "none"

\* Intents the application looks up exist.
IntentsNamed ==
  /\ payStatus # "none" => payIntent \in Intents
  /\ payIntent # None \/ expiryPayment # None => payStatus # "none"
  /\ \A p \in Pays : ppc[p] = "inserting" => pintent[p] \in Intents
  /\ refund = "asking" => refundIntent \in Intents

Typed == TypeOK /\ AttemptsLeft /\ NoJobYet /\ IntentsNamed

\* Nothing addresses the booking before its row exists.
NothingBeforeRow ==
  /\ creation \in {"confirming", "saving"} => status = "absent"
  /\ status = "absent" =>
       /\ expiry = "none" /\ ~mailed /\ payStatus = "none"
       /\ creation \in {"confirming", "saving", "lost"}
       /\ \A p \in Pays : ppc[p] = "idle"
       /\ \A c \in Cancels : cpc[c] = "idle"

\* What the expiry job may tell the customer.
Settled ==
  \/ reservation = "cancelled" /\ status # "PENDING"
  \/ reservation = "unclear" /\ "noReference" \in Faults

\* What a worker knows of the reservation when it is about to write.
WorkerKnowledge ==
  /\ \A c \in Cancels :
       /\ job[c] = "serviceWrite" => reservation = "cancelled"
       /\ job[c] = "providerWrite" => Released
       /\ job[c] \in {"viaProvider", "providerWrite"} => ptype = "AT_WEB"
  /\ expiry = "writing" => reservation = "cancelled"
  /\ expiry = "mailing" => Settled
  /\ mailed => expiry = "done"

GivenUpFirst == CancelledAtProvider /\ ClosedPaymentIsCancelled /\ MailedIsCancelled

Room == WorkerKnowledge /\ GivenUpFirst

\* One intent is offered, the one of the payment row, and only an offered
\* intent is charged.
Money ==
  /\ offered # {} => payStatus # "none" /\ offered = {payIntent}
  /\ \A i \in Intents :
       /\ hook[i] # "none" => intent[i] \in {"captured", "refunded"}
       /\ intent[i] \in {"captured", "refunded"} => i \in offered
  /\ CompletedIsCaptured

\* No payment of a booking payable at the hotel even starts.
NoWebPayment ==
  ptype = "AT_HOTEL" =>
    /\ status # "PENDING" /\ payStatus = "none" /\ offered = {}
    /\ \A p \in Pays :
         ppc[p] \notin {"checked", "creating", "inserting", "paid"}

\* A request that passed the lock, or queued a job, owns its key.
Owner(c) == cpc[c] \in {"locked", "checked", "marked"} \/ job[c] # "none"
KeysOwned ==
  {"keyExpires", "redisFails"} \cap Faults = {} =>
    /\ \A c \in Cancels :
         Owner(c) => ckey[c] \in CancelKeys /\ keys[ckey[c]] # "free"
    /\ \A c, d \in Cancels :
         Owner(c) /\ Owner(d) /\ ckey[c] = ckey[d] => c = d

\* A job exists only for a booking that was marked, and a mark is not undone to
\* PENDING: the worker finds a web booking marked, paid or settled.
JobsFollowMarks ==
  /\ \A c \in Cancels :
       status = "PENDING" => job[c] = "none" /\ cpc[c] \notin {"marked", "enqueued"}
  /\ \A c \in Cancels : job[c] = "viaService" => ptype = "AT_HOTEL"

\* The expiry job comes from the booking's event.
JobFollowsEvent == expiry # "none" => creation = "done"

Watched == JobsFollowMarks /\ JobFollowsEvent /\ PendingIsWatched /\ MarkIsWatched

IInv == /\ Typed /\ NothingBeforeRow /\ Room /\ Money /\ NoWebPayment
        /\ KeysOwned /\ ConfirmedByPayment /\ Watched
-----------------------------------------------------------------------------
\* TypeOK and the bound on failed attempts hold initially.
LEMMA TypedInit == Init => Typed
<1> SUFFICES ASSUME Init PROVE Typed
    OBVIOUS
<1> USE NoneAssumption DEF Init, JobAttempts
<1>1. BookingTypes /\ ExpiryTypes
      BY DEF BookingTypes, ExpiryTypes, Statuses, BookingPaymentTypes
<1>2. PaymentTypes
      BY DEF PaymentTypes
<1>3. RequestTypes
      BY DEF RequestTypes
<1>4. AttemptsLeft /\ NoJobYet /\ IntentsNamed
      BY DEF AttemptsLeft, NoJobYet, IntentsNamed
<1> QED BY <1>1, <1>2, <1>3, <1>4 DEF Typed, TypeOK

\* ... and every step keeps them.
LEMMA TypedNext == Typed /\ [Next]_vars => Typed'
<1> SUFFICES ASSUME Typed, [Next]_vars PROVE Typed'
    OBVIOUS
<1> USE NoneAssumption, CrashAssumption
    DEF Typed, TypeOK, AttemptsLeft, NoJobYet, IntentsNamed, BookingTypes,
        PaymentTypes, RequestTypes, ExpiryTypes, ActiveJob, ActiveExpiry,
        Statuses, BookingPaymentTypes, JobAttempts, bookingVars, payRow, stripe, pays,
        requests, jobs, expiryVars, adminVars, envVars
<1>1. CASE ConfirmAtProvider \/ Creation
      BY <1>1 DEF ConfirmAtProvider, Creation, CreateBooking, InitialStatus,
                  CreateBookingFails, ScheduleExpiry, EventHandlerFails
<1>2. ASSUME NEW p \in Pays, PayStep(p) PROVE Typed'
      <2>1. CASE PayReadsBooking(p)
            BY <2>1 DEF PayReadsBooking
      <2>2. CASE PayLooksUpPayment(p)
            BY <2>2 DEF PayLooksUpPayment
      <2>3. CASE PayCreatesIntent(p)
            BY <2>3 DEF PayCreatesIntent
      <2>4. CASE PayRefusedByStripe(p)
            BY <2>4 DEF PayRefusedByStripe
      <2>5. CASE PayInsertsPayment(p)
            BY <2>5 DEF PayInsertsPayment, InsertedStatus, Insertable
      <2>6. CASE PayInsertRefused(p)
            BY <2>6 DEF PayInsertRefused
      <2> QED BY <1>2, <2>1, <2>2, <2>3, <2>4, <2>5, <2>6 DEF PayStep
<1>3. ASSUME NEW i \in Intents, Customer(i) \/ HookStep(i) \/ StripeRedelivers(i)
      PROVE  Typed'
      BY <1>3 DEF Customer, CustomerPays, CardDeclined, HookStep,
         WebhookApplies, WebhookMatches, WebhookRefused, WebhookAcknowledged,
         WebhookQueueFails, FailureNoticeRefused, StripeRedelivers
<1>4. ASSUME NEW c \in Cancels, NEW k \in CancelKeys, CancelArrives(c, k)
      PROVE  Typed'
      BY <1>4 DEF CancelArrives, CancelKeyFree
<1>5. ASSUME NEW c \in Cancels, CancelStep(c) PROVE Typed'
      <2>1. CASE CancelPeeks(c)
            BY <2>1 DEF CancelPeeks
      <2>2. CASE CancelChecks(c)
            BY <2>2 DEF CancelChecks, RejectCancel
      <2>3. CASE CancelMarks(c)
            BY <2>3 DEF CancelMarks
      <2>4. CASE CancelMarkFails(c)
            <3>1. RequestTypes'
                  BY <2>4 DEF CancelMarkFails, RejectCancel
            <3> QED BY <2>4, <3>1 DEF CancelMarkFails, RejectCancel
      <2>5. CASE CancelEnqueues(c)
            BY <2>5 DEF CancelEnqueues
      <2>6. CASE CancelStoresResult(c)
            <3>1. RequestTypes'
                  BY <2>6 DEF CancelStoresResult
            <3> QED BY <2>6, <3>1 DEF CancelStoresResult
      <2>7. CASE CancelRedisFails(c)
            <3>1. RequestTypes'
                  BY <2>7 DEF CancelRedisFails, RejectCancel
            <3> QED BY <2>7, <3>1 DEF CancelRedisFails, RejectCancel
      <2> QED BY <1>5, <2>1, <2>2, <2>3, <2>4, <2>5, <2>6, <2>7 DEF CancelStep
<1>6. ASSUME NEW c \in Cancels, JobStep(c) PROVE Typed'
      <2>1. CASE JobReadsBooking(c)
            BY <2>1 DEF JobReadsBooking
      <2>2. CASE JobCancelsViaService(c)
            BY <2>2 DEF JobCancelsViaService, ProviderAnswers
      <2>3. CASE JobServiceWrites(c)
            BY <2>3 DEF JobServiceWrites
      <2>4. CASE JobCancelsViaProvider(c)
            BY <2>4 DEF JobCancelsViaProvider, ProviderAnswers
      <2>5. CASE JobProviderWrites(c)
            BY <2>5 DEF JobProviderWrites
      <2>6. CASE JobWriteFails(c)
            BY <2>6 DEF JobWriteFails
      <2>7. CASE JobReverts(c)
            BY <2>7 DEF JobReverts, RevertedStatus, FailAttempt
      <2>8. CASE JobRevertFails(c)
            BY <2>8 DEF JobRevertFails, FailAttempt
      <2> QED BY <1>6, <2>1, <2>2, <2>3, <2>4, <2>5, <2>6, <2>7, <2>8 DEF JobStep
<1>7. CASE ExpiryStep
      <2>1. CASE ExpiryReadsBooking
            BY <2>1 DEF ExpiryReadsBooking, PendingFound
      <2>2. CASE ExpiryCancelsAtProvider
            BY <2>2 DEF ExpiryCancelsAtProvider, ProviderAnswers, AfterAnswer, ServiceCancelled
      <2>3. CASE ExpiryWrites
            <3>1. ExpiryTypes' /\ PaymentTypes'
                  BY <2>3 DEF ExpiryWrites
            <3> QED BY <2>3, <3>1 DEF ExpiryWrites
      <2>4. CASE ExpiryWriteFails
            BY <2>4 DEF ExpiryWriteFails
      <2>5. CASE ExpiryMails
            BY <2>5 DEF ExpiryMails
      <2>6. CASE ExpiryNotifyFails
            BY <2>6 DEF ExpiryNotifyFails
      <2> QED BY <1>7, <2>1, <2>2, <2>3, <2>4, <2>5, <2>6 DEF ExpiryStep
<1>8. CASE RefundStep
      BY <1>8 DEF RefundStep, RefundReadsBooking, RefundAtStripe
<1>9. CASE CheckInComes
      BY <1>9 DEF CheckInComes
<1>10. ASSUME NEW k \in CancelKeys, KeyExpires(k) PROVE Typed'
      BY <1>10 DEF KeyExpires
<1>11. CASE Crash
      BY <1>11 DEF Crash, AfterStall
<1>12. CASE UNCHANGED vars
      BY <1>12 DEF vars
<1> QED
    BY <1>1, <1>2, <1>3, <1>4, <1>5, <1>6, <1>7, <1>8, <1>9, <1>10, <1>11,
       <1>12 DEF Next

-----------------------------------------------------------------------------
\* Requests, jobs and payments come after the row.
LEMMA NothingBeforeRowNext ==
  Typed /\ NothingBeforeRow /\ [Next]_vars => NothingBeforeRow'
<1> SUFFICES ASSUME Typed, NothingBeforeRow, [Next]_vars
             PROVE  NothingBeforeRow'
    OBVIOUS
<1> USE DEF Typed, TypeOK, BookingTypes, PaymentTypes, RequestTypes,
          ExpiryTypes, NoJobYet, NothingBeforeRow, ActiveExpiry, bookingVars, payRow,
          stripe, pays, requests, jobs, expiryVars, adminVars, envVars
<1>1. CASE ConfirmAtProvider \/ Creation
      BY <1>1 DEF ConfirmAtProvider, Creation, CreateBooking, InitialStatus,
         CreateBookingFails, ScheduleExpiry, EventHandlerFails
<1>2. ASSUME NEW p \in Pays, PayStep(p) PROVE NothingBeforeRow'
      BY <1>2 DEF PayStep, PayReadsBooking, PayLooksUpPayment,
         PayCreatesIntent, PayRefusedByStripe, PayInsertsPayment, Insertable,
         InsertedStatus, PayInsertRefused
<1>3. ASSUME NEW i \in Intents, Customer(i) \/ HookStep(i) \/ StripeRedelivers(i)
      PROVE  NothingBeforeRow'
      BY <1>3 DEF Customer, CustomerPays, CardDeclined, HookStep,
         WebhookApplies, WebhookMatches, WebhookRefused, WebhookAcknowledged,
         WebhookQueueFails, FailureNoticeRefused, StripeRedelivers
<1>4. ASSUME NEW c \in Cancels, NEW k \in CancelKeys, CancelArrives(c, k)
      PROVE  NothingBeforeRow'
      BY <1>4 DEF CancelArrives, CancelKeyFree
<1>5. ASSUME NEW c \in Cancels, CancelStep(c) PROVE NothingBeforeRow'
      BY <1>5 DEF CancelStep, CancelPeeks, CancelChecks, RejectCancel,
         CancelMarks, CancelMarkFails, CancelEnqueues, CancelStoresResult,
         CancelRedisFails
<1>6. ASSUME NEW c \in Cancels, JobStep(c) PROVE NothingBeforeRow'
      BY <1>6 DEF JobStep, JobReadsBooking, ViaService, ViaProvider,
         JobCancelsViaService, ServiceCancelled, ProviderAnswers,
         JobServiceWrites, JobCancelsViaProvider, ProviderCancelled,
         JobProviderWrites, JobWriteFails, JobReverts, RevertedStatus,
         FailAttempt, JobRevertFails
<1>7. CASE ExpiryStep
      BY <1>7 DEF ExpiryStep, ExpiryReadsBooking, PendingFound,
         ExpiryCancelsAtProvider, ProviderAnswers, AfterAnswer, ServiceCancelled,
         ExpiryWrites, ExpiryWriteFails, ExpiryMails, ExpiryNotifyFails
<1>8. CASE RefundStep \/ CheckInComes
      BY <1>8 DEF RefundStep, RefundReadsBooking, RefundAtStripe, CheckInComes
<1>9. ASSUME NEW k \in CancelKeys, KeyExpires(k) PROVE NothingBeforeRow'
      BY <1>9 DEF KeyExpires
<1>10. CASE Crash
      BY <1>10 DEF Crash, AfterStall
<1>11. CASE UNCHANGED vars
      BY <1>11 DEF vars
<1> QED
    BY <1>1, <1>2, <1>3, <1>4, <1>5, <1>6, <1>7, <1>8, <1>9, <1>10, <1>11
       DEF Next

-----------------------------------------------------------------------------
\* The room: the row says CANCELLED, the payment is closed and the customer is
\* told only after the provider's answer; no job works on a PENDING booking.
LEMMA RoomNext ==
  /\ Typed /\ NothingBeforeRow /\ Room /\ JobsFollowMarks /\ JobFollowsEvent
  /\ [Next]_vars
  => Room'
<1> SUFFICES ASSUME Typed, NothingBeforeRow, Room, JobsFollowMarks,
                    JobFollowsEvent, [Next]_vars
             PROVE  Room'
    OBVIOUS
<1> USE DEF Typed, TypeOK, BookingTypes, RequestTypes, ExpiryTypes,
          NoJobYet, NothingBeforeRow, ActiveExpiry, ActiveJob, Room, WorkerKnowledge,
          GivenUpFirst, CancelledAtProvider, ClosedPaymentIsCancelled, MailedIsCancelled,
          Settled, Released, bookingVars, payRow, stripe, pays, requests, jobs, expiryVars,
          adminVars, envVars
<1>1. CASE ConfirmAtProvider \/ Creation
      BY <1>1 DEF JobFollowsEvent, ConfirmAtProvider, Creation, CreateBooking, InitialStatus,
         CreateBookingFails, ScheduleExpiry, EventHandlerFails
<1>2. ASSUME NEW p \in Pays, PayStep(p) PROVE Room'
      BY <1>2 DEF PayStep, PayReadsBooking, PayLooksUpPayment,
         PayCreatesIntent, PayRefusedByStripe, PayInsertsPayment, Insertable,
         InsertedStatus, PayInsertRefused
<1>3. ASSUME NEW i \in Intents, Customer(i) \/ HookStep(i) \/ StripeRedelivers(i)
      PROVE  Room'
      BY <1>3 DEF Customer, CustomerPays, CardDeclined, HookStep,
         WebhookApplies, WebhookMatches, WebhookRefused, WebhookAcknowledged,
         WebhookQueueFails, FailureNoticeRefused, StripeRedelivers
<1>4. ASSUME NEW c \in Cancels, NEW k \in CancelKeys, CancelArrives(c, k)
      PROVE  Room'
      BY <1>4 DEF CancelArrives, CancelKeyFree
<1>5. ASSUME NEW c \in Cancels, CancelStep(c) PROVE Room'
      BY <1>5 DEF CancelStep, CancelPeeks, CancelChecks, RejectCancel,
         CancelMarks, CancelMarkFails, CancelEnqueues, CancelStoresResult,
         CancelRedisFails
<1>6. ASSUME NEW c \in Cancels, JobStep(c) PROVE Room'
      BY <1>6 DEF JobsFollowMarks, JobStep, JobReadsBooking, ViaService, ViaProvider,
         JobCancelsViaService, ServiceCancelled, ProviderAnswers,
         JobServiceWrites, JobCancelsViaProvider, ProviderCancelled,
         JobProviderWrites, JobWriteFails, JobReverts, RevertedStatus,
         FailAttempt, JobRevertFails
<1>7. CASE ExpiryStep
      <2>1. CASE ExpiryReadsBooking
            BY <2>1 DEF ExpiryReadsBooking, PendingFound
      <2>2. CASE ExpiryCancelsAtProvider
            BY <2>2 DEF ExpiryCancelsAtProvider, ProviderAnswers, AfterAnswer,
               ServiceCancelled
      <2>3. CASE ExpiryWrites \/ ExpiryWriteFails
            BY <2>3 DEF ExpiryWrites, ExpiryWriteFails
      <2>4. CASE ExpiryMails \/ ExpiryNotifyFails
            BY <2>4 DEF ExpiryMails, ExpiryNotifyFails
      <2> QED BY <1>7, <2>1, <2>2, <2>3, <2>4 DEF ExpiryStep
<1>8. CASE RefundStep \/ CheckInComes
      BY <1>8 DEF RefundStep, RefundReadsBooking, RefundAtStripe, CheckInComes
<1>9. ASSUME NEW k \in CancelKeys, KeyExpires(k) PROVE Room'
      BY <1>9 DEF KeyExpires
<1>10. CASE Crash
      BY <1>10 DEF Crash, AfterStall
<1>11. CASE UNCHANGED vars
      BY <1>11 DEF vars
<1> QED
    BY <1>1, <1>2, <1>3, <1>4, <1>5, <1>6, <1>7, <1>8, <1>9, <1>10, <1>11
       DEF Next

-----------------------------------------------------------------------------
\* The money: one intent offered, charged only if offered.
LEMMA MoneyNext ==
  Typed /\ NothingBeforeRow /\ Money /\ [Next]_vars => Money'
<1> SUFFICES ASSUME Typed, NothingBeforeRow, Money, [Next]_vars
             PROVE  Money'
    OBVIOUS
<1> USE DEF Typed, TypeOK, BookingTypes, PaymentTypes, RequestTypes,
          ExpiryTypes, IntentsNamed, NothingBeforeRow, Money, CompletedIsCaptured,
          bookingVars, payRow, stripe, pays, requests, jobs, expiryVars, adminVars,
          envVars
<1>1. CASE ConfirmAtProvider \/ Creation
      BY <1>1 DEF ConfirmAtProvider, Creation, CreateBooking, InitialStatus,
         CreateBookingFails, ScheduleExpiry, EventHandlerFails
<1>2. ASSUME NEW p \in Pays, PayStep(p) PROVE Money'
      BY <1>2 DEF PayStep, PayReadsBooking, PayLooksUpPayment,
         PayCreatesIntent, PayRefusedByStripe, PayInsertsPayment, Insertable,
         InsertedStatus, PayInsertRefused
<1>3. ASSUME NEW i \in Intents, Customer(i) \/ HookStep(i) \/ StripeRedelivers(i)
      PROVE  Money'
      BY <1>3 DEF Customer, CustomerPays, CardDeclined, HookStep,
         WebhookApplies, WebhookMatches, WebhookRefused, WebhookAcknowledged,
         WebhookQueueFails, FailureNoticeRefused, StripeRedelivers
<1>4. ASSUME NEW c \in Cancels, NEW k \in CancelKeys, CancelArrives(c, k)
      PROVE  Money'
      BY <1>4 DEF CancelArrives, CancelKeyFree
<1>5. ASSUME NEW c \in Cancels, CancelStep(c) PROVE Money'
      BY <1>5 DEF CancelStep, CancelPeeks, CancelChecks, RejectCancel,
         CancelMarks, CancelMarkFails, CancelEnqueues, CancelStoresResult,
         CancelRedisFails
<1>6. ASSUME NEW c \in Cancels, JobStep(c) PROVE Money'
      BY <1>6 DEF JobStep, JobReadsBooking, ViaService, ViaProvider,
         JobCancelsViaService, ServiceCancelled, ProviderAnswers,
         JobServiceWrites, JobCancelsViaProvider, ProviderCancelled,
         JobProviderWrites, JobWriteFails, JobReverts, RevertedStatus,
         FailAttempt, JobRevertFails
<1>7. CASE ExpiryStep
      BY <1>7 DEF ExpiryStep, ExpiryReadsBooking, PendingFound,
         ExpiryCancelsAtProvider, ProviderAnswers, AfterAnswer, ServiceCancelled,
         ExpiryWrites, ExpiryWriteFails, ExpiryMails, ExpiryNotifyFails
<1>8. CASE RefundStep \/ CheckInComes
      BY <1>8 DEF RefundStep, RefundReadsBooking, RefundAtStripe, CheckInComes
<1>9. ASSUME NEW k \in CancelKeys, KeyExpires(k) PROVE Money'
      BY <1>9 DEF KeyExpires
<1>10. CASE Crash
      BY <1>10 DEF Crash, AfterStall
<1>11. CASE UNCHANGED vars
      BY <1>11 DEF vars
<1> QED
    BY <1>1, <1>2, <1>3, <1>4, <1>5, <1>6, <1>7, <1>8, <1>9, <1>10, <1>11
       DEF Next

-----------------------------------------------------------------------------
\* Bookings payable at the hotel stay out of the payment service.
LEMMA NoWebPaymentNext ==
  Typed /\ Room /\ NoWebPayment /\ [Next]_vars => NoWebPayment'
<1> SUFFICES ASSUME Typed, Room, NoWebPayment, [Next]_vars
             PROVE  NoWebPayment'
    OBVIOUS
<1> USE DEF Typed, TypeOK, BookingTypes, PaymentTypes, RequestTypes,
          ExpiryTypes, IntentsNamed, Room, WorkerKnowledge, NoWebPayment, bookingVars,
          payRow, stripe, pays, requests, jobs, expiryVars, adminVars, envVars
<1>1. CASE ConfirmAtProvider \/ Creation
      BY <1>1 DEF ConfirmAtProvider, Creation, CreateBooking, InitialStatus,
         CreateBookingFails, ScheduleExpiry, EventHandlerFails
<1>2. ASSUME NEW p \in Pays, PayStep(p) PROVE NoWebPayment'
      BY <1>2 DEF PayStep, PayReadsBooking, PayLooksUpPayment,
         PayCreatesIntent, PayRefusedByStripe, PayInsertsPayment, Insertable,
         InsertedStatus, PayInsertRefused
<1>3. ASSUME NEW i \in Intents, Customer(i) \/ HookStep(i) \/ StripeRedelivers(i)
      PROVE  NoWebPayment'
      BY <1>3 DEF Customer, CustomerPays, CardDeclined, HookStep,
         WebhookApplies, WebhookMatches, WebhookRefused, WebhookAcknowledged,
         WebhookQueueFails, FailureNoticeRefused, StripeRedelivers
<1>4. ASSUME NEW c \in Cancels, NEW k \in CancelKeys, CancelArrives(c, k)
      PROVE  NoWebPayment'
      BY <1>4 DEF CancelArrives, CancelKeyFree
<1>5. ASSUME NEW c \in Cancels, CancelStep(c) PROVE NoWebPayment'
      BY <1>5 DEF CancelStep, CancelPeeks, CancelChecks, RejectCancel,
         CancelMarks, CancelMarkFails, CancelEnqueues, CancelStoresResult,
         CancelRedisFails
<1>6. ASSUME NEW c \in Cancels, JobStep(c) PROVE NoWebPayment'
      BY <1>6 DEF JobStep, JobReadsBooking, ViaService, ViaProvider,
         JobCancelsViaService, ServiceCancelled, ProviderAnswers,
         JobServiceWrites, JobCancelsViaProvider, ProviderCancelled,
         JobProviderWrites, JobWriteFails, JobReverts, RevertedStatus,
         FailAttempt, JobRevertFails
<1>7. CASE ExpiryStep
      BY <1>7 DEF ExpiryStep, ExpiryReadsBooking, PendingFound,
         ExpiryCancelsAtProvider, ProviderAnswers, AfterAnswer, ServiceCancelled,
         ExpiryWrites, ExpiryWriteFails, ExpiryMails, ExpiryNotifyFails
<1>8. CASE RefundStep \/ CheckInComes
      BY <1>8 DEF RefundStep, RefundReadsBooking, RefundAtStripe, CheckInComes
<1>9. ASSUME NEW k \in CancelKeys, KeyExpires(k) PROVE NoWebPayment'
      BY <1>9 DEF KeyExpires
<1>10. CASE Crash
      BY <1>10 DEF Crash, AfterStall
<1>11. CASE UNCHANGED vars
      BY <1>11 DEF vars
<1> QED
    BY <1>1, <1>2, <1>3, <1>4, <1>5, <1>6, <1>7, <1>8, <1>9, <1>10, <1>11
       DEF Next

-----------------------------------------------------------------------------
\* While keys live, each has one owner.
LEMMA KeysOwnedNext ==
  Typed /\ KeysOwned /\ [Next]_vars => KeysOwned'
<1> SUFFICES ASSUME Typed, KeysOwned, [Next]_vars
             PROVE  KeysOwned'
    OBVIOUS
<1> USE DEF Typed, TypeOK, BookingTypes, PaymentTypes, RequestTypes,
          ExpiryTypes, NoJobYet, KeysOwned, Owner, ActiveJob, bookingVars, payRow,
          stripe, pays, requests, jobs, expiryVars, adminVars, envVars
<1>1. CASE ConfirmAtProvider \/ Creation
      BY <1>1 DEF ConfirmAtProvider, Creation, CreateBooking, InitialStatus,
         CreateBookingFails, ScheduleExpiry, EventHandlerFails
<1>2. ASSUME NEW p \in Pays, PayStep(p) PROVE KeysOwned'
      BY <1>2 DEF PayStep, PayReadsBooking, PayLooksUpPayment,
         PayCreatesIntent, PayRefusedByStripe, PayInsertsPayment, Insertable,
         InsertedStatus, PayInsertRefused
<1>3. ASSUME NEW i \in Intents, Customer(i) \/ HookStep(i) \/ StripeRedelivers(i)
      PROVE  KeysOwned'
      BY <1>3 DEF Customer, CustomerPays, CardDeclined, HookStep,
         WebhookApplies, WebhookMatches, WebhookRefused, WebhookAcknowledged,
         WebhookQueueFails, FailureNoticeRefused, StripeRedelivers
<1>4. ASSUME NEW c \in Cancels, NEW k \in CancelKeys, CancelArrives(c, k)
      PROVE  KeysOwned'
      BY <1>4 DEF CancelArrives, CancelKeyFree
<1>5. ASSUME NEW c \in Cancels, CancelStep(c) PROVE KeysOwned'
      BY <1>5 DEF CancelStep, CancelPeeks, CancelChecks, RejectCancel,
         CancelMarks, CancelMarkFails, CancelEnqueues, CancelStoresResult,
         CancelRedisFails
<1>6. ASSUME NEW c \in Cancels, JobStep(c) PROVE KeysOwned'
      BY <1>6 DEF JobStep, JobReadsBooking, ViaService, ViaProvider,
         JobCancelsViaService, ServiceCancelled, ProviderAnswers,
         JobServiceWrites, JobCancelsViaProvider, ProviderCancelled,
         JobProviderWrites, JobWriteFails, JobReverts, RevertedStatus,
         FailAttempt, JobRevertFails
<1>7. CASE ExpiryStep
      BY <1>7 DEF ExpiryStep, ExpiryReadsBooking, PendingFound,
         ExpiryCancelsAtProvider, ProviderAnswers, AfterAnswer, ServiceCancelled,
         ExpiryWrites, ExpiryWriteFails, ExpiryMails, ExpiryNotifyFails
<1>8. CASE RefundStep \/ CheckInComes
      BY <1>8 DEF RefundStep, RefundReadsBooking, RefundAtStripe, CheckInComes
<1>9. ASSUME NEW k \in CancelKeys, KeyExpires(k) PROVE KeysOwned'
      BY <1>9 DEF KeyExpires
<1>10. CASE Crash
      BY <1>10 DEF Crash, AfterStall
<1>11. CASE UNCHANGED vars
      BY <1>11 DEF vars
<1> QED
    BY <1>1, <1>2, <1>3, <1>4, <1>5, <1>6, <1>7, <1>8, <1>9, <1>10, <1>11
       DEF Next

-----------------------------------------------------------------------------
\* A web booking is confirmed by its payment.
LEMMA ConfirmedNext ==
  Typed /\ NothingBeforeRow /\ ConfirmedByPayment /\ [Next]_vars => ConfirmedByPayment'
<1> SUFFICES ASSUME Typed, NothingBeforeRow, ConfirmedByPayment, [Next]_vars
             PROVE  ConfirmedByPayment'
    OBVIOUS
<1> USE DEF Typed, TypeOK, BookingTypes, PaymentTypes, RequestTypes,
          ExpiryTypes, NothingBeforeRow, ConfirmedByPayment, bookingVars, payRow,
          stripe, pays, requests, jobs, expiryVars, adminVars, envVars
<1>1. CASE ConfirmAtProvider \/ Creation
      BY <1>1 DEF ConfirmAtProvider, Creation, CreateBooking, InitialStatus,
         CreateBookingFails, ScheduleExpiry, EventHandlerFails
<1>2. ASSUME NEW p \in Pays, PayStep(p) PROVE ConfirmedByPayment'
      BY <1>2 DEF PayStep, PayReadsBooking, PayLooksUpPayment,
         PayCreatesIntent, PayRefusedByStripe, PayInsertsPayment, Insertable,
         InsertedStatus, PayInsertRefused
<1>3. ASSUME NEW i \in Intents, Customer(i) \/ HookStep(i) \/ StripeRedelivers(i)
      PROVE  ConfirmedByPayment'
      BY <1>3 DEF Customer, CustomerPays, CardDeclined, HookStep,
         WebhookApplies, WebhookMatches, WebhookRefused, WebhookAcknowledged,
         WebhookQueueFails, FailureNoticeRefused, StripeRedelivers
<1>4. ASSUME NEW c \in Cancels, NEW k \in CancelKeys, CancelArrives(c, k)
      PROVE  ConfirmedByPayment'
      BY <1>4 DEF CancelArrives, CancelKeyFree
<1>5. ASSUME NEW c \in Cancels, CancelStep(c) PROVE ConfirmedByPayment'
      BY <1>5 DEF CancelStep, CancelPeeks, CancelChecks, RejectCancel,
         CancelMarks, CancelMarkFails, CancelEnqueues, CancelStoresResult,
         CancelRedisFails
<1>6. ASSUME NEW c \in Cancels, JobStep(c) PROVE ConfirmedByPayment'
      BY <1>6 DEF JobStep, JobReadsBooking, ViaService, ViaProvider,
         JobCancelsViaService, ServiceCancelled, ProviderAnswers,
         JobServiceWrites, JobCancelsViaProvider, ProviderCancelled,
         JobProviderWrites, JobWriteFails, JobReverts, RevertedStatus,
         FailAttempt, JobRevertFails
<1>7. CASE ExpiryStep
      BY <1>7 DEF ExpiryStep, ExpiryReadsBooking, PendingFound,
         ExpiryCancelsAtProvider, ProviderAnswers, AfterAnswer, ServiceCancelled,
         ExpiryWrites, ExpiryWriteFails, ExpiryMails, ExpiryNotifyFails
<1>8. CASE RefundStep \/ CheckInComes
      BY <1>8 DEF RefundStep, RefundReadsBooking, RefundAtStripe, CheckInComes
<1>9. ASSUME NEW k \in CancelKeys, KeyExpires(k) PROVE ConfirmedByPayment'
      BY <1>9 DEF KeyExpires
<1>10. CASE Crash
      BY <1>10 DEF Crash, AfterStall
<1>11. CASE UNCHANGED vars
      BY <1>11 DEF vars
<1> QED
    BY <1>1, <1>2, <1>3, <1>4, <1>5, <1>6, <1>7, <1>8, <1>9, <1>10, <1>11
       DEF Next

-----------------------------------------------------------------------------
\* A booking in a state that must not last has somebody at work on it.
LEMMA WatchedNext ==
  Typed /\ NothingBeforeRow /\ Watched /\ [Next]_vars => Watched'
<1> SUFFICES ASSUME Typed, NothingBeforeRow, Watched, [Next]_vars
             PROVE  Watched'
    OBVIOUS
<1> USE DEF Typed, TypeOK, BookingTypes, PaymentTypes, RequestTypes,
          ExpiryTypes, NoJobYet, NothingBeforeRow, Watched, JobsFollowMarks,
          JobFollowsEvent, PendingIsWatched, MarkIsWatched, Released, ActiveJob,
          ActiveExpiry, bookingVars, payRow, stripe, pays, requests, jobs, expiryVars,
          adminVars, envVars
<1>1. CASE ConfirmAtProvider \/ Creation
      <2>1. CASE ConfirmAtProvider
            BY <2>1 DEF ConfirmAtProvider
      <2>2. CASE CreateBooking
            BY <2>2 DEF CreateBooking, InitialStatus
      <2>3. CASE CreateBookingFails
            BY <2>3 DEF CreateBookingFails
      <2>4. CASE ScheduleExpiry
            BY <2>4 DEF ScheduleExpiry
      <2>5. CASE EventHandlerFails
            BY <2>5 DEF EventHandlerFails
      <2> QED BY <1>1, <2>1, <2>2, <2>3, <2>4, <2>5 DEF Creation
<1>2. ASSUME NEW p \in Pays, PayStep(p) PROVE Watched'
      BY <1>2 DEF PayStep, PayReadsBooking, PayLooksUpPayment,
         PayCreatesIntent, PayRefusedByStripe, PayInsertsPayment, Insertable,
         InsertedStatus, PayInsertRefused
<1>3. ASSUME NEW i \in Intents, Customer(i) \/ HookStep(i) \/ StripeRedelivers(i)
      PROVE  Watched'
      BY <1>3 DEF Customer, CustomerPays, CardDeclined, HookStep,
         WebhookApplies, WebhookMatches, WebhookRefused, WebhookAcknowledged,
         WebhookQueueFails, FailureNoticeRefused, StripeRedelivers
<1>4. ASSUME NEW c \in Cancels, NEW k \in CancelKeys, CancelArrives(c, k)
      PROVE  Watched'
      BY <1>4 DEF CancelArrives, CancelKeyFree
<1>5. ASSUME NEW c \in Cancels, CancelStep(c) PROVE Watched'
      <2>1. CASE CancelPeeks(c)
            BY <2>1 DEF CancelPeeks
      <2>2. CASE CancelChecks(c)
            BY <2>2 DEF CancelChecks, RejectCancel
      <2>3. CASE CancelMarks(c)
            BY <2>3 DEF CancelMarks
      <2>4. CASE CancelMarkFails(c)
            BY <2>4 DEF CancelMarkFails, RejectCancel
      <2>5. CASE CancelEnqueues(c)
            BY <2>5 DEF CancelEnqueues
      <2>6. CASE CancelStoresResult(c)
            BY <2>6 DEF CancelStoresResult
      <2>7. CASE CancelRedisFails(c)
            BY <2>7 DEF CancelRedisFails, RejectCancel
      <2> QED BY <1>5, <2>1, <2>2, <2>3, <2>4, <2>5, <2>6, <2>7 DEF CancelStep
<1>6. ASSUME NEW c \in Cancels, JobStep(c) PROVE Watched'
      <2>1. CASE JobReadsBooking(c)
            BY <2>1 DEF JobReadsBooking, ViaService, ViaProvider, BookingPaymentTypes
      <2>2. CASE JobCancelsViaService(c)
            BY <2>2 DEF JobCancelsViaService, ServiceCancelled, ProviderAnswers
      <2>3. CASE JobServiceWrites(c)
            BY <2>3 DEF JobServiceWrites
      <2>4. CASE JobCancelsViaProvider(c)
            BY <2>4 DEF JobCancelsViaProvider, ProviderCancelled, ProviderAnswers
      <2>5. CASE JobProviderWrites(c)
            BY <2>5 DEF JobProviderWrites
      <2>6. CASE JobWriteFails(c)
            BY <2>6 DEF JobWriteFails
      <2>7. CASE JobReverts(c)
            BY <2>7 DEF JobReverts, RevertedStatus, FailAttempt
      <2>8. CASE JobRevertFails(c)
            BY <2>8 DEF JobRevertFails, FailAttempt
      <2> QED BY <1>6, <2>1, <2>2, <2>3, <2>4, <2>5, <2>6, <2>7, <2>8 DEF JobStep
<1>7. CASE ExpiryStep
      <2>1. CASE ExpiryReadsBooking
            BY <2>1 DEF ExpiryReadsBooking, PendingFound
      <2>2. CASE ExpiryCancelsAtProvider
            BY <2>2 DEF ExpiryCancelsAtProvider, ProviderAnswers, AfterAnswer,
               ServiceCancelled
      <2>3. CASE ExpiryWrites \/ ExpiryWriteFails
            BY <2>3 DEF ExpiryWrites, ExpiryWriteFails
      <2>4. CASE ExpiryMails \/ ExpiryNotifyFails
            BY <2>4 DEF ExpiryMails, ExpiryNotifyFails
      <2> QED BY <1>7, <2>1, <2>2, <2>3, <2>4 DEF ExpiryStep
<1>8. CASE RefundStep \/ CheckInComes
      BY <1>8 DEF RefundStep, RefundReadsBooking, RefundAtStripe, CheckInComes
<1>9. ASSUME NEW k \in CancelKeys, KeyExpires(k) PROVE Watched'
      BY <1>9 DEF KeyExpires
<1>10. CASE Crash
      <2>1. JobsFollowMarks' /\ JobFollowsEvent'
            BY <1>10 DEF Crash, AfterStall
      <2>2. PendingIsWatched'
            BY <1>10 DEF Crash, AfterStall
      <2>3. MarkIsWatched'
            BY <1>10 DEF Crash, AfterStall
      <2> QED BY <2>1, <2>2, <2>3
<1>11. CASE UNCHANGED vars
      BY <1>11 DEF vars
<1> QED
    BY <1>1, <1>2, <1>3, <1>4, <1>5, <1>6, <1>7, <1>8, <1>9, <1>10, <1>11
       DEF Next

-----------------------------------------------------------------------------
\* The inductive invariant holds before anything happened.
LEMMA IInvInit == Init => IInv
<1> SUFFICES ASSUME Init PROVE IInv
    OBVIOUS
<1>1. Typed
      BY TypedInit
<1>2. NothingBeforeRow /\ Room
      BY DEF Init, NothingBeforeRow, Room, WorkerKnowledge, GivenUpFirst,
         CancelledAtProvider, ClosedPaymentIsCancelled, MailedIsCancelled
<1>3. Money /\ NoWebPayment /\ ConfirmedByPayment
      BY DEF Init, Money, CompletedIsCaptured, NoWebPayment,
         ConfirmedByPayment
<1>4. KeysOwned
      BY DEF Init, KeysOwned, Owner
<1>5. Watched
      BY DEF Init, Watched, JobsFollowMarks, JobFollowsEvent, PendingIsWatched,
         MarkIsWatched
<1> QED BY <1>1, <1>2, <1>3, <1>4, <1>5 DEF IInv

\* Every step of every actor preserves the inductive invariant.
LEMMA IInvNext == IInv /\ [Next]_vars => IInv'
BY TypedNext, NothingBeforeRowNext, RoomNext, MoneyNext, NoWebPaymentNext,
   KeysOwnedNext, ConfirmedNext, WatchedNext DEF IInv, Watched

\* The invariant holds throughout every behaviour.
THEOREM Invariance == Spec => []IInv
BY IInvInit, IInvNext, PTL DEF Spec

\* Every variable keeps its type.
THEOREM TypeCorrect == Spec => []TypeOK
<1>1. IInv => TypeOK
      BY DEF IInv, Typed
<1> QED BY <1>1, Invariance, PTL

\* A CANCELLED booking follows an accepted cancellation at the provider.
THEOREM CancellationsReachProvider == Spec => []CancelledAtProvider
<1>1. IInv => CancelledAtProvider
      BY DEF IInv, Room, GivenUpFirst
<1> QED BY <1>1, Invariance, PTL

\* So does a payment marked failed or Refund.
THEOREM ClosedAfterCancellation == Spec => []ClosedPaymentIsCancelled
<1>1. IInv => ClosedPaymentIsCancelled
      BY DEF IInv, Room, GivenUpFirst
<1> QED BY <1>1, Invariance, PTL

\* Whoever was told that a booking expired has no live reservation under a PENDING
\* row, but for an answer without a reference.
THEOREM MailedAfterCancellation == Spec => []MailedIsCancelled
<1>1. IInv => MailedIsCancelled
      BY DEF IInv, Room, GivenUpFirst
<1> QED BY <1>1, Invariance, PTL

\* A completed payment is money Stripe took on the intent the row names.
THEOREM PaymentsAreReal == Spec => []CompletedIsCaptured
<1>1. IInv => CompletedIsCaptured
      BY DEF IInv, Money
<1> QED BY <1>1, Invariance, PTL

\* A web booking no cancellation failed on is confirmed only by its payment.
THEOREM OnlyPaymentConfirms == Spec => []ConfirmedByPayment
<1>1. IInv => ConfirmedByPayment
      BY DEF IInv
<1> QED BY <1>1, Invariance, PTL

\* A booking payable at the hotel is never charged on the web.
THEOREM AtHotelFree == Spec => []AtHotelNeverCharged
<1>1. IInv => AtHotelNeverCharged
      BY DEF IInv, NoWebPayment, AtHotelNeverCharged
<1> QED BY <1>1, Invariance, PTL

\* One idempotency key, one cancellation job, as long as keys live.
THEOREM OneJobPerKey == Spec => []CancelOncePerKey
<1>1. IInv => CancelOncePerKey
      BY DEF IInv, KeysOwned, Owner, CancelOncePerKey
<1> QED BY <1>1, Invariance, PTL

\* No PENDING booking is left to itself, whatever happens to it: the half of
\* PendingSettles that needs no fairness.
THEOREM NobodyStrandsPending == Spec => []PendingIsWatched
<1>1. IInv => PendingIsWatched
      BY DEF IInv, Watched
<1> QED BY <1>1, Invariance, PTL

\* No booking under cancellation is, with any number of cancel requests.
THEOREM NobodyStrandsCancellation == Spec => []MarkIsWatched
<1>1. IInv => MarkIsWatched
      BY DEF IInv, Watched
<1> QED BY <1>1, Invariance, PTL

-----------------------------------------------------------------------------
\* Action properties: where a booking's status may not go.
LEMMA StatusSteps ==
  IInv /\ [Next]_vars =>
    /\ status' = "PENDING" => status \in {"absent", "PENDING"}
    /\ status = "CANCELLED" /\ status' # "CANCELLED" =>
         \E c \in Cancels : cpc[c] = "checked" \/ job[c] = "reverting"
<1> DEFINE Goal ==
      /\ status' = "PENDING" => status \in {"absent", "PENDING"}
      /\ status = "CANCELLED" /\ status' # "CANCELLED" =>
           \E c \in Cancels : cpc[c] = "checked" \/ job[c] = "reverting"
<1> SUFFICES ASSUME NothingBeforeRow, [Next]_vars PROVE Goal
    BY DEF IInv
<1> USE DEF NothingBeforeRow, bookingVars, payRow, stripe, pays, requests, jobs,
           expiryVars, adminVars, envVars
<1>1. CASE ConfirmAtProvider \/ Creation
      BY <1>1 DEF ConfirmAtProvider, Creation, CreateBooking, InitialStatus,
         CreateBookingFails, ScheduleExpiry, EventHandlerFails
<1>2. ASSUME NEW p \in Pays, PayStep(p) PROVE Goal
      BY <1>2 DEF PayStep, PayReadsBooking, PayLooksUpPayment,
         PayCreatesIntent, PayRefusedByStripe, PayInsertsPayment, Insertable,
         InsertedStatus, PayInsertRefused
<1>3. ASSUME NEW i \in Intents, Customer(i) \/ HookStep(i) \/ StripeRedelivers(i)
      PROVE  Goal
      BY <1>3 DEF Customer, CustomerPays, CardDeclined, HookStep,
         WebhookApplies, WebhookMatches, WebhookRefused, WebhookAcknowledged,
         WebhookQueueFails, FailureNoticeRefused, StripeRedelivers
<1>4. ASSUME NEW c \in Cancels, NEW k \in CancelKeys, CancelArrives(c, k)
      PROVE  Goal
      BY <1>4 DEF CancelArrives, CancelKeyFree
<1>5. ASSUME NEW c \in Cancels, CancelStep(c) PROVE Goal
      BY <1>5 DEF CancelStep, CancelPeeks, CancelChecks, RejectCancel,
         CancelMarks, CancelMarkFails, CancelEnqueues, CancelStoresResult,
         CancelRedisFails
<1>6. ASSUME NEW c \in Cancels, JobStep(c) PROVE Goal
      BY <1>6 DEF JobStep, JobReadsBooking, ViaService, ViaProvider,
         JobCancelsViaService, ServiceCancelled, ProviderAnswers,
         JobServiceWrites, JobCancelsViaProvider, ProviderCancelled,
         JobProviderWrites, JobWriteFails, JobReverts, RevertedStatus,
         FailAttempt, JobRevertFails
<1>7. CASE ExpiryStep
      BY <1>7 DEF ExpiryStep, ExpiryReadsBooking, PendingFound,
         ExpiryCancelsAtProvider, ProviderAnswers, AfterAnswer, ServiceCancelled,
         ExpiryWrites, ExpiryWriteFails, ExpiryMails, ExpiryNotifyFails
<1>8. CASE RefundStep \/ CheckInComes
      BY <1>8 DEF RefundStep, RefundReadsBooking, RefundAtStripe, CheckInComes
<1>9. ASSUME NEW k \in CancelKeys, KeyExpires(k) PROVE Goal
      BY <1>9 DEF KeyExpires
<1>10. CASE Crash
      BY <1>10 DEF Crash, AfterStall
<1>11. CASE UNCHANGED vars
      BY <1>11 DEF vars
<1> QED
    BY <1>1, <1>2, <1>3, <1>4, <1>5, <1>6, <1>7, <1>8, <1>9, <1>10, <1>11
       DEF Next

\* A booking never becomes payable again.
THEOREM NeverPayableAgain == Spec => PendingOnce
<1>1. IInv /\ [Next]_vars =>
        [status' = "PENDING" => status \in {"absent", "PENDING"}]_vars
      BY StatusSteps
<1> QED BY <1>1, Invariance, PTL DEF Spec, PendingOnce

\* Late webhooks, payments and the expiry job never revive a cancelled row.
THEOREM OnlyCancelsRevive == Spec => CancelledLeftOnlyByCancel
<1>1. IInv /\ [Next]_vars =>
        [status = "CANCELLED" /\ status' # "CANCELLED" =>
           \E c \in Cancels : cpc[c] = "checked" \/ job[c] = "reverting"]_vars
      BY StatusSteps
<1> QED BY <1>1, Invariance, PTL DEF Spec, CancelledLeftOnlyByCancel

-----------------------------------------------------------------------------
(* BookingLifecycle implements SingleCharge.                               *)

\* A booking starts without a bill.
LEMMA ChargeInit == Init => Charge!Init
BY NoneAssumption DEF Init, Charge!Init

\* A step that leaves the payment row, the offers and the intents alone is a
\* stutter of SingleCharge.
LEMMA ChargeStutters ==
  UNCHANGED <<payIntent, offered, intent>> => UNCHANGED Charge!vars
BY DEF Charge!vars

\* Each step offers, takes or returns the money, or leaves it alone.
LEMMA ChargeNext ==
  IInv /\ [Next]_vars => [Charge!Next]_(Charge!vars)
<1> SUFFICES ASSUME Typed, Money, [Next]_vars
             PROVE  Charge!Next \/ UNCHANGED Charge!vars
    BY DEF IInv
<1> USE NoneAssumption
    DEF Typed, TypeOK, PaymentTypes, IntentsNamed, Money, bookingVars, payRow,
        stripe, pays, requests, jobs, expiryVars, adminVars, envVars
<1>1. CASE ConfirmAtProvider \/ Creation
      BY <1>1, ChargeStutters
         DEF ConfirmAtProvider, Creation, CreateBooking, CreateBookingFails,
             ScheduleExpiry, EventHandlerFails
<1>2. ASSUME NEW p \in Pays, PayStep(p)
      PROVE  Charge!Next \/ UNCHANGED Charge!vars
      <2>1. CASE PayReadsBooking(p) \/ PayRefusedByStripe(p) \/ PayInsertRefused(p)
            BY <2>1, ChargeStutters
               DEF PayReadsBooking, PayRefusedByStripe, PayInsertRefused
      <2>2. CASE PayLooksUpPayment(p)
            BY <2>2 DEF PayLooksUpPayment, Charge!Next, Charge!Offer, Charge!vars
      <2>3. CASE PayCreatesIntent(p)
            BY <2>3 DEF PayCreatesIntent, Charge!vars
      <2>4. CASE PayInsertsPayment(p)
            BY <2>4 DEF PayInsertsPayment, Insertable, Charge!Next,
               Charge!Offer, Charge!vars
      <2> QED BY <1>2, <2>1, <2>2, <2>3, <2>4 DEF PayStep
<1>3. ASSUME NEW i \in Intents, Customer(i) \/ HookStep(i) \/ StripeRedelivers(i)
      PROVE  Charge!Next \/ UNCHANGED Charge!vars
      <2>1. CASE CustomerPays(i)
            BY <2>1 DEF CustomerPays, Charge!Next, Charge!Take
      <2>2. CASE CardDeclined(i) \/ HookStep(i) \/ StripeRedelivers(i)
            BY <2>2, ChargeStutters
               DEF CardDeclined, HookStep, WebhookApplies, WebhookRefused,
                   WebhookAcknowledged, WebhookQueueFails,
                   FailureNoticeRefused, StripeRedelivers
      <2> QED BY <1>3, <2>1, <2>2 DEF Customer
<1>4. ASSUME NEW c \in Cancels, NEW k \in CancelKeys, CancelArrives(c, k)
      PROVE  Charge!Next \/ UNCHANGED Charge!vars
      BY <1>4, ChargeStutters DEF CancelArrives, CancelKeyFree
<1>5. ASSUME NEW c \in Cancels, CancelStep(c)
      PROVE  Charge!Next \/ UNCHANGED Charge!vars
      BY <1>5, ChargeStutters
         DEF CancelStep, CancelPeeks, CancelChecks, CancelMarks,
             CancelMarkFails, CancelEnqueues, CancelStoresResult,
             CancelRedisFails
<1>6. ASSUME NEW c \in Cancels, JobStep(c)
      PROVE  Charge!Next \/ UNCHANGED Charge!vars
      BY <1>6, ChargeStutters
         DEF JobStep, JobReadsBooking, JobCancelsViaService, JobServiceWrites,
             JobCancelsViaProvider, JobProviderWrites, JobWriteFails,
             JobReverts, JobRevertFails
<1>7. CASE ExpiryStep
      BY <1>7, ChargeStutters
         DEF ExpiryStep, ExpiryReadsBooking, ExpiryCancelsAtProvider,
             ExpiryWrites, ExpiryWriteFails, ExpiryMails, ExpiryNotifyFails
<1>8. CASE RefundStep
      <2>1. CASE RefundReadsBooking
            BY <2>1, ChargeStutters DEF RefundReadsBooking
      <2>2. CASE RefundAtStripe
            BY <2>2 DEF RefundAtStripe, Charge!Next, Charge!Return, Charge!vars
      <2> QED BY <1>8, <2>1, <2>2 DEF RefundStep
<1>9. CASE CheckInComes \/ (\E k \in CancelKeys : KeyExpires(k)) \/ Crash
      BY <1>9, ChargeStutters DEF CheckInComes, KeyExpires, Crash
<1>10. CASE UNCHANGED vars
      BY <1>10, ChargeStutters DEF vars
<1> QED
    BY <1>1, <1>2, <1>3, <1>4, <1>5, <1>6, <1>7, <1>8, <1>9, <1>10 DEF Next

\* Whatever payment requests, webhooks, jobs and refunds race, the customer
\* gets one bill, is charged on it at most once and refunded at most once.
THEOREM Refinement == Spec => ChargedOnce
<1>1. Spec => Charge!Spec
      BY ChargeInit, ChargeNext, Invariance, PTL DEF Spec, Charge!Spec
<1> QED BY <1>1 DEF ChargedOnce
=============================================================================
