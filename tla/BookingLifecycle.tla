-------------------------- MODULE BookingLifecycle --------------------------
(***************************************************************************)
(* The life of one booking row, from the provider's confirmation to its    *)
(* settlement, under every actor that writes it:                           *)
(*   - the tail of BookingHandler.execute and the ConfirmBookingEvent      *)
(*     handler, which schedules the 15-minute expiry job;                  *)
(*   - PaymentService.pay, PaymentService.webhook, PaymentService.refund;  *)
(*   - CancelBookingHandler (the cancel request) and the cancellation      *)
(*     worker with its three attempts;                                     *)
(*   - BookingJobProcessor, the expiry worker.                             *)
(* Every operation addresses a row by its id, so one row is modelled and   *)
(* the requests about it are the parameters.  An action ends where the     *)
(* code awaits a database, Redis, Stripe or the provider.                  *)
(***************************************************************************)
EXTENDS Naturals

CONSTANTS
  Cancels,      \* cancel requests the customer sends for this booking
  CancelKeys,   \* idempotency keys those requests carry
  Pays,         \* payment initialisations the customer sends
  Intents,      \* PaymentIntents Stripe can create for this booking
  Faults,       \* the faults that may happen, a subset of FaultKinds
  MaxCrashes,   \* bound on process crashes
  None, NoKey   \* "no intent" and "no key"

FaultKinds ==
  {"providerError",  \* the provider answers a cancellation with an error
   "noReference",    \* ... or with 2xx but no cancellationReference
   "lostAnswer",     \* ... or cancels and its answer is lost
   "saveFails",      \* createBooking's transaction fails
   "notifyFails",    \* a lookup or notification before a queue call throws
   "dbError",        \* a later database write fails
   "stripeError",    \* Stripe refuses to create an intent
   "declines",       \* a customer's card is declined
   "duplicates",     \* Stripe delivers an acknowledged event again
   "keyExpires",     \* an idempotency key outlives its TTL
   "redisFails",     \* a queue call or the store of a result fails
   "crash"}          \* the server process dies and restarts

ASSUME FaultsAssumption == Faults \subseteq FaultKinds
ASSUME CrashAssumption == MaxCrashes \in Nat
ASSUME NoneAssumption == None \notin Intents /\ NoKey \notin CancelKeys

VARIABLES
  ptype,         \* booking.paymentType
  status,        \* booking.status
  reservation,   \* what Hotelbeds holds for booking.providerReference
  creation,      \* progress of the BookingHandler and its event
  payIntent,     \* payment.paymentId of the booking's payment row
  payStatus,     \* payment.status of that row
  intent,        \* Stripe's state of each PaymentIntent
  offered,       \* intents whose client secret reached the customer
  hook,          \* delivery of payment_intent.succeeded, per intent
  notice,        \* delivery of payment_intent.payment_failed, per intent
  ppc, pintent,  \* PaymentService.pay: progress and created intent
  cpc, ckey,     \* CancelBookingHandler: progress and key of each request
  keys,          \* Redis value of each idempotency key
  job, attempts, \* cancellation job of each request, and its failures
  expiry,        \* the expiry job
  expiryPayment, \* the payment row the expiry job read, by its intent
  mailed,        \* the "booking cancelled" email was queued
  refund, refundIntent,  \* PaymentService.refund: progress and intent
  started,       \* the check-in date has come
  crashes        \* process crashes so far

bookingVars == <<ptype, reservation, creation>>
payRow == <<payIntent, payStatus>>
stripe == <<intent, offered, hook, notice>>
pays == <<ppc, pintent>>
requests == <<cpc, ckey, keys>>
jobs == <<job, attempts>>
expiryVars == <<expiry, expiryPayment, mailed>>
adminVars == <<refund, refundIntent>>
envVars == <<started, crashes>>
vars == <<ptype, status, reservation, creation, payIntent, payStatus,
          intent, offered, hook, notice, ppc, pintent, cpc, ckey, keys,
          job, attempts, expiry, expiryPayment, mailed, refund,
          refundIntent, started, crashes>>

JobAttempts == 3   \* attempts of a cancellation job

BookingPaymentTypes == {"AT_WEB", "AT_HOTEL"}
Statuses == {"absent", "PENDING", "CONFIRMED", "CANCELLED",
             "CANCELLATION_PROCESSING"}
ActiveJob == {"viaService", "viaProvider", "serviceWrite", "providerWrite",
              "reverting"}
ActiveExpiry == {"cancelling", "writing", "mailing"}

BookingTypes ==
  /\ ptype \in BookingPaymentTypes
  /\ status \in Statuses
  /\ reservation \in {"none", "held", "cancelled", "unclear"}
  /\ creation \in {"confirming", "saving", "saved", "done", "lost"}

PaymentTypes ==
  /\ payIntent \in Intents \cup {None}
  /\ payStatus \in {"none", "pending", "completed", "failed", "Refund"}
  /\ intent \in [Intents -> {"unused", "open", "captured", "refunded"}]
  /\ offered \in SUBSET Intents
  /\ hook \in [Intents -> {"none", "due", "applied", "refused", "acked"}]
  /\ notice \in [Intents -> {"none", "due", "dropped"}]
  /\ ppc \in [Pays -> {"idle", "checked", "creating", "inserting", "paid",
                       "failed", "cut"}]
  /\ pintent \in [Pays -> Intents \cup {None}]

RequestTypes ==
  /\ cpc \in [Cancels -> {"idle", "peeking", "locked", "checked", "marked",
                          "enqueued", "accepted", "replayed", "rejected",
                          "cut"}]
  /\ ckey \in [Cancels -> CancelKeys \cup {NoKey}]
  /\ keys \in [CancelKeys -> {"free", "processing", "stored"}]
  /\ job \in [Cancels -> ActiveJob \cup {"none", "waiting", "done", "failed"}]
  /\ attempts \in [Cancels -> 0 .. JobAttempts]

ExpiryTypes ==
  /\ expiry \in ActiveExpiry \cup {"none", "delayed", "done", "failed"}
  /\ expiryPayment \in Intents \cup {None}
  /\ mailed \in BOOLEAN
  /\ refund \in {"idle", "asking", "done", "rejected", "cut"}
  /\ refundIntent \in Intents \cup {None}
  /\ started \in BOOLEAN
  /\ crashes \in Nat

TypeOK == BookingTypes /\ PaymentTypes /\ RequestTypes /\ ExpiryTypes

Init ==
  /\ ptype \in BookingPaymentTypes
  /\ status = "absent" /\ reservation = "none" /\ creation = "confirming"
  /\ payIntent = None /\ payStatus = "none"
  /\ intent = [i \in Intents |-> "unused"]
  /\ offered = {}
  /\ hook = [i \in Intents |-> "none"]
  /\ notice = [i \in Intents |-> "none"]
  /\ ppc = [p \in Pays |-> "idle"]
  /\ pintent = [p \in Pays |-> None]
  /\ cpc = [c \in Cancels |-> "idle"]
  /\ ckey = [c \in Cancels |-> NoKey]
  /\ keys = [k \in CancelKeys |-> "free"]
  /\ job = [c \in Cancels |-> "none"]
  /\ attempts = [c \in Cancels |-> 0]
  /\ expiry = "none" /\ expiryPayment = None /\ mailed = FALSE
  /\ refund = "idle" /\ refundIntent = None
  /\ started = FALSE /\ crashes = 0

-----------------------------------------------------------------------------
(* BookingHandler.execute from the provider's confirmation on, and the     *)
(* ConfirmBookingEvent handler.                                            *)

ConfirmAtProvider ==
  /\ creation = "confirming"
  /\ reservation' = "held"
  /\ creation' = "saving"
  /\ UNCHANGED <<ptype, status, payRow, stripe, pays, requests, jobs,
                 expiryVars, adminVars, envVars>>

\* Mutants: web bookings confirmed at once; every booking pending.
InitialStatusConfirmed == "CONFIRMED"
InitialStatusPending == "PENDING"
InitialStatus == IF ptype = "AT_WEB" THEN "PENDING" ELSE "CONFIRMED"

CreateBooking ==
  /\ creation = "saving"
  /\ status' = InitialStatus
  /\ creation' = "saved"
  /\ UNCHANGED <<ptype, reservation, payRow, stripe, pays, requests, jobs,
                 expiryVars, adminVars, envVars>>

\* The catch clause logs CRITICAL and answers 500; nothing is undone.
CreateBookingFails ==
  /\ "saveFails" \in Faults
  /\ creation = "saving"
  /\ creation' = "lost"
  /\ UNCHANGED <<ptype, status, reservation, payRow, stripe, pays, requests,
                 jobs, expiryVars, adminVars, envVars>>

\* The event handler reaches addBookingJob.
ScheduleExpiry ==
  /\ creation = "saved"
  /\ creation' = "done"
  /\ expiry' = "delayed"
  /\ UNCHANGED <<ptype, status, reservation, payRow, stripe, pays, requests,
                 jobs, expiryPayment, mailed, adminVars, envVars>>

\* It throws first (hotel lookup, admin notification); the event bus only
\* reports the error.
EventHandlerFails ==
  /\ "notifyFails" \in Faults
  /\ creation = "saved"
  /\ creation' = "done"
  /\ UNCHANGED <<ptype, status, reservation, payRow, stripe, pays, requests,
                 jobs, expiryVars, adminVars, envVars>>

-----------------------------------------------------------------------------
(* PaymentService.pay and the customer at Stripe.                          *)

PayReadsBooking(p) ==
  /\ ppc[p] = "idle" /\ status # "absent"
  /\ ppc' = [ppc EXCEPT ![p] = IF status = "PENDING" THEN "checked"
                                                     ELSE "failed"]
  /\ UNCHANGED <<bookingVars, status, payRow, stripe, pintent, requests,
                 jobs, expiryVars, adminVars, envVars>>

\* An open payment is offered again instead of a second one.
PayLooksUpPayment(p) ==
  /\ ppc[p] = "checked"
  /\ IF payStatus \in {"completed", "pending"}
     THEN /\ offered' = offered \cup {payIntent}
          /\ ppc' = [ppc EXCEPT ![p] = "paid"]
     ELSE /\ ppc' = [ppc EXCEPT ![p] = "creating"]
          /\ UNCHANGED offered
  /\ UNCHANGED <<bookingVars, status, payRow, intent, hook, notice, pintent,
                 requests, jobs, expiryVars, adminVars, envVars>>

PayCreatesIntent(p) ==
  /\ ppc[p] = "creating"
  /\ \E i \in Intents :
       /\ intent[i] = "unused"
       /\ intent' = [intent EXCEPT ![i] = "open"]
       /\ pintent' = [pintent EXCEPT ![p] = i]
  /\ ppc' = [ppc EXCEPT ![p] = "inserting"]
  /\ UNCHANGED <<bookingVars, status, payRow, offered, hook, notice,
                 requests, jobs, expiryVars, adminVars, envVars>>

PayRefusedByStripe(p) ==
  /\ "stripeError" \in Faults
  /\ ppc[p] = "creating"
  /\ ppc' = [ppc EXCEPT ![p] = "failed"]
  /\ UNCHANGED <<bookingVars, status, payRow, stripe, pintent, requests,
                 jobs, expiryVars, adminVars, envVars>>

\* Mutant: payment.bookingId loses its unique index.
InsertableAgain == payStatus \in {"none", "pending"}
Insertable == payStatus = "none"

\* Mutant: the row is completed as it is created, as its paidAt suggests.
InsertedCompleted == "completed"
InsertedStatus == "pending"

\* payment.bookingId is unique: of two initialisations one is refused, and
\* only the other's client secret is sent.
PayInsertsPayment(p) ==
  /\ ppc[p] = "inserting"
  /\ Insertable
  /\ payIntent' = pintent[p] /\ payStatus' = InsertedStatus
  /\ offered' = offered \cup {pintent[p]}
  /\ ppc' = [ppc EXCEPT ![p] = "paid"]
  /\ UNCHANGED <<bookingVars, status, intent, hook, notice, pintent,
                 requests, jobs, expiryVars, adminVars, envVars>>

PayInsertRefused(p) ==
  /\ ppc[p] = "inserting"
  /\ ~Insertable \/ "dbError" \in Faults
  /\ ppc' = [ppc EXCEPT ![p] = "failed"]
  /\ UNCHANGED <<bookingVars, status, payRow, stripe, pintent, requests,
                 jobs, expiryVars, adminVars, envVars>>

\* The customer pays an intent whose secret the frontend has; Stripe will
\* deliver payment_intent.succeeded.
CustomerPays(i) ==
  /\ i \in offered /\ intent[i] = "open"
  /\ intent' = [intent EXCEPT ![i] = "captured"]
  /\ hook' = [hook EXCEPT ![i] = "due"]
  /\ UNCHANGED <<bookingVars, status, payRow, offered, notice, pays,
                 requests, jobs, expiryVars, adminVars, envVars>>

CardDeclined(i) ==
  /\ "declines" \in Faults
  /\ i \in offered /\ intent[i] = "open" /\ notice[i] = "none"
  /\ notice' = [notice EXCEPT ![i] = "due"]
  /\ UNCHANGED <<bookingVars, status, payRow, intent, offered, hook, pays,
                 requests, jobs, expiryVars, adminVars, envVars>>

-----------------------------------------------------------------------------
(* PaymentService.webhook.                                                 *)

\* Mutant: the update does not look at the booking's status.
WebhookMatchesAnyStatus(i) == payIntent = i
WebhookMatches(i) == status = "PENDING" /\ payIntent = i

\* One UPDATE guarded by status = PENDING confirms the booking and completes
\* its payment row.
WebhookApplies(i) ==
  /\ hook[i] \in {"due", "refused"}
  /\ WebhookMatches(i)
  /\ status' = "CONFIRMED" /\ payStatus' = "completed"
  /\ hook' = [hook EXCEPT ![i] = "applied"]
  /\ UNCHANGED <<bookingVars, payIntent, intent, offered, notice, pays,
                 requests, jobs, expiryVars, adminVars, envVars>>

\* No row matches: the update throws, Stripe gets a 500 and redelivers.
WebhookRefused(i) ==
  /\ hook[i] = "due"
  /\ ~WebhookMatches(i) \/ "dbError" \in Faults
  /\ hook' = [hook EXCEPT ![i] = "refused"]
  /\ UNCHANGED <<bookingVars, status, payRow, intent, offered, notice, pays,
                 requests, jobs, expiryVars, adminVars, envVars>>

\* The confirmation job is queued and Stripe gets its 200.
WebhookAcknowledged(i) ==
  /\ hook[i] = "applied"
  /\ hook' = [hook EXCEPT ![i] = "acked"]
  /\ UNCHANGED <<bookingVars, status, payRow, intent, offered, notice, pays,
                 requests, jobs, expiryVars, adminVars, envVars>>

\* The queue call throws after the update: Stripe gets a 500 all the same.
WebhookQueueFails(i) ==
  /\ "redisFails" \in Faults
  /\ hook[i] = "applied"
  /\ hook' = [hook EXCEPT ![i] = "refused"]
  /\ UNCHANGED <<bookingVars, status, payRow, intent, offered, notice, pays,
                 requests, jobs, expiryVars, adminVars, envVars>>

StripeRedelivers(i) ==
  /\ "duplicates" \in Faults
  /\ hook[i] = "acked"
  /\ hook' = [hook EXCEPT ![i] = "due"]
  /\ UNCHANGED <<bookingVars, status, payRow, intent, offered, notice, pays,
                 requests, jobs, expiryVars, adminVars, envVars>>

\* The filter carries metadata.bookingId, a string, where the column is an
\* integer: every delivery is refused by Prisma and the row stays as it is.
FailureNoticeRefused(i) ==
  /\ notice[i] = "due"
  /\ notice' = [notice EXCEPT ![i] = "dropped"]
  /\ UNCHANGED <<bookingVars, status, payRow, intent, offered, hook, pays,
                 requests, jobs, expiryVars, adminVars, envVars>>

-----------------------------------------------------------------------------
(* CancelBookingHandler.execute.                                           *)

\* Mutant: SET without NX.
AnyCancelKey(k) == TRUE
CancelKeyFree(k) == keys[k] = "free"

\* SET key 'processing' NX.
CancelArrives(c, k) ==
  /\ cpc[c] = "idle" /\ status # "absent"
  /\ ckey' = [ckey EXCEPT ![c] = k]
  /\ IF CancelKeyFree(k)
     THEN /\ keys' = [keys EXCEPT ![k] = "processing"]
          /\ cpc' = [cpc EXCEPT ![c] = "locked"]
     ELSE /\ cpc' = [cpc EXCEPT ![c] = "peeking"]
          /\ UNCHANGED keys
  /\ UNCHANGED <<bookingVars, status, payRow, stripe, pays, jobs, expiryVars,
                 adminVars, envVars>>

\* The key was taken: its value decides the answer (the parsed value of a
\* key that just vanished is null).
CancelPeeks(c) ==
  /\ cpc[c] = "peeking"
  /\ cpc' = [cpc EXCEPT ![c] = IF keys[ckey[c]] = "processing"
                               THEN "rejected" ELSE "replayed"]
  /\ UNCHANGED <<bookingVars, status, payRow, stripe, pays, ckey, keys, jobs,
                 expiryVars, adminVars, envVars>>

Cancellable == status \in {"PENDING", "CONFIRMED"} /\ ~started

\* The catch clause drops the key, whoever holds it now.
RejectCancel(c) ==
  /\ cpc' = [cpc EXCEPT ![c] = "rejected"]
  /\ keys' = [keys EXCEPT ![ckey[c]] = "free"]
  /\ UNCHANGED ckey

CancelChecks(c) ==
  /\ cpc[c] = "locked"
  /\ IF Cancellable
     THEN cpc' = [cpc EXCEPT ![c] = "checked"] /\ UNCHANGED <<ckey, keys>>
     ELSE RejectCancel(c)
  /\ UNCHANGED <<bookingVars, status, payRow, stripe, pays, jobs, expiryVars,
                 adminVars, envVars>>

\* updateOne by id: the status read before is not compared again.
CancelMarks(c) ==
  /\ cpc[c] = "checked"
  /\ status' = "CANCELLATION_PROCESSING"
  /\ cpc' = [cpc EXCEPT ![c] = "marked"]
  /\ UNCHANGED <<bookingVars, payRow, stripe, pays, ckey, keys, jobs,
                 expiryVars, adminVars, envVars>>

CancelMarkFails(c) ==
  /\ "dbError" \in Faults
  /\ cpc[c] = "checked"
  /\ RejectCancel(c)
  /\ UNCHANGED <<bookingVars, status, payRow, stripe, pays, jobs, expiryVars,
                 adminVars, envVars>>

CancelEnqueues(c) ==
  /\ cpc[c] = "marked"
  /\ job' = [job EXCEPT ![c] = "waiting"]
  /\ cpc' = [cpc EXCEPT ![c] = "enqueued"]
  /\ UNCHANGED <<bookingVars, status, payRow, stripe, pays, ckey, keys,
                 attempts, expiryVars, adminVars, envVars>>

CancelStoresResult(c) ==
  /\ cpc[c] = "enqueued"
  /\ keys' = [keys EXCEPT ![ckey[c]] = "stored"]
  /\ cpc' = [cpc EXCEPT ![c] = "accepted"]
  /\ UNCHANGED <<bookingVars, status, payRow, stripe, pays, ckey, jobs,
                 expiryVars, adminVars, envVars>>

\* Queueing the job or storing the answer fails: the catch clause drops the
\* key and leaves the mark, and the job if it was queued.
CancelRedisFails(c) ==
  /\ "redisFails" \in Faults
  /\ cpc[c] \in {"marked", "enqueued"}
  /\ RejectCancel(c)
  /\ UNCHANGED <<bookingVars, status, payRow, stripe, pays, jobs, expiryVars,
                 adminVars, envVars>>

-----------------------------------------------------------------------------
(* The provider, and the cancellation worker (one job at a time).          *)

\* What CancelBooking may answer while Hotelbeds holds r, and what Hotelbeds
\* holds afterwards.  A reservation it no longer holds may be refused or
\* acknowledged again.
ProviderAnswers(r) ==
  IF r = "held"
  THEN {<<"reference", "cancelled">>}
       \cup (IF "noReference" \in Faults THEN {<<"noReference", "unclear">>}
                                         ELSE {})
       \cup (IF "providerError" \in Faults THEN {<<"error", "held">>} ELSE {})
       \cup (IF "lostAnswer" \in Faults THEN {<<"error", "cancelled">>} ELSE {})
  ELSE {<<"error", r>>, <<"reference", "cancelled">>}

\* BookingService.cancelBooking takes a 2xx with a reference for a success;
\* mutant: any 2xx.
Any2xxCancels(answer) == answer # "error"
ServiceCancelled(answer) == answer = "reference"

\* The path of a booking paid on the web takes any 2xx; mutant: the provider
\* service logs the error and returns instead of throwing.
NothingThrows(answer) == TRUE
ProviderCancelled(answer) == answer # "error"

WorkerIdle == \A c \in Cancels : job[c] \notin ActiveJob

\* Mutants: the payment type is forgotten; the row is expected unmarked.
PendingViaService == status = "PENDING"
ViaService == status = "PENDING" \/ ptype = "AT_HOTEL"
ConfirmedViaProvider == status = "CONFIRMED" /\ ptype = "AT_WEB"
ViaProvider == status = "CANCELLATION_PROCESSING" /\ ptype = "AT_WEB"

JobReadsBooking(c) ==
  /\ job[c] = "waiting" /\ WorkerIdle
  /\ job' = [job EXCEPT ![c] =
               CASE ViaService -> "viaService"
                 [] ~ViaService /\ ViaProvider -> "viaProvider"
                 [] OTHER -> "done"]
  /\ UNCHANGED <<bookingVars, status, payRow, stripe, pays, requests,
                 attempts, expiryVars, adminVars, envVars>>

\* BookingService.cancelBooking, called without a payment id; without a
\* reference it only logs, and the job completes.
JobCancelsViaService(c) ==
  /\ job[c] = "viaService"
  /\ \E a \in ProviderAnswers(reservation) :
       /\ reservation' = a[2]
       /\ job' = [job EXCEPT ![c] =
                    CASE a[1] = "error" -> "reverting"
                      [] ServiceCancelled(a[1]) -> "serviceWrite"
                      [] OTHER -> "done"]
  /\ UNCHANGED <<ptype, status, creation, payRow, stripe, pays, requests,
                 attempts, expiryVars, adminVars, envVars>>

JobServiceWrites(c) ==
  /\ job[c] = "serviceWrite"
  /\ status' = "CANCELLED"
  /\ job' = [job EXCEPT ![c] = "done"]
  /\ UNCHANGED <<bookingVars, payRow, stripe, pays, requests, attempts,
                 expiryVars, adminVars, envVars>>

JobCancelsViaProvider(c) ==
  /\ job[c] = "viaProvider"
  /\ \E a \in ProviderAnswers(reservation) :
       /\ reservation' = a[2]
       /\ job' = [job EXCEPT ![c] = IF ProviderCancelled(a[1])
                                    THEN "providerWrite" ELSE "reverting"]
  /\ UNCHANGED <<ptype, status, creation, payRow, stripe, pays, requests,
                 attempts, expiryVars, adminVars, envVars>>

\* The nested payment update needs a payment row.
JobProviderWrites(c) ==
  /\ job[c] = "providerWrite"
  /\ payStatus # "none"
  /\ status' = "CANCELLED" /\ payStatus' = "Refund"
  /\ job' = [job EXCEPT ![c] = "done"]
  /\ UNCHANGED <<bookingVars, payIntent, stripe, pays, requests, attempts,
                 expiryVars, adminVars, envVars>>

\* Without one, or on a database error, the whole write is rolled back.
JobWriteFails(c) ==
  /\ \/ job[c] = "providerWrite" /\ (payStatus = "none" \/ "dbError" \in Faults)
     \/ job[c] = "serviceWrite" /\ "dbError" \in Faults
  /\ job' = [job EXCEPT ![c] = "reverting"]
  /\ UNCHANGED <<bookingVars, status, payRow, stripe, pays, requests,
                 attempts, expiryVars, adminVars, envVars>>

\* The error goes back to BullMQ, which retries until the last attempt.
RetryForever(c) ==   \* mutant
  /\ attempts' = [attempts EXCEPT ![c] = @ + 1]
  /\ job' = [job EXCEPT ![c] = "waiting"]

FailAttempt(c) ==
  /\ attempts' = [attempts EXCEPT ![c] = @ + 1]
  /\ job' = [job EXCEPT ![c] = IF attempts[c] + 1 < JobAttempts
                               THEN "waiting" ELSE "failed"]

\* Mutant: an unpaid booking goes back to where it was.
RevertedToPayable ==
  IF payStatus = "completed" THEN "CONFIRMED" ELSE "PENDING"
RevertedStatus == "CONFIRMED"

\* The catch clause writes CONFIRMED whatever the row says now.
JobReverts(c) ==
  /\ job[c] = "reverting"
  /\ status' = RevertedStatus
  /\ FailAttempt(c)
  /\ UNCHANGED <<bookingVars, payRow, stripe, pays, requests, expiryVars,
                 adminVars, envVars>>

JobRevertFails(c) ==
  /\ "dbError" \in Faults
  /\ job[c] = "reverting"
  /\ FailAttempt(c)
  /\ UNCHANGED <<bookingVars, status, payRow, stripe, pays, requests,
                 expiryVars, adminVars, envVars>>

-----------------------------------------------------------------------------
(* BookingJobProcessor, 15 minutes after creation, a single attempt.       *)

\* Mutant: the query joins the payment and misses who never paid.
PendingWithPayment == status = "PENDING" /\ payStatus # "none"
PendingFound == status = "PENDING"

ExpiryReadsBooking ==
  /\ expiry = "delayed"
  /\ IF PendingFound
     THEN expiry' = "cancelling" /\ expiryPayment' = payIntent
     ELSE expiry' = "done" /\ UNCHANGED expiryPayment
  /\ UNCHANGED <<bookingVars, status, payRow, stripe, pays, requests, jobs,
                 mailed, adminVars, envVars>>

\* An error fails the job's only attempt; without a reference cancelBooking
\* only logs.  Mutant: the error is caught and logged too.
LogAndGoOn(answer) == IF ServiceCancelled(answer) THEN "writing" ELSE "mailing"
AfterAnswer(answer) ==
  CASE answer = "error" -> "failed"
    [] ServiceCancelled(answer) -> "writing"
    [] OTHER -> "mailing"

ExpiryCancelsAtProvider ==
  /\ expiry = "cancelling"
  /\ \E a \in ProviderAnswers(reservation) :
       /\ reservation' = a[2]
       /\ expiry' = AfterAnswer(a[1])
  /\ UNCHANGED <<ptype, status, creation, payRow, stripe, pays, requests,
                 jobs, expiryPayment, mailed, adminVars, envVars>>

\* One transaction; the booking's status is not compared again.
ExpiryWrites ==
  /\ expiry = "writing"
  /\ status' = "CANCELLED"
  /\ payStatus' = IF expiryPayment # None THEN "failed" ELSE payStatus
  /\ expiry' = "mailing"
  /\ UNCHANGED <<bookingVars, payIntent, stripe, pays, requests, jobs,
                 expiryPayment, mailed, adminVars, envVars>>

ExpiryWriteFails ==
  /\ "dbError" \in Faults
  /\ expiry = "writing"
  /\ expiry' = "failed"
  /\ UNCHANGED <<bookingVars, status, payRow, stripe, pays, requests, jobs,
                 expiryPayment, mailed, adminVars, envVars>>

ExpiryMails ==
  /\ expiry = "mailing"
  /\ mailed' = TRUE
  /\ expiry' = "done"
  /\ UNCHANGED <<bookingVars, status, payRow, stripe, pays, requests, jobs,
                 expiryPayment, adminVars, envVars>>

\* createNotification throws before the email is queued.
ExpiryNotifyFails ==
  /\ "notifyFails" \in Faults
  /\ expiry = "mailing"
  /\ expiry' = "failed"
  /\ UNCHANGED <<bookingVars, status, payRow, stripe, pays, requests, jobs,
                 expiryPayment, mailed, adminVars, envVars>>

-----------------------------------------------------------------------------
(* PaymentService.refund, called by an administrator.                      *)

\* The guard on an earlier refund reads booking.payment.status.Refund, which
\* is undefined, so it never stops anything; an unpaid booking has no payment
\* to read and the request fails.
RefundReadsBooking ==
  /\ refund = "idle" /\ status # "absent"
  /\ IF status = "CONFIRMED" /\ payStatus # "none"
     THEN refund' = "asking" /\ refundIntent' = payIntent
     ELSE refund' = "rejected" /\ UNCHANGED refundIntent
  /\ UNCHANGED <<bookingVars, status, payRow, stripe, pays, requests, jobs,
                 expiryVars, envVars>>

\* Stripe refunds a captured intent and refuses any other.
RefundAtStripe ==
  /\ refund = "asking"
  /\ IF intent[refundIntent] = "captured"
     THEN /\ intent' = [intent EXCEPT ![refundIntent] = "refunded"]
          /\ refund' = "done"
     ELSE refund' = "rejected" /\ UNCHANGED intent
  /\ UNCHANGED <<bookingVars, status, payRow, offered, hook, notice, pays,
                 requests, jobs, expiryVars, refundIntent, envVars>>

-----------------------------------------------------------------------------
(* Time, Redis and the process.                                            *)

CheckInComes ==
  /\ ~started
  /\ started' = TRUE
  /\ UNCHANGED <<bookingVars, status, payRow, stripe, pays, requests, jobs,
                 expiryVars, adminVars, crashes>>

KeyExpires(k) ==
  /\ "keyExpires" \in Faults
  /\ keys[k] # "free"
  /\ keys' = [keys EXCEPT ![k] = "free"]
  /\ UNCHANGED <<bookingVars, status, payRow, stripe, pays, cpc, ckey, jobs,
                 expiryVars, adminVars, envVars>>

\* A crash cuts every handler in memory.  What PostgreSQL, Redis, Stripe and
\* the provider hold survives: Stripe redelivers an unanswered event, and
\* BullMQ puts a stalled job back once and fails it the second time.
AfterStall(requeued) ==
  {requeued} \cup (IF crashes > 0 THEN {"failed"} ELSE {})

Crash ==
  /\ "crash" \in Faults /\ crashes < MaxCrashes
  /\ crashes' = crashes + 1
  /\ creation' = CASE creation = "saving" -> "lost"
                   [] creation = "saved" -> "done"
                   [] OTHER -> creation
  /\ ppc' = [p \in Pays |->
               IF ppc[p] \in {"checked", "creating", "inserting"}
               THEN "cut" ELSE ppc[p]]
  /\ hook' = [i \in Intents |->
                IF hook[i] = "applied" THEN "refused" ELSE hook[i]]
  /\ cpc' = [c \in Cancels |->
               IF cpc[c] \in {"peeking", "locked", "checked", "marked",
                              "enqueued"}
               THEN "cut" ELSE cpc[c]]
  /\ refund' = IF refund = "asking" THEN "cut" ELSE refund
  /\ \E again \in AfterStall("waiting") :
       job' = [c \in Cancels |-> IF job[c] \in ActiveJob THEN again ELSE job[c]]
  /\ \E again \in AfterStall("delayed") :
       expiry' = IF expiry \in ActiveExpiry THEN again ELSE expiry
  /\ UNCHANGED <<ptype, status, reservation, payRow, intent, offered, notice,
                 pintent, ckey, keys, attempts, expiryPayment, mailed,
                 refundIntent, started>>

-----------------------------------------------------------------------------
Creation ==
  CreateBooking \/ CreateBookingFails \/ ScheduleExpiry \/ EventHandlerFails

PayStep(p) ==
  \/ PayReadsBooking(p) \/ PayLooksUpPayment(p) \/ PayCreatesIntent(p)
  \/ PayRefusedByStripe(p) \/ PayInsertsPayment(p) \/ PayInsertRefused(p)

Customer(i) == CustomerPays(i) \/ CardDeclined(i)

HookStep(i) ==
  \/ WebhookApplies(i) \/ WebhookRefused(i) \/ WebhookAcknowledged(i)
  \/ WebhookQueueFails(i) \/ FailureNoticeRefused(i)

CancelStep(c) ==
  \/ CancelPeeks(c) \/ CancelChecks(c) \/ CancelMarks(c)
  \/ CancelMarkFails(c) \/ CancelEnqueues(c) \/ CancelStoresResult(c)
  \/ CancelRedisFails(c)

JobStep(c) ==
  \/ JobReadsBooking(c) \/ JobCancelsViaService(c) \/ JobServiceWrites(c)
  \/ JobCancelsViaProvider(c) \/ JobProviderWrites(c) \/ JobWriteFails(c)
  \/ JobReverts(c) \/ JobRevertFails(c)

ExpiryStep ==
  \/ ExpiryReadsBooking \/ ExpiryCancelsAtProvider \/ ExpiryWrites
  \/ ExpiryWriteFails \/ ExpiryMails \/ ExpiryNotifyFails

RefundStep == RefundReadsBooking \/ RefundAtStripe

Next ==
  \/ ConfirmAtProvider
  \/ Creation
  \/ \E p \in Pays : PayStep(p)
  \/ \E i \in Intents : Customer(i) \/ HookStep(i) \/ StripeRedelivers(i)
  \/ \E c \in Cancels, k \in CancelKeys : CancelArrives(c, k)
  \/ \E c \in Cancels : CancelStep(c) \/ JobStep(c)
  \/ ExpiryStep
  \/ RefundStep
  \/ CheckInComes
  \/ \E k \in CancelKeys : KeyExpires(k)
  \/ Crash

Spec == Init /\ [][Next]_vars

\* A started handler runs on, a queued job is taken, Stripe delivers: weak
\* fairness per actor.  Nothing makes a customer or an administrator act.
Fairness ==
  /\ WF_vars(Creation)
  /\ \A i \in Intents : WF_vars(HookStep(i))
  /\ \A c \in Cancels : WF_vars(CancelStep(c)) /\ WF_vars(JobStep(c))
  /\ WF_vars(ExpiryStep)

FairSpec == Spec /\ Fairness

-----------------------------------------------------------------------------
(* Safety, under every fault.                                              *)

\* CancelBooking was answered 2xx, so the application does not know of a room
\* that is still held: without a reference ("unclear") nobody knows what
\* Hotelbeds holds.  BookingService.cancelBooking takes that for a failure and
\* writes nothing, the worker's path of paid bookings for a success.
Released == reservation \in {"cancelled", "unclear"}

\* A row says CANCELLED only if the provider answered a cancellation 2xx: the
\* workers write it after CancelBooking, across crashes, retries and lost
\* answers.  A booking payable at the hotel even had its reference.
CancelledAtProvider ==
  status = "CANCELLED" =>
    Released /\ (ptype = "AT_HOTEL" => reservation = "cancelled")

\* A payment row turns failed or Refund only once the room was given up:
\* expiry and cancellation write it after CancelBooking.
ClosedPaymentIsCancelled == payStatus \in {"failed", "Refund"} => Released

\* payment.status = completed only if Stripe captured the money of exactly
\* the intent the row names (webhook, against concurrent pay calls).
CompletedIsCaptured ==
  payStatus = "completed" => intent[payIntent] \in {"captured", "refunded"}

\* Whatever initialisations race, the customer is offered one intent, charged
\* on it at most once and refunded only after that (pay: lookup, then the
\* unique bookingId).
Charge == INSTANCE SingleCharge WITH
  bill <- IF offered = {} THEN None ELSE payIntent,
  money <- IF \E i \in Intents : intent[i] = "refunded" THEN "returned"
           ELSE IF \E i \in Intents : intent[i] = "captured" THEN "taken"
           ELSE "kept"
ChargedOnce == Charge!Spec

\* A web booking becomes CONFIRMED by its payment alone, as long as no
\* cancellation job failed (the catch clause of the worker writes CONFIRMED).
ConfirmedByPayment ==
  /\ ptype = "AT_WEB" /\ status = "CONFIRMED"
  /\ \A c \in Cancels : attempts[c] = 0
  => payStatus = "completed"

\* The customer who was told that a booking expired has one whose cancellation the
\* provider referenced and whose row left PENDING for good, against the webhooks,
\* payments, cancel requests and retried jobs around the expiry job.  The exception
\* is a 2xx without a reference: cancelBooking logs a failure and writes nothing,
\* and the job tells the customer all the same, of a row that stays PENDING.
MailedIsCancelled ==
  mailed => \/ reservation = "cancelled" /\ status # "PENDING"
            \/ reservation = "unclear" /\ "noReference" \in Faults

\* A booking payable at the hotel never gets a payment or an open intent.
AtHotelNeverCharged ==
  ptype = "AT_HOTEL" => payStatus = "none" /\ offered = {}

\* Cancel requests sharing a key queue one job while keys live and Redis
\* answers: a crash leaves the key taken, a rejection frees it without having
\* queued.
CancelOncePerKey ==
  {"keyExpires", "redisFails"} \cap Faults = {} =>
    \A c, d \in Cancels :
      job[c] # "none" /\ job[d] # "none" /\ ckey[c] = ckey[d] => c = d

\* A booking that is PENDING has somebody who will settle it, its event handler or
\* its expiry job, unless the handler never queued the job, the job's one attempt
\* met an error, or the provider gave no reference and cancelBooking wrote nothing.
PendingIsWatched ==
  status = "PENDING" =>
    \/ creation = "saved" \/ expiry \in {"delayed", "cancelling", "writing"}
    \/ expiry = "none" /\ ("notifyFails" \in Faults \/ crashes > 0)
    \/ expiry = "failed"
    \/ expiry \in {"mailing", "done"} /\ reservation = "unclear"

\* A booking under cancellation has a request about to queue its job or a job that
\* will write it, however many requests mark it while jobs run: it is left alone
\* only by a request that a crash or Redis stopped before the queue, a job whose
\* last write failed or that stalled twice, and, payable at the hotel, by a
\* cancellation without a reference.
MarkIsWatched ==
  status = "CANCELLATION_PROCESSING" =>
    \E c \in Cancels :
      \/ cpc[c] = "marked" \/ job[c] \in ActiveJob \cup {"waiting"}
      \/ job[c] = "none" /\ cpc[c] = "cut"
      \/ job[c] = "none" /\ cpc[c] = "rejected" /\ "redisFails" \in Faults
      \/ job[c] = "failed" /\ ("dbError" \in Faults \/ crashes > 1)
      \/ job[c] = "done" /\ ptype = "AT_HOTEL" /\ Released

\* Only a cancel request past its check, or a failing cancellation job, can
\* take a row out of CANCELLED: late webhooks, payments and expiry cannot.
CancelledLeftOnlyByCancel ==
  [][status = "CANCELLED" /\ status' # "CANCELLED" =>
       \E c \in Cancels : cpc[c] = "checked" \/ job[c] = "reverting"]_vars

\* A booking leaves PENDING once: no actor brings it back to the payable
\* state, whatever is retried or redelivered.
PendingOnce == [][status' = "PENDING" => status \in {"absent", "PENDING"}]_vars

-----------------------------------------------------------------------------
(* Liveness, without faults.                                               *)

\* An unpaid booking does not stay pending (the expiry job).
PendingSettles == status = "PENDING" ~> status # "PENDING"

\* A cancellation taken for a booking payable at the hotel is carried out.
AtHotelCancelSettles ==
  ptype = "AT_HOTEL" /\ status = "CANCELLATION_PROCESSING"
    ~> status = "CANCELLED"

\* So is one of a paid booking that the expiry job left alone.
PaidCancelSettles ==
  /\ status = "CANCELLATION_PROCESSING" /\ payStatus = "completed"
  /\ reservation = "held" /\ expiry = "done"
  ~> status = "CANCELLED" /\ payStatus = "Refund"

-----------------------------------------------------------------------------
(* What the repository says of the program and the code does not do.       *)

\* The timeout job does nothing to a paid booking (README, Booking Timeout).
ExpirySparesPaid ==
  [][payStatus = "completed" /\ payStatus' # "completed" =>
       expiry # "writing"]_vars
=============================================================================
