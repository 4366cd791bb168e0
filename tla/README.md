# Hotel Booking System: TLA+ verification

Models, model-checking runs and machine-checked proofs for the backend in
`src/` (NestJS, PostgreSQL through Prisma, Redis, BullMQ, Stripe, the Hotelbeds
API, MongoDB for notifications). Paths below are relative to the repository.

## 1. Inventory

| Part | State | Operations | Talks to |
|---|---|---|---|
| Booking command `booking/commands/handlers/booking.handler.ts` | Redis: user lock, idempotency key, room selection | lock, key, selection, `checkRates`, `confirmBooking`, `createBooking`, store the result, publish | provider, PostgreSQL, event bus |
| Cancel command `cancelBooking.handler.ts` | Redis: idempotency key; `booking.status` | check, mark `CANCELLATION_PROCESSING`, queue a job | PostgreSQL, BullMQ |
| Cancellation worker `Jobs/cancellation` | the job and its attempts | cancel at the provider, write, on an error write `CONFIRMED` and throw | provider, PostgreSQL |
| Expiry worker `Jobs/booking` | one delayed job per booking | read PENDING, cancel at the provider, write, notify, mail | provider, PostgreSQL, email queue |
| Payment `modules/payment`, `stripe.service.ts` | payment row, Stripe's intents | `pay`, `webhook`, `refund`, listings | Stripe, PostgreSQL, webhook queue |
| `ConfirmBookingHandler` (event) | - | notify administrators, queue the expiry job, notify, mail | gateway, queues |
| Sessions `auth`, `Tokens`, `profile`, `dashboard-user` | refresh tokens and black list in Redis; password, ban | log in, refresh, log out, log out everywhere, change and reset the password, ban | Redis, PostgreSQL, email queue |
| Account `auth`, `profile` | user row; codes and secrets in Redis; photos | sign up, confirm, resend, change the address, reset, second factor, photo | email queue, Cloudinary |
| Email queue `Jobs/email` | jobs, codes in Redis | make a code, store it, post | Redis, n8n |
| Catalog `hotel`, `facility`, `destination` services and tasks | tables and Redis caches | seed at start, daily and monthly updates, cursor pages of hotels | provider, PostgreSQL, Redis |
| Lists: dashboard, rooms, hotel facts, destinations, availability, reviews, a customer's bookings and payments | Redis caches of pages | pages by cursor or offset, cached under keys | PostgreSQL, Redis, provider |
| Notifications and gateway | MongoDB, sets of admins and sockets in Redis, rooms in memory | connect, disconnect, push, list and mark read | Redis, socket.io |
| Favourites | rows | one read, one write each | PostgreSQL |
| `CancelBookingHandler` (event), webhook worker | - | registered by no module, never run | - |

What makes these hard, and what correct means:

* **One booking row, six writers.** The webhook, the expiry job, cancel
  requests, the cancellation worker and its catch clause all write
  `booking.status`; only the webhook compares the status in the write itself.
  Correct: nothing is recorded as cancelled that the provider still holds,
  nothing as paid that Stripe did not take, nobody charged twice, and every
  booking settles.
* **Two systems, no common transaction.** Each provider or Stripe call is
  followed by a write that may fail, and jobs are retried after a lost answer,
  a failed write or a crash.
* **Locks and idempotency keys in Redis** with TTLs, deleted without a look at
  their owner, while clients give up after 5 s and try again. Correct: one
  request of a user at a time, one booking per key, every replay the right one.
* **Tokens in Redis, read and deleted in two calls.** Correct: one token per
  login, a session that ended stays ended, and it is known which sessions a
  sweep may miss.
* **One user, several devices.** Two tabs verify a second factor, present a
  code or upload a photo at once. Correct: the codes shown are the codes
  stored, a code is spent once, the photo in the row exists.
* **Caches and cursors.** Pages of different times, under keys that leave out a
  part of the request or name another one. Correct: no one is shown rows of
  another, a walk through the pages shows what was there, and it ends.
* **A catalog filled by retries.** Seeds fail and processes end. Correct: what
  the provider lists arrives.
* **Events without a catch.** A handler's error ends what it had still to do.
  Correct: who is told of a booking is told of one that will be settled.

## 2. Modules

| Module | What it is |
|---|---|
| `BookingCommand` | `BookingHandler.execute`: concurrent requests, user lock, idempotency keys, selections, provider and row |
| `OncePerKey` | abstract: one booking per key, shown to each of its clients |
| `BookingLifecycle` | one booking row from the provider's confirmation to its settlement: payment, webhook, refund, expiry, cancel requests, cancellation worker |
| `SingleCharge` | abstract: one bill, one charge, at most one refund after it |
| `Announcements` | the event of a new booking: expiry job, admins' sockets, notifications, email job |
| `Sessions` | refresh and access tokens of one user |
| `Accounts` | one user's row: codes, address, second factor, photo, and the email worker |
| `Catalog` | hotel content: seed, updates, and clients that page through the hotels |
| `Listings` | twelve other lists and their caches |
| `MC...` | sets, faults and symmetry for TLC |
| `..._proofs` | theorems and proofs, one module per component |
| `Paging` | lemmas on places in a finite list, for the proofs of `Catalog` and `Listings` |

`BookingCommand` ends where the row exists; `BookingLifecycle` starts at the
provider's confirmation and repeats, for one row, the save and the event;
`Announcements` is the other half of that event. They meet in three operations:
the provider's confirmation, `createBooking`, and the published event
(`ScheduleExpiry` there, `QueueExpiry` here). `Sessions` and `Accounts` share
the reset of a password: `Accounts` says whether the code was right,
`Sessions.CheckResetCode` takes either answer. The rows of `Listings` come from
the other modules' actions; it knows only that they come.

### State and actions

An action is the code between two awaits: it reads, decides and writes as that
stretch does, and ends at the next call of PostgreSQL, Redis, Stripe, BullMQ,
Cloudinary or the provider. A write guarded by its own `where` (the webhook's
`status: PENDING`, `isTwoFA: false`, the unique index on `payment.bookingId`,
`SET NX`, `GETDEL`) is one atomic step; a read followed by a write is two.

* `BookingLifecycle`: `status`, `ptype`, `payIntent`, `payStatus` are columns
  ("absent", "none": no row); `intent`, `offered`, `hook`, `notice` are Stripe
  and the frontend; `reservation` is what Hotelbeds holds ("unclear" after a
  2xx answer without a reference); `ppc`, `cpc`, `refund`, `creation` are the
  places of the handlers; `job`, `attempts`, `expiry` are BullMQ's jobs and the
  worker's place in them; `keys` is Redis.
* `BookingCommand`: `pc` is the place of each request, `lock`, `idem`,
  `selections` are Redis, `reserved`, `saved`, `published`, `logged` are what
  the provider, PostgreSQL, the event bus and the log have seen, `answer` and
  `replayOf` what the client was told. `leftLocks` and `leftKeys` only record
  whose Redis call threw and left a lock or a key to its TTL.
* `Sessions`: a pair of tokens is named by the request that issued it; `live`
  are the refresh tokens in Redis, `access` the access tokens `AuthGuard`
  admits, `root` the login a token descends from, `found` what a sweep read.
  `raced` only records which sessions had a token under way during a sweep.
* `Accounts`: a secret, a list of backup codes and a photo are named by the
  request that made them, codes are numbered; `otp` and `setup` are Redis,
  `inbox` what was delivered, `cloud` Cloudinary. `shown` and `used` are
  histories.
* `Catalog`: `places` are the stored destinations, `created` holds each stored
  hotel's `createdAt`, `pc` the place of each process in its start or update, `cache`, `cursor`, `held`, `shown` a
  client's walk. `steady` are the hotels stored at every page of the walk,
  `offered` what the provider listed when a process began to fetch; both are
  histories.
* `Listings`: every behaviour is about one `list`; rows are numbers in the order
  of `createdAt` and id, and some share a `createdAt`; `narrow` are the rows the
  list's filter selects now, which changes with the profiles of users; `ReadKey`
  and `StoreKey` are the keys of `redisKeys`.
* `Announcements`: `line` is the place of `handleConnection` and
  `handleDisconnect` for each socket, `admins` is Redis, `room` memory.

Faults are outcomes the code handles: an error or a lost answer of the
provider, a failed write or Redis call, a declined card, a redelivered event,
an expired key, a request timeout, a crash. In the booking modules the constant
`Faults` names those a run admits, so a property that needs their absence says
which. A crash cuts every handler and keeps what the stores hold; BullMQ puts a
stalled job back once and fails it the second time (its default).

### Abstractions

* Names, prices, guests, messages and dates are left out; the check-in date is
  the flag `started`. Hotelbeds may refuse or accept a second cancellation.
* One worker per queue with BullMQ's default concurrency of one, so two
  cancellation jobs never overlap (`WorkerIdle`).
* The administrator refunds at most once and in full. The creation of the
  Stripe customer before the intent is left out.
* Redis calls of `BookingHandler` may throw, carried out or not (`redisFails`):
  those on the lock, the key, the selection and the stored result, and the deletes
  of the catch and finally clauses. In `Accounts` any awaited call of a request may
  throw (`RequestFails`), which ends the request where it is.
* `Sessions`: one user, as all keys are per user. A login of an unconfirmed row
  ends without a token and is left out; so are the claims inside a token.
* `Accounts`: that another user holds an address is a choice where the code
  looks it up (`RenameWrites`). Profile fields other than the address are left
  out. Secrets match the code typed or not (`VerifyCode`).
* `Catalog`: the default order (newest first) only; the provider's list grows and
  keeps its order; phones and room facilities are left out; facilities are one
  flag (the table is filled or empty), destinations are rows that hotels refer
  to. The provider lists the destinations of the hotels it offers at that moment,
  and maybe others. The monthly update fetches and replaces them in one step.
  An empty answer of the provider counts as a fault. Stamps are arbitrary, since a row's `createdAt` is taken before it is visible and a
  `createMany` shares one.
* `Listings`: requests that fail are left out, as a client that stops. Clients
  walk until an empty page. Rows come or go, and profiles change, at most
  `MaxChanges` times. The service's list of canceled bookings has no route and is
  left out.
* `Announcements`: what `Gateway` does on `bookingConfirmed` is left out, since
  only the unregistered webhook worker leads to that message.

## 3. What the runs show

Bounds are the sets of the configurations, `MaxCrashes`, `MaxFaults` and
`MaxChanges`; no counter is cut off otherwise. Deadlock checking is off in all
runs: requests are finite and a finished system stops.

| Run | Instance | Shows |
|---|---|---|
| `lc_pay` | 2 payment requests, 2 intents, 1 cancel request; all faults but a failed save, provider errors and a crash | `TypeOK`, `CompletedIsCaptured`, `ConfirmedByPayment`, `PendingOnce`; refinement of `SingleCharge` (`ChargedOnce`) |
| `lc_cancel` | 2 cancel requests with 2 keys, 1 payment; provider and database faults, failed save, 1 crash | `CancelledAtProvider`, `ClosedPaymentIsCancelled`, `MailedIsCancelled`, `AtHotelNeverCharged`, `CancelOncePerKey`, `CancelledLeftOnlyByCancel`; nobody is stranded: `PendingIsWatched`, `MarkIsWatched` |
| `lc_live` | 1 of each, no faults, fair | `PendingSettles`, `AtHotelCancelSettles`, `PaidCancelSettles` |
| `bc_lock` | 3 requests of a user, 2 hotels, 1 key; every fault but "slow" | `TypeOK`, `OneInFlight`, `ReplayIsOwn`, `OrphansLogged`, `NothingLeftBehind`, `StoredResultStays` |
| `bc_keys` | 4 requests, 2 keys; failed saves, lost answers, timeouts | refinement of `OncePerKey` (`BookedOncePerKey`) |
| `se_sessions` | 4 requests of any kind, 1 crash | `OneTokenPerLogin`, `EndedForGood`, `OldSessionsSwept`, `LoggedOutEverywhere` |
| `ac_account` | 3 requests of any kind, 2 addresses, 1 crash | `ShownCodesStored`, `CodeResetsOnce`, `PhotoExists` |
| `cg_catalog` | 1 process, 1 client, 2 hotels (1 in the filter) of 2 destinations, 2 stamps, answers and pages of 1, 2 faults, fair | `ShownOnce`, `SteadyShown`, `FetchComplete`, `HotelsArrive` |
| `an_booking` | 2 bookings, 1 admin with 2 sockets, 1 device, 1 fault | `ToldIsWatched`, `OpenAdminsTold`, `ReadWasFetched` |
| `li_pages` | each list, 2 clients, 3 rows in 2 scopes, two of one `createdAt`, pages of 1, 1 change, fair | `OwnRows`, `WalkComplete`, `WalksEnd` |
| `lc_expiry_paid`, `bc_duplicate` | see below | two disagreements with the documentation |

Two payment requests are the smallest number that race for the unique row; two
cancel requests with two keys the smallest that both pass the status check, and
each has three attempts. A booking key that is freed wrongly needs three
requests to do harm: an owner, one that frees it and one that takes it, hence
`bc_lock` and `bc_keys`. `bc_keys` admits only the faults under which one row per
key is true: a crash, a TTL, a failed Redis call or a handler slower than its lock
makes it false. A session a sweep misses needs a login, a refresh and
the sweep; the fourth request is a second refresh or sweep. Three account
requests are two devices and a third that changes the row between their steps.
Two hotels with pages of one make a cursor, a tie and a row that the filter
drops; in `li_pages` the third row is one that comes while two pages are walked,
and two clients fill each other's cache. One user is enough where everything is
stored per user. The theorems cover any number.

Fairness. `BookingLifecycle`: a started handler runs on, a queued job is taken
and Stripe delivers what is due (weak fairness per actor); customers and
administrators are never forced to act. `Catalog`: a process is restarted and
goes on, and the schedulers run (`WF` of a process's own steps and of the
monthly update); errors are bounded by `MaxFaults`, so the run says that
finitely many faults do not keep a hotel out, unless its destination is missing
(`LeftOut`) or the destination of another hotel has the whole seed refused at
every start (`SeedRefused`). Listing clients are not fair
there. `Listings`: a request is answered and its client goes on; some key that
is there expires (a TTL is finite), which is all `WalksEnd` needs, since a
client stores finitely often.

### Disagreements with the documentation

Two are runs that TLC ends with a counterexample to what the repository says.

| Run | What happens |
|---|---|
| `lc_expiry_paid` | the payment completes while the expiry job waits for the provider; the job then cancels the booking and marks the payment failed |
| `bc_duplicate` | after a failed save the next request deletes the key, the one after it books again |

The models contain these as well, without a run of their own:

* a 2xx answer without a cancellation reference is a failure for
  `BookingService.cancelBooking`, which logs it and writes nothing; the expiry job
  goes on, mails the customer that the booking is canceled and ends with the row
  PENDING and nothing scheduled, where the repository's README (line 223) says
  that pending bookings are cancelled after the timeout (`MailedIsCancelled` and
  `PendingIsWatched` name it);
* the repository's README (line 182) says that hotel content is synchronized, but
  a start skips destinations once there are some, and the foreign key of the
  hotels refuses their monthly replacement (`Replaceable`): a hotel of a
  destination that the provider lists later fails at every upsert (`LeftOut`), and
  in a catalog without rooms it has the whole seed refused and the process end at
  every start (`SeedRefused`);
* cancelling an unpaid web booking fails on the missing payment row, and the
  catch clause of the worker confirms it (`cancellation.job.processor.ts:72`);
* an error before `addBookingJob` leaves a booking pending (`EventHandlerFails`);
* a payment marked `Refund` is refunded by no code, and `PaymentService.refund`
  wants a CONFIRMED booking;
* a declined payment is never recorded: the filter of its update has a string
  for an integer column (`FailureNoticeRefused`);
* a second cancel request that passed the check with the first marks a cancelled
  booking `CANCELLATION_PROCESSING` (`CancelledLeftOnlyByCancel` names it);
* a handler slower than the lock's TTL runs beside another and deletes its lock
  (fault "slow");
* a request whose Redis call on the idempotency key throws deletes the key in its
  catch clause, and with it the stored result of an earlier one
  (`StoredResultStays` names it); a delete that throws there or in the finally
  clause leaves the key or the lock to its TTL (`FailDeleteFails`,
  `ReleaseFails`);
* an upload deletes the old photo before it writes the row: an error between
  them leaves the row with a photo that is gone (`PhotoExists` names it);
* `ConfirmEmail` does not await the comparison of the code (`ConfirmChecks`);
* a dashboard's page is stored under the cursor of the next one (`StoreKey`): the
  client is given the same page until the key expires, which is why `WalksEnd`
  needs expiry; a page of rooms, however filtered, is stored under the key
  without cursor and limit, which is why `OwnRows` excepts the rooms' filters;
* the key of a cached availability has the number of children and not their
  ages, which the provider is asked with: for two minutes a family may be given
  the offers of another (`WholeKey`), so `OwnRows` excepts these ages as well;
* users, reviews and a customer's bookings are ordered by `createdAt` alone, so
  rows that share it may be shown twice or missed by offset; a search among users
  misses rows when a profile changes (`OffsetPages`, `UpdateProfile`);
  `WalkComplete` claims neither;
* a limit in the dashboards' URL is refused, so bookings are taken all at once
  (`FindBookings`);
* rows that tie with the cursor escape the filters of the hotel list
  (`AfterCursor`); nothing is shown twice for that reason;
* upserts of rooms name a unique key the schema lacks (`UpsertRooms`);
  facilities can be neither listed nor updated;
* `redis.del` of a key with `*` deletes nothing; admins are never removed from
  their set; notifications that tie with the cursor are skipped.

## 4. What is proved

TLAPS checks every theorem below for all values of the constants, from the
named assumptions of each module (distinct special values, types of bounds).

**`BookingLifecycle_proofs`**, for every set of faults. The properties are not
inductive: that a CANCELLED row follows an accepted cancellation depends on what
each worker knows when it is about to write. `IInv` adds `Typed` (types,
attempts left to a job that may run, no job before its request queues one);
`NothingBeforeRow` (nobody works on a booking before its row); `Room` with
`WorkerKnowledge` (who is about to write CANCELLED, failed or Refund has the
provider's answer, and who mails is `Settled`: the row is no longer PENDING,
unless the answer had no reference and nothing was written); `Money` (one intent is offered, the one of the
payment row, and only an offered one is charged or delivered); `NoWebPayment`
(nobody starts to pay a booking payable at the hotel); `KeysOwned` (a request
past the lock, or with a job, owns its key); `Watched` (a job follows a mark and
the expiry job the event, so somebody is at work on a booking that must not stay
as it is). Each part is a lemma with a step
per action and uses the parts before it. From `IInv`: `TypeCorrect`,
`CancellationsReachProvider`, `ClosedAfterCancellation`,
`MailedAfterCancellation`, `PaymentsAreReal`, `OnlyPaymentConfirms`,
`AtHotelFree`, `OneJobPerKey`, and the safety half of the liveness properties,
`NobodyStrandsPending` and `NobodyStrandsCancellation`, which hold under every
fault and name each way a booking is left alone (`JobsFollowMarks` also shows that
the worker's branch for a PENDING booking is never taken); with `StatusSteps` (which action may change the
status, and how) the action properties `NeverPayableAgain` and
`OnlyCancelsRevive`; with `ChargeNext` the refinement of `SingleCharge`.

**`BookingCommand_proofs`**. `Base` (types, arrivals, replies) is inductive under
every fault and gives `TypeCorrect` and `ReplaysAreOwn`. `Traced` (what the
provider confirmed is being saved, is saved and announced, or is logged) gives
`OrphansAreLogged`, under every fault too. `Locked` (a running request's user is
locked, by it alone) needs that no handler outlives its lock and gives
`MutualExclusion`. `KeyKept` needs `KeysSafe`: no crash, TTL, slow handler or
failed Redis call takes a key away. It says that a request at work finds
'processing' under its key and no booking saved there, and that a saved booking
stays stored. It rests on `Locked`: a conflicting request deletes the key, and
only the user lock keeps the next one from taking it before its owner is done.
`Cared` gives `LocksAreCaredFor`, under every fault: no lock and no key waits for a
request that is gone, unless its process died, the Redis call on it threw or the
failed save was logged. `KeyHeld` (a request that took a key finds 'processing'
there, and one about to delete a key it has read finds no stored result) rests on
`Locked` and gives `StoredIsFinal`, under every fault but a slow handler. `KeyKept`
gives `OneRowPerKey` and, with one step per action, the refinement of `OncePerKey`; `Promise` maps a key to the saved request with that
key, which `OneRowPerKey` makes unique.

**`Sessions_proofs`**, for any requests and crashes. `Lineage` (a token belongs
to the login it descends from, a request that has not arrived has none) makes
`OneTokenPerLogin` inductive: `Rotation`, and with `NoRevival` the action
property `NothingRevives`. `Old` says of every token in use that it is of the
current password, or raced, or a sweep has still to read or delete it; it gives
`PasswordChangeSweeps`. `Out` says that what a scan found is the one token of
its session until it is deleted; with `NoRevival` it gives `EveryDeviceOut`.

**`Accounts_proofs`**, for any requests, addresses and crashes. `Owned`: who is
about to show backup codes owns the stored ones (`ShownAreStored`). `CodesApart`:
a code is in one place, stored once, in the hands of one request, or used
(`OneResetPerCode`). `PhotosLinked`: the row's photo, and what uploads are about
to delete, was linked by a finished upload, so it is no upload under way; who
deleted the row's photo still holds it, at work or cut off (`PhotosExist`). `Boxed` completes the types.

**`Announcements_proofs`**. `PastQueue` (a handler past the queue call has its
expiry job) gives `ToldAreWatched`; `Lines` (an open socket is in the room, its
admin in Redis) and `Presence` (sockets open at the read have their admin among
those read, and do not open again) give `AdminsAreTold`; `PagesFetched` gives
`ReadAfterFetch`.

**`Paging`** has what pages need of any strict order on a finite list, from the
cardinality theorems of the library: places follow the order, a row that joins
moves no other forward, places have no gap (`NoGap`), so a part that is not empty
has a first and a last element, and an answer that is not full reaches the end of
the list (`FullAnswer`). The least number of a set comes from the well-founded
order of the naturals: no induction over data is needed.

**`Listings_proofs`**. `OwnRowsShown` rests on `CacheOwn`: a page under a key is
of rows the key's scope and dates allow (`KeyOwns`), so a key carries all of a request the rows depend on, but for the
filters of rooms and the children's ages. `WalksAreComplete`
(`WalkComplete`) adds `WalkInv`: `PassedShown` (a row of the start that the
cursor or offset has passed was shown) is the claim for walks under way, and not
inductive without `CacheEnds` (a page found under a cursor ends with that
cursor's row, since it is stored there as the *next* cursor: the client is shown
a page again and passes over nothing), `StartStays` (what was there stays, so an
offset only falls back) and `HeldContinues` (a page read and not yet stored
still continues its walk, whatever rows come meanwhile). There is one lemma per
kind of page: by cursor (`OlderContinues`, `PaymentsContinue`, `RoomsContinue`), by
offset (`OffsetsContinue`), from the cache (`CachedContinues`). What an offset list
owes its client is a row whose `createdAt` no other row of the list has (`Due`):
it is on one page whichever way ties fall (`AloneRow`), and rows and profiles that
change leave what is owed as it is or make it less (`DueFrame`, `RowsWalk`).

**`Catalog_proofs`**, for any hotels, stamps, processes and faults. `IInv` says of
every page, cached (`CacheFits`) or held (`HeldFits`), that it lies behind its
cursor and that of the hotels stored when it was computed it leaves out only
what comes after its last row. That stays true when rows appear between, as
stored hotels keep their stamps (`StampsKept`); so what a walk has shown is not
behind its cursor (`ShownBefore`, for `NothingShownTwice`), and what was stored at
all its pages and is not behind the cursor was shown (`SteadyBefore`, for
`SteadyAreShown`). A page that ties with its cursor holds rows that escape the
filter, and none of this depends on the filter. `FetchInv` says of a fetch that it
holds what was offered at its beginning on the pages it asked for: with `RankGrows`
and `FullAnswer` it gives `FetchesAreComplete`. It rests on a list that only
grows, which is all the model lets the provider do: were a hotel taken off the
list between two pages, the next page would begin one too late.

Every safety and action property of a passing run is stated by a theorem. Only
model-checked is liveness (`PendingSettles`, `AtHotelCancelSettles`,
`PaidCancelSettles`, `HotelsArrive`, `WalksEnd`), as fairness and ENABLED are
outside the prover's reach.

## 5. Hazards

`PROJECT.json` lists each place in the code where an order of steps, a failure
or a stale read can go wrong, with the properties aimed at it. A hazard without
a property has a note: mostly the model shows the code going wrong there, so
that the property one would want is false (see the disagreements above). Places of one
kind that the same properties watch share an entry, which names their lines;
errors that every run of the code meets are described in section 3 only.

## 6. Not modelled

* The event handler of `CancelBookingEvent` and the webhook worker: no module
  registers them, so they never run.
* Favourites: a read and a write on rows nothing else refers to. Two at once make
  two rows, as no unique index stops them.
* Templates and text, cryptography, validation, GraphQL types, HTTP wiring, the
  dashboards' summary and single reads: no state the properties could be about.
* Of modelled parts: the Stripe customer, profile fields but the address, phones
  and room facilities, orders of the hotel list other than newest first.

## 7. Plan

Done, in this order: `BookingLifecycle` with `SingleCharge`; `BookingCommand`
with `OncePerKey`; `Sessions`; `Accounts`; `Catalog`; `Announcements`;
`Listings`; their proofs. Left:

1. Composition of `BookingCommand`, `BookingLifecycle` and `Announcements` over
   several rows, with the row-wise refinement proved.
2. `Catalog` with the orders by rating and ranking, whose values an update may
   change under a walk, with hotels that leave the provider's list, and with two
   processes.
3. `KeySpace`: booking and cancel handlers over the one key pattern they share.
4. An abstract specification of the login sessions of a user, and `Sessions`
   proved to implement it.
