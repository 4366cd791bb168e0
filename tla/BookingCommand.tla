--------------------------- MODULE BookingCommand ---------------------------
(***************************************************************************)
(* BookingHandler.execute: concurrent booking requests, the per-user lock  *)
(* and the idempotency keys they share in Redis, the room selection they   *)
(* read, the reservation at the provider and the row in PostgreSQL.  What  *)
(* becomes of the row afterwards is BookingLifecycle.                      *)
(* An action ends where the handler awaits Redis, the provider or the      *)
(* database.                                                               *)
(***************************************************************************)
EXTENDS Naturals

CONSTANTS
  Users, Hotels,
  Keys,        \* values of the Idempotency-Key header
  Requests,    \* booking requests the clients send
  Faults,      \* the faults that may happen, a subset of FaultKinds
  MaxCrashes,  \* bound on process crashes
  None

FaultKinds ==
  {"saveFails",   \* createBooking's transaction fails
   "redisFails",  \* a Redis command throws, carried out or not
   "lostAnswer",  \* the provider books and its answer is lost
   "timeouts",    \* TimeoutInterceptor answers 408 while the handler runs on
   "keyExpires",  \* a stored result outlives its TTL
   "slow",        \* a handler outlives the TTL of its lock and of its key
   "crash"}       \* the server process dies and restarts

ASSUME FaultsAssumption == Faults \subseteq FaultKinds
ASSUME CrashAssumption == MaxCrashes \in Nat
ASSUME RequestsAssumption ==
  None \notin Requests /\ {"free", "processing"} \cap Requests = {}

VARIABLES
  pc,          \* where each request's handler is
  slot,        \* the user, hotel and key of each request
  answer,      \* what the client of each request was told
  replayOf,    \* the request whose stored booking the handler returned
  lock,        \* users whose userLock is set
  idem,        \* Redis value of each idempotency key
  selections,  \* users and hotels with a stored room selection
  reserved,    \* requests the provider made a reservation for
  confirmed,   \* requests whose handler has the provider's booking
  saved,       \* requests whose booking row exists
  published,   \* requests whose ConfirmBookingEvent was published
  logged,      \* requests with a CRITICAL log line
  leftLocks,   \* users whose lock a Redis command that threw left set
  leftKeys,    \* keys such a command left 'processing'
  crashes      \* process crashes so far

redisVars == <<lock, idem, selections>>
outcome == <<reserved, confirmed, saved, published, logged>>
leftovers == <<leftLocks, leftKeys>>
faulted == <<leftovers, crashes>>
client == <<slot, answer, replayOf>>
vars == <<pc, slot, answer, replayOf, lock, idem, selections, reserved,
          confirmed, saved, published, logged, leftLocks, leftKeys,
          crashes>>

Slots == Users \X Hotels \X Keys
User(s) == s[1]
Shop(s) == <<s[1], s[2]>>   \* what a selection is stored under

Running == {"locked", "peeking", "selecting", "checking", "confirming",
            "saving", "storing", "publishing", "failing", "unread", "releasing"}
InFlight(r) == pc[r] \in Running
\* The handler set its idempotency key to 'processing' and has not let go.
HoldsKey(r) == pc[r] \in {"selecting", "checking", "confirming", "saving",
                          "storing"}

TypeOK ==
  /\ pc \in [Requests -> Running \cup {"idle", "done", "cut"}]
  /\ slot \in [Requests -> Slots \cup {None}]
  /\ answer \in [Requests -> {"none", "busy", "replayed", "nothing",
                              "rejected", "created", "critical", "timeout"}]
  /\ replayOf \in [Requests -> Requests \cup {None}]
  /\ lock \subseteq Users
  /\ idem \in [Slots -> Requests \cup {"free", "processing"}]
  /\ selections \subseteq Users \X Hotels
  /\ reserved \subseteq Requests /\ confirmed \subseteq Requests
  /\ saved \subseteq Requests
  /\ published \subseteq Requests /\ logged \subseteq Requests
  /\ leftLocks \subseteq Users /\ leftKeys \subseteq Slots
  /\ crashes \in Nat

Init ==
  /\ pc = [r \in Requests |-> "idle"]
  /\ slot = [r \in Requests |-> None]
  /\ answer = [r \in Requests |-> "none"]
  /\ replayOf = [r \in Requests |-> None]
  /\ lock = {} /\ idem = [s \in Slots |-> "free"] /\ selections = {}
  /\ reserved = {} /\ confirmed = {} /\ saved = {} /\ published = {} /\ logged = {}
  /\ leftLocks = {} /\ leftKeys = {} /\ crashes = 0

\* A client already told 408 is told nothing else.
Answers(r, a) ==
  answer' = [answer EXCEPT ![r] = IF @ = "none" THEN a ELSE @]
Goto(r, label) == pc' = [pc EXCEPT ![r] = label]
Unlock(u) == lock' = lock \ {u} /\ leftLocks' = leftLocks \ {u}
FreeKey(s) ==
  idem' = [idem EXCEPT ![s] = "free"] /\ leftKeys' = leftKeys \ {s}
-----------------------------------------------------------------------------
\* SelectRoomsHandler.
SelectRooms(u, h) ==
  /\ <<u, h>> \notin selections
  /\ selections' = selections \cup {<<u, h>>}
  /\ UNCHANGED <<pc, client, lock, idem, outcome, faulted>>

\* Mutant: the lock is taken per user and hotel, as the selection is.
BusyAtHotel(s) ==
  \E r \in Requests : InFlight(r) /\ Shop(slot[r]) = Shop(s)
Busy(s) == User(s) \in lock

\* SET userLock NX; a refused request never enters the try block.
Arrive(r, s) ==
  /\ pc[r] = "idle"
  /\ slot' = [slot EXCEPT ![r] = s]
  /\ IF Busy(s)
     THEN /\ Goto(r, "done") /\ Answers(r, "busy")
          /\ UNCHANGED lock
     ELSE /\ Goto(r, "locked") /\ lock' = lock \cup {User(s)}
          /\ UNCHANGED answer
  /\ UNCHANGED <<replayOf, idem, selections, outcome, faulted>>

\* That SET throws before the try block, so no finally clause runs.
ArriveFails(r, s) ==
  /\ "redisFails" \in Faults
  /\ pc[r] = "idle"
  /\ slot' = [slot EXCEPT ![r] = s]
  /\ \/ UNCHANGED <<lock, leftLocks>>
     \/ /\ ~Busy(s)
        /\ lock' = lock \cup {User(s)} /\ leftLocks' = leftLocks \cup {User(s)}
  /\ Goto(r, "done") /\ Answers(r, "rejected")
  /\ UNCHANGED <<replayOf, idem, selections, outcome, leftKeys, crashes>>

\* Mutant: SET without NX.
AnyKey(s) == TRUE
KeyFree(s) == idem[s] = "free"

\* SET idempotency key 'processing' NX.
TryKey(r) ==
  /\ pc[r] = "locked"
  /\ IF KeyFree(slot[r])
     THEN /\ idem' = [idem EXCEPT ![slot[r]] = "processing"]
          /\ Goto(r, "selecting")
     ELSE Goto(r, "peeking") /\ UNCHANGED idem
  /\ UNCHANGED <<client, lock, selections, outcome, faulted>>

\* Mutant: whatever is stored is parsed and returned.
NeverProcessing(s) == FALSE
Processing(s) == idem[s] = "processing"

\* The conflict is thrown inside the try block; a stored booking is replayed,
\* a key that just vanished parses to null.
Peek(r) ==
  /\ pc[r] = "peeking"
  /\ IF Processing(slot[r])
     THEN Goto(r, "failing") /\ UNCHANGED <<answer, replayOf>>
     ELSE /\ Goto(r, "releasing")
          /\ IF idem[slot[r]] = "free"
             THEN Answers(r, "nothing") /\ UNCHANGED replayOf
             ELSE /\ Answers(r, "replayed")
                  /\ replayOf' = [replayOf EXCEPT ![r] = idem[slot[r]]]
  /\ UNCHANGED <<slot, redisVars, outcome, faulted>>

\* Setting or reading the key throws inside the try block: the handler does not
\* know what the key holds, nor whether it has set it.
KeyUnreadable(r) ==
  /\ "redisFails" \in Faults
  /\ \/ pc[r] \in {"locked", "peeking"} /\ UNCHANGED idem
     \/ /\ pc[r] = "locked" /\ KeyFree(slot[r])
        /\ idem' = [idem EXCEPT ![slot[r]] = "processing"]
  /\ Goto(r, "unread")
  /\ UNCHANGED <<client, lock, selections, outcome, faulted>>

\* Without a selection, or with guests that do not match it, the request
\* fails.
ReadSelection(r) ==
  /\ pc[r] = "selecting"
  /\ \/ Shop(slot[r]) \in selections /\ Goto(r, "checking")
     \/ Goto(r, "failing")
  /\ UNCHANGED <<client, redisVars, outcome, faulted>>

\* checkRates: all rooms still available, or one gone, or an error.
CheckRates(r) ==
  /\ pc[r] = "checking"
  /\ Goto(r, "confirming") \/ Goto(r, "failing")
  /\ UNCHANGED <<client, redisVars, outcome, faulted>>

\* confirmBooking at the provider.
Confirm(r) ==
  /\ pc[r] = "confirming"
  /\ reserved' = reserved \cup {r} /\ confirmed' = confirmed \cup {r}
  /\ Goto(r, "saving")
  /\ UNCHANGED <<client, redisVars, saved, published, logged, faulted>>

ConfirmRefused(r) ==
  /\ pc[r] = "confirming"
  /\ Goto(r, "failing")
  /\ UNCHANGED <<client, redisVars, outcome, faulted>>

ConfirmAnswerLost(r) ==
  /\ "lostAnswer" \in Faults
  /\ pc[r] = "confirming"
  /\ reserved' = reserved \cup {r}
  /\ Goto(r, "failing")
  /\ UNCHANGED <<client, redisVars, confirmed, saved, published, logged,
                 faulted>>

\* createBooking's transaction.
Save(r) ==
  /\ pc[r] = "saving"
  /\ saved' = saved \cup {r}
  /\ Goto(r, "storing")
  /\ UNCHANGED <<client, redisVars, reserved, confirmed, published, logged,
                 faulted>>

\* Mutant: providerBooking is not consulted, the failure looks like any other.
SaveFailsUnnoticed(r) ==
  /\ "saveFails" \in Faults
  /\ pc[r] = "saving"
  /\ Goto(r, "failing")
  /\ UNCHANGED <<client, redisVars, outcome, faulted>>

\* The catch clause after a provider booking: a log line and a 500.  The key
\* stays 'processing'.
SaveFails(r) ==
  /\ "saveFails" \in Faults
  /\ pc[r] = "saving"
  /\ logged' = logged \cup {r}
  /\ Answers(r, "critical")
  /\ Goto(r, "releasing")
  /\ UNCHANGED <<slot, replayOf, redisVars, reserved, confirmed, saved,
                 published, faulted>>

\* Mutants: the key is dropped once the booking exists; the result is stored
\* under every key the user has.
KeyDropped(r) == [idem EXCEPT ![slot[r]] = "free"]
StoredPerUser(r) ==
  [s \in Slots |-> IF User(s) = User(slot[r]) THEN r ELSE idem[s]]
Stored(r) == [idem EXCEPT ![slot[r]] = r]

\* The result replaces 'processing'.
Store(r) ==
  /\ pc[r] = "storing"
  /\ idem' = Stored(r)
  /\ Goto(r, "publishing")
  /\ UNCHANGED <<client, lock, selections, outcome, faulted>>

\* The catch clause again, with the row written and perhaps the result.
StoreFails(r) ==
  /\ "redisFails" \in Faults
  /\ pc[r] = "storing"
  /\ idem' \in {idem, Stored(r)}
  /\ logged' = logged \cup {r}
  /\ Answers(r, "critical")
  /\ Goto(r, "releasing")
  /\ UNCHANGED <<slot, replayOf, lock, selections, reserved, confirmed, saved,
                 published, faulted>>

Publish(r) ==
  /\ pc[r] = "publishing"
  /\ published' = published \cup {r}
  /\ Answers(r, "created")
  /\ Goto(r, "releasing")
  /\ UNCHANGED <<slot, replayOf, redisVars, reserved, confirmed, saved, logged,
                 faulted>>

\* Mutant: the key is left to its TTL.
FailKeepsKey(r) ==
  /\ pc[r] \in {"failing", "unread"}
  /\ Answers(r, "rejected")
  /\ Goto(r, "releasing")
  /\ UNCHANGED <<slot, replayOf, redisVars, outcome, faulted>>

\* The catch clause before a provider booking: the key is deleted, whoever
\* set it and whatever it holds, and the error goes to the client.
Fail(r) ==
  /\ pc[r] \in {"failing", "unread"}
  /\ FreeKey(slot[r])
  /\ Answers(r, "rejected")
  /\ Goto(r, "releasing")
  /\ UNCHANGED <<slot, replayOf, lock, selections, outcome, leftLocks, crashes>>

\* The finally clause: the user lock is deleted, whoever set it.
Release(r) ==
  /\ pc[r] = "releasing"
  /\ Unlock(User(slot[r]))
  /\ Goto(r, "done")
  /\ UNCHANGED <<client, idem, selections, outcome, leftKeys, crashes>>

\* The delete of the catch clause throws: the finally clause still runs, the key
\* keeps its value.  (A delete that throws after it was carried out is Fail.)
FailDeleteFails(r) ==
  /\ "redisFails" \in Faults
  /\ pc[r] \in {"failing", "unread"}
  /\ leftKeys' = IF Processing(slot[r]) THEN leftKeys \cup {slot[r]} ELSE leftKeys
  /\ Answers(r, "rejected")
  /\ Goto(r, "releasing")
  /\ UNCHANGED <<slot, replayOf, redisVars, outcome, leftLocks, crashes>>

\* The delete of the finally clause throws, before or after it was carried out:
\* its error takes the place of what the handler returned.
ReleaseFails(r) ==
  /\ "redisFails" \in Faults
  /\ pc[r] = "releasing"
  /\ \/ /\ leftLocks' = leftLocks \cup (lock \cap {User(slot[r])})
        /\ UNCHANGED lock
     \/ Unlock(User(slot[r]))
  /\ answer' = [answer EXCEPT ![r] = IF @ = "timeout" THEN @ ELSE "rejected"]
  /\ replayOf' = [replayOf EXCEPT ![r] = None]
  /\ Goto(r, "done")
  /\ UNCHANGED <<slot, idem, selections, outcome, leftKeys, crashes>>

\* TimeoutInterceptor gives the client 408; the handler goes on.
TimeOut(r) ==
  /\ "timeouts" \in Faults
  /\ InFlight(r) /\ answer[r] = "none"
  /\ answer' = [answer EXCEPT ![r] = "timeout"]
  /\ UNCHANGED <<pc, slot, replayOf, redisVars, outcome, faulted>>
-----------------------------------------------------------------------------
\* TTLs.  The lock and the key of a running handler only expire when it is
\* slower than five minutes.
LockExpires(u) ==
  /\ u \in lock
  /\ \/ "slow" \in Faults
     \/ \A r \in Requests : InFlight(r) => User(slot[r]) # u
  /\ Unlock(u)
  /\ UNCHANGED <<pc, client, idem, selections, outcome, leftKeys, crashes>>

KeyExpires(s) ==
  /\ "keyExpires" \in Faults
  /\ idem[s] # "free"
  /\ \/ "slow" \in Faults
     \/ \A r \in Requests : HoldsKey(r) => slot[r] # s
  /\ FreeKey(s)
  /\ UNCHANGED <<pc, client, lock, selections, outcome, leftLocks, crashes>>

SelectionExpires(u, h) ==
  /\ <<u, h>> \in selections
  /\ selections' = selections \ {<<u, h>>}
  /\ UNCHANGED <<pc, client, lock, idem, outcome, faulted>>

\* Handlers die with the process; Redis, the database and the provider keep
\* what they have.
Crash ==
  /\ "crash" \in Faults /\ crashes < MaxCrashes
  /\ crashes' = crashes + 1
  /\ pc' = [r \in Requests |-> IF InFlight(r) THEN "cut" ELSE pc[r]]
  /\ UNCHANGED <<client, redisVars, outcome, leftovers>>
-----------------------------------------------------------------------------
Handler(r) ==
  \/ TryKey(r) \/ Peek(r) \/ KeyUnreadable(r)
  \/ ReadSelection(r) \/ CheckRates(r)
  \/ Confirm(r) \/ ConfirmRefused(r) \/ ConfirmAnswerLost(r)
  \/ Save(r) \/ SaveFails(r) \/ Store(r) \/ StoreFails(r) \/ Publish(r)
  \/ Fail(r) \/ FailDeleteFails(r) \/ Release(r) \/ ReleaseFails(r)

Next ==
  \/ \E u \in Users, h \in Hotels : SelectRooms(u, h) \/ SelectionExpires(u, h)
  \/ \E r \in Requests, s \in Slots : Arrive(r, s) \/ ArriveFails(r, s)
  \/ \E r \in Requests : Handler(r) \/ TimeOut(r)
  \/ \E u \in Users : LockExpires(u)
  \/ \E s \in Slots : KeyExpires(s)
  \/ Crash

Spec == Init /\ [][Next]_vars

-----------------------------------------------------------------------------
\* A user has one booking request under way (the user lock against several
\* devices, crashes and the unconditional delete of the finally clause), as
\* long as no handler outlives its lock.
OneInFlight ==
  \A r, q \in Requests :
    InFlight(r) /\ InFlight(q) /\ User(slot[r]) = User(slot[q]) => r = q

\* What a client is replayed is a booking that exists, made by the same user
\* with the same key at the same hotel.
ReplayIsOwn ==
  \A r \in Requests :
    answer[r] = "replayed" =>
      \E q \in saved : replayOf[r] = q /\ slot[q] = slot[r]

\* An idempotency key gets one booking row and its clients are shown that one,
\* whatever is retried.  The key alone would not do, a conflict deletes it: the
\* user lock keeps others away while it says 'processing'.
SavedOncePerKey == \A r, q \in saved : slot[r] = slot[q] => r = q

RowOf(s) == IF \E r \in saved : slot[r] = s
            THEN CHOOSE r \in saved : slot[r] = s ELSE None
Promise == INSTANCE OncePerKey WITH
  row <- [s \in Slots |-> RowOf(s)],
  shown <- [r \in Requests |-> IF answer[r] = "created" THEN r
                               ELSE replayOf[r]]
BookedOncePerKey == Promise!Spec

\* A reservation the handler knows of, without a row or with a row nobody was
\* told of (no event, so no expiry job), is never silent: the handler that left
\* it logged it, also when its client had long been told 408.
OrphansLogged ==
  \A r \in confirmed \ (saved \cap published) :
    pc[r] = "done" => r \in logged

\* Nobody waits for a request that is gone, under every fault: a set user lock has a
\* request under way that will delete it, and a key that says 'processing' one that
\* will store its result or delete it.  Locks and keys are left to their TTLs in the
\* cases named here only: the request's process died, the very SET or delete of that
\* lock or key threw, or, for a key, the request logged that its booking is not saved.
NothingLeftBehind ==
  /\ \A u \in lock \ leftLocks : \E r \in Requests :
       (InFlight(r) \/ pc[r] = "cut") /\ User(slot[r]) = u
  /\ \A s \in Slots \ leftKeys : idem[s] = "processing" =>
       \E r \in Requests :
         /\ slot[r] = s
         /\ \/ HoldsKey(r) \/ pc[r] \in {"failing", "unread", "cut"}
            \/ r \in logged

\* A stored result leaves Redis in two ways only: its TTL, and the catch clause of a
\* request with the key whose SET or GET threw, which deletes it unread
\* (booking.handler.ts:119).  No conflict, refused rate, failed save, lost lock or
\* crash of a later request overwrites or deletes it, as long as no handler
\* outlives its lock.
StoredResultStays ==
  [][\A s \in Slots : idem[s] \in Requests /\ idem'[s] # idem[s] =>
       /\ idem'[s] = "free"
       /\ \/ KeyExpires(s)
          \/ \E r \in Requests :
               pc[r] = "unread" /\ pc'[r] # "unread" /\ slot[r] = s]_vars

\* An idempotency key protects against duplicate booking requests (README,
\* Idempotency): the provider makes one reservation for it.
ReservedOncePerKey == \A r, q \in reserved : slot[r] = slot[q] => r = q
=============================================================================
