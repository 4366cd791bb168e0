------------------------ MODULE BookingCommand_proofs ------------------------
(***************************************************************************)
(* Proofs about BookingCommand, for every set of users, hotels, keys and   *)
(* requests.  The invariant of the user lock holds as long as no handler   *)
(* outlives its lock; the one of the keys also needs that no crash and no  *)
(* TTL takes a key away.                                                   *)
(***************************************************************************)
EXTENDS BookingCommand, TLAPS

\* A request that arrived has its slot, and one at its key has no reply yet.
Arrived ==
  \A r \in Requests :
    /\ pc[r] # "idle" => slot[r] \in Slots
    /\ pc[r] \notin {"releasing", "done", "cut"} =>
         replayOf[r] = None /\ answer[r] \in {"none", "timeout"}

\* Every reply and every stored result is a booking made with the same key.
Replies ==
  /\ \A s \in Slots : idem[s] \in Requests =>
       idem[s] \in saved /\ slot[idem[s]] = s
  /\ \A r \in saved : pc[r] \in {"storing", "publishing", "releasing", "done", "cut"}
  /\ \A r \in Requests :
       /\ pc[r] \in {"storing", "publishing"} => r \in saved
       /\ replayOf[r] # None =>
            replayOf[r] \in saved /\ slot[replayOf[r]] = slot[r]
       /\ answer[r] = "replayed" => replayOf[r] # None

Base == TypeOK /\ Arrived /\ Replies

\* Nothing but the requests themselves takes a key away.
KeysSafe == {"slow", "keyExpires", "redisFails", "crash"} \cap Faults = {}

\* A request under way has its user's lock to itself.
Locked ==
  /\ \A r \in Requests : InFlight(r) => User(slot[r]) \in lock
  /\ OneInFlight

\* Whoever works under a key finds 'processing' there, and whoever fails after its
\* turn at the key finds no result there.
KeyHeld ==
  \A r \in Requests :
    /\ HoldsKey(r) => idem[slot[r]] = "processing"
    /\ pc[r] = "failing" => idem[slot[r]] \notin Requests

\* There is no booking of a key somebody works under; a booking that was made keeps
\* its key.
KeyKept ==
  /\ \A r \in Requests :
       /\ pc[r] # "unread"
       /\ pc[r] \in {"selecting", "checking", "confirming", "saving", "failing"} =>
            \A q \in saved : slot[q] # slot[r]
  /\ \A q \in saved : pc[q] # "storing" => idem[slot[q]] = q

\* Locks and keys are in somebody's care; who logged a failure has arrived.
Cared == NothingLeftBehind /\ \A r \in logged : pc[r] # "idle"
-----------------------------------------------------------------------------
\* A slot names its user.
LEMMA SlotUser == \A s \in Slots : User(s) \in Users
BY DEF Slots, User

\* Every variable keeps its type, under every fault.
LEMMA TypeNext == TypeOK /\ Arrived /\ [Next]_vars => TypeOK'
<1> SUFFICES ASSUME TypeOK, Arrived, [Next]_vars PROVE TypeOK'
    OBVIOUS
<1> USE SlotUser, RequestsAssumption, CrashAssumption
    DEF TypeOK, Arrived, Running, redisVars, outcome, client,
          leftovers, faulted, Unlock, FreeKey, Goto, Answers
<1>1. ASSUME NEW u \in Users, NEW h \in Hotels,
             SelectRooms(u, h) \/ SelectionExpires(u, h)
      PROVE  TypeOK'
      BY <1>1 DEF SelectRooms, SelectionExpires
<1>2. ASSUME NEW r \in Requests, NEW s \in Slots,
             Arrive(r, s) \/ ArriveFails(r, s)
      PROVE  TypeOK'
      BY <1>2 DEF Arrive, ArriveFails, Busy
<1>3. ASSUME NEW r \in Requests, Handler(r) PROVE TypeOK'
      <2>1. CASE TryKey(r)
            BY <2>1 DEF TryKey
      <2>2. CASE Peek(r) \/ KeyUnreadable(r)
            BY <2>2 DEF Peek, Processing, KeyUnreadable, KeyFree
      <2>3. CASE Store(r) \/ StoreFails(r) \/ Publish(r) \/ Fail(r) \/ FailDeleteFails(r)
            BY <2>3 DEF Store, Stored, StoreFails, Publish, Fail, FailDeleteFails,
               Processing
      <2>4. CASE Release(r) \/ ReleaseFails(r)
            BY <2>4 DEF Release, ReleaseFails
      <2>5. CASE ReadSelection(r) \/ CheckRates(r) \/ Confirm(r) \/ ConfirmRefused(r)
            BY <2>5 DEF ReadSelection, CheckRates, Confirm, ConfirmRefused
      <2>6. CASE ConfirmAnswerLost(r) \/ Save(r) \/ SaveFails(r)
            BY <2>6 DEF ConfirmAnswerLost, Save, SaveFails
      <2> QED BY <1>3, <2>1, <2>2, <2>3, <2>4, <2>5, <2>6 DEF Handler
<1>4. ASSUME NEW r \in Requests, TimeOut(r) PROVE TypeOK'
      BY <1>4 DEF TimeOut
<1>5. ASSUME NEW u \in Users, LockExpires(u) PROVE TypeOK'
      BY <1>5 DEF LockExpires
<1>6. ASSUME NEW s \in Slots, KeyExpires(s) PROVE TypeOK'
      BY <1>6 DEF KeyExpires
<1>7. CASE Crash
      BY <1>7 DEF Crash
<1>8. CASE UNCHANGED vars
      BY <1>8 DEF vars
<1> QED BY <1>1, <1>2, <1>3, <1>4, <1>5, <1>6, <1>7, <1>8 DEF Next

\* Slots are given on arrival, replies at the end.
LEMMA ArrivedNext ==
  TypeOK /\ Arrived /\ [Next]_vars => Arrived'
<1> SUFFICES ASSUME TypeOK, Arrived, [Next]_vars
             PROVE  Arrived'
    OBVIOUS
<1> USE RequestsAssumption, SlotUser DEF TypeOK, Arrived, Running, InFlight,
          redisVars, outcome, client,
          leftovers, faulted, Unlock, FreeKey, Goto, Answers
<1>1. ASSUME NEW u \in Users, NEW h \in Hotels,
             SelectRooms(u, h) \/ SelectionExpires(u, h)
      PROVE  Arrived'
      BY <1>1 DEF SelectRooms, SelectionExpires
<1>2. ASSUME NEW r \in Requests, NEW s \in Slots,
             Arrive(r, s) \/ ArriveFails(r, s)
      PROVE  Arrived'
      BY <1>2 DEF Arrive, ArriveFails, Busy
<1>3. ASSUME NEW r \in Requests, Handler(r) PROVE Arrived'
      <2>1. CASE TryKey(r)
            BY <2>1 DEF TryKey, KeyFree
      <2>2. CASE Peek(r) \/ KeyUnreadable(r)
            BY <2>2 DEF Peek, Processing, KeyUnreadable, KeyFree
      <2>3. CASE Store(r) \/ StoreFails(r) \/ Publish(r)
            BY <2>3 DEF Store, Stored, StoreFails, Publish
      <2>4. CASE Fail(r) \/ FailDeleteFails(r)
            BY <2>4 DEF Fail, FailDeleteFails, Processing
      <2>5. CASE Release(r) \/ ReleaseFails(r)
            BY <2>5 DEF Release, ReleaseFails
      <2>6. CASE ReadSelection(r) \/ CheckRates(r) \/ Confirm(r) \/ ConfirmRefused(r)
            BY <2>6 DEF ReadSelection, CheckRates, Confirm, ConfirmRefused
      <2>7. CASE ConfirmAnswerLost(r) \/ Save(r) \/ SaveFails(r)
            BY <2>7 DEF ConfirmAnswerLost, Save, SaveFails
      <2> QED BY <1>3, <2>1, <2>2, <2>3, <2>4, <2>5, <2>6, <2>7 DEF Handler
<1>4. ASSUME NEW r \in Requests, TimeOut(r) PROVE Arrived'
      BY <1>4 DEF TimeOut
<1>5. ASSUME NEW u \in Users, LockExpires(u) PROVE Arrived'
      BY <1>5 DEF LockExpires
<1>6. ASSUME NEW s \in Slots, KeyExpires(s) PROVE Arrived'
      BY <1>6 DEF KeyExpires
<1>7. CASE Crash
      BY <1>7 DEF Crash
<1>8. CASE UNCHANGED vars
      BY <1>8 DEF vars
<1> QED BY <1>1, <1>2, <1>3, <1>4, <1>5, <1>6, <1>7, <1>8 DEF Next

\* Replies and stored results stay bookings of their key.
LEMMA RepliesNext ==
  TypeOK /\ Arrived /\ Replies /\ [Next]_vars => Replies'
<1> SUFFICES ASSUME TypeOK, Arrived, Replies, [Next]_vars
             PROVE  Replies'
    OBVIOUS
<1> USE RequestsAssumption, SlotUser DEF TypeOK, Arrived, Running, InFlight,
          redisVars, outcome, client,
          leftovers, faulted, Unlock, FreeKey, Goto, Answers, Replies
<1>1. ASSUME NEW u \in Users, NEW h \in Hotels,
             SelectRooms(u, h) \/ SelectionExpires(u, h)
      PROVE  Replies'
      BY <1>1 DEF SelectRooms, SelectionExpires
<1>2. ASSUME NEW r \in Requests, NEW s \in Slots,
             Arrive(r, s) \/ ArriveFails(r, s)
      PROVE  Replies'
      BY <1>2 DEF Arrive, ArriveFails, Busy
<1>3. ASSUME NEW r \in Requests, Handler(r) PROVE Replies'
      <2>1. CASE TryKey(r)
            BY <2>1 DEF TryKey, KeyFree
      <2>2. CASE Peek(r) \/ KeyUnreadable(r)
            BY <2>2 DEF Peek, Processing, KeyUnreadable, KeyFree
      <2>3. CASE Store(r) \/ StoreFails(r) \/ Publish(r)
            BY <2>3 DEF Store, Stored, StoreFails, Publish
      <2>4. CASE Fail(r) \/ FailDeleteFails(r)
            BY <2>4 DEF Fail, FailDeleteFails, Processing
      <2>5. CASE Release(r) \/ ReleaseFails(r)
            BY <2>5 DEF Release, ReleaseFails
      <2>6. CASE ReadSelection(r) \/ CheckRates(r) \/ Confirm(r) \/ ConfirmRefused(r)
            BY <2>6 DEF ReadSelection, CheckRates, Confirm, ConfirmRefused
      <2>7. CASE ConfirmAnswerLost(r) \/ Save(r) \/ SaveFails(r)
            BY <2>7 DEF ConfirmAnswerLost, Save, SaveFails
      <2> QED BY <1>3, <2>1, <2>2, <2>3, <2>4, <2>5, <2>6, <2>7 DEF Handler
<1>4. ASSUME NEW r \in Requests, TimeOut(r) PROVE Replies'
      BY <1>4 DEF TimeOut
<1>5. ASSUME NEW u \in Users, LockExpires(u) PROVE Replies'
      BY <1>5 DEF LockExpires
<1>6. ASSUME NEW s \in Slots, KeyExpires(s) PROVE Replies'
      BY <1>6 DEF KeyExpires
<1>7. CASE Crash
      BY <1>7 DEF Crash
<1>8. CASE UNCHANGED vars
      BY <1>8 DEF vars
<1> QED BY <1>1, <1>2, <1>3, <1>4, <1>5, <1>6, <1>7, <1>8 DEF Next

\* The user lock, if no handler outlives it.
LEMMA LockedNext ==
  /\ "slow" \notin Faults
  /\ TypeOK /\ Arrived /\ Locked /\ [Next]_vars
  => Locked'
<1> SUFFICES ASSUME "slow" \notin Faults,
                    TypeOK, Arrived, Locked, [Next]_vars
             PROVE  Locked'
    OBVIOUS
<1> USE RequestsAssumption, SlotUser DEF TypeOK, Arrived, Running, InFlight,
          redisVars, outcome, client,
          leftovers, faulted, Unlock, FreeKey, Goto, Answers, Locked, OneInFlight
<1>1. ASSUME NEW u \in Users, NEW h \in Hotels,
             SelectRooms(u, h) \/ SelectionExpires(u, h)
      PROVE  Locked'
      BY <1>1 DEF SelectRooms, SelectionExpires
<1>2. ASSUME NEW r \in Requests, NEW s \in Slots,
             Arrive(r, s) \/ ArriveFails(r, s)
      PROVE  Locked'
      BY <1>2 DEF Arrive, ArriveFails, Busy
<1>3. ASSUME NEW r \in Requests, Handler(r) PROVE Locked'
      <2>1. CASE TryKey(r)
            BY <2>1 DEF TryKey, KeyFree
      <2>2. CASE Peek(r) \/ KeyUnreadable(r)
            BY <2>2 DEF Peek, Processing, KeyUnreadable, KeyFree
      <2>3. CASE Store(r) \/ StoreFails(r) \/ Publish(r)
            BY <2>3 DEF Store, Stored, StoreFails, Publish
      <2>4. CASE Fail(r) \/ FailDeleteFails(r)
            BY <2>4 DEF Fail, FailDeleteFails, Processing
      <2>5. CASE Release(r) \/ ReleaseFails(r)
            BY <2>5 DEF Release, ReleaseFails
      <2>6. CASE ReadSelection(r) \/ CheckRates(r) \/ Confirm(r) \/ ConfirmRefused(r)
            BY <2>6 DEF ReadSelection, CheckRates, Confirm, ConfirmRefused
      <2>7. CASE ConfirmAnswerLost(r) \/ Save(r) \/ SaveFails(r)
            BY <2>7 DEF ConfirmAnswerLost, Save, SaveFails
      <2> QED BY <1>3, <2>1, <2>2, <2>3, <2>4, <2>5, <2>6, <2>7 DEF Handler
<1>4. ASSUME NEW r \in Requests, TimeOut(r) PROVE Locked'
      BY <1>4 DEF TimeOut
<1>5. ASSUME NEW u \in Users, LockExpires(u) PROVE Locked'
      BY <1>5 DEF LockExpires
<1>6. ASSUME NEW s \in Slots, KeyExpires(s) PROVE Locked'
      BY <1>6 DEF KeyExpires
<1>7. CASE Crash
      BY <1>7 DEF Crash
<1>8. CASE UNCHANGED vars
      BY <1>8 DEF vars
<1> QED BY <1>1, <1>2, <1>3, <1>4, <1>5, <1>6, <1>7, <1>8 DEF Next

\* The key of a request under way, if no handler outlives its lock.
LEMMA KeyHeldNext ==
  /\ "slow" \notin Faults
  /\ TypeOK /\ Arrived /\ Replies /\ Locked /\ KeyHeld /\ [Next]_vars
  => KeyHeld'
<1> SUFFICES ASSUME "slow" \notin Faults,
                    TypeOK, Arrived, Replies, Locked, KeyHeld, [Next]_vars
             PROVE  KeyHeld'
    OBVIOUS
<1> USE RequestsAssumption, SlotUser DEF TypeOK, Arrived, Running, InFlight,
          redisVars, outcome, client,
          leftovers, faulted, Unlock, FreeKey, Goto, Answers, Locked, OneInFlight,
          KeyHeld, HoldsKey
<1>1. ASSUME NEW u \in Users, NEW h \in Hotels,
             SelectRooms(u, h) \/ SelectionExpires(u, h)
      PROVE  KeyHeld'
      BY <1>1 DEF SelectRooms, SelectionExpires
<1>2. ASSUME NEW r \in Requests, NEW s \in Slots,
             Arrive(r, s) \/ ArriveFails(r, s)
      PROVE  KeyHeld'
      BY <1>2 DEF Arrive, ArriveFails, Busy
<1>3. ASSUME NEW r \in Requests, Handler(r) PROVE KeyHeld'
      <2>1. CASE TryKey(r)
            BY <2>1 DEF TryKey, KeyFree
      <2>2. CASE Peek(r) \/ KeyUnreadable(r)
            BY <2>2 DEF Peek, Processing, KeyUnreadable, KeyFree
      <2>3. CASE Store(r) \/ StoreFails(r) \/ Publish(r)
            BY <2>3 DEF Store, Stored, StoreFails, Publish
      <2>4. CASE Fail(r) \/ FailDeleteFails(r)
            BY <2>4 DEF Fail, FailDeleteFails, Processing
      <2>5. CASE Release(r) \/ ReleaseFails(r)
            BY <2>5 DEF Release, ReleaseFails
      <2>6. CASE ReadSelection(r) \/ CheckRates(r) \/ Confirm(r) \/ ConfirmRefused(r)
            BY <2>6 DEF ReadSelection, CheckRates, Confirm, ConfirmRefused
      <2>7. CASE ConfirmAnswerLost(r) \/ Save(r) \/ SaveFails(r)
            BY <2>7 DEF ConfirmAnswerLost, Save, SaveFails
      <2> QED BY <1>3, <2>1, <2>2, <2>3, <2>4, <2>5, <2>6, <2>7 DEF Handler
<1>4. ASSUME NEW r \in Requests, TimeOut(r) PROVE KeyHeld'
      BY <1>4 DEF TimeOut
<1>5. ASSUME NEW u \in Users, LockExpires(u) PROVE KeyHeld'
      BY <1>5 DEF LockExpires
<1>6. ASSUME NEW s \in Slots, KeyExpires(s) PROVE KeyHeld'
      BY <1>6 DEF KeyExpires
<1>7. CASE Crash
      BY <1>7 DEF Crash
<1>8. CASE UNCHANGED vars
      BY <1>8 DEF vars
<1> QED BY <1>1, <1>2, <1>3, <1>4, <1>5, <1>6, <1>7, <1>8 DEF Next

\* The idempotency key, if nothing but its requests takes it away.
LEMMA KeyKeptNext ==
  /\ KeysSafe
  /\ TypeOK /\ Arrived /\ Replies /\ Locked /\ KeyHeld /\ KeyKept /\ [Next]_vars
  => KeyKept'
<1> SUFFICES ASSUME KeysSafe, TypeOK, Arrived, Replies, Locked, KeyHeld, KeyKept,
                    [Next]_vars
             PROVE  KeyKept'
    OBVIOUS
<1> USE RequestsAssumption, SlotUser DEF TypeOK, Arrived, Running, InFlight,
          redisVars, outcome, client,
          leftovers, faulted, Unlock, FreeKey, Goto, Answers, Replies, Locked,
          OneInFlight,
          KeyHeld, KeyKept, HoldsKey, KeysSafe
<1>1. ASSUME NEW u \in Users, NEW h \in Hotels,
             SelectRooms(u, h) \/ SelectionExpires(u, h)
      PROVE  KeyKept'
      BY <1>1 DEF SelectRooms, SelectionExpires
<1>2. ASSUME NEW r \in Requests, NEW s \in Slots,
             Arrive(r, s) \/ ArriveFails(r, s)
      PROVE  KeyKept'
      BY <1>2 DEF Arrive, ArriveFails, Busy
<1>3. ASSUME NEW r \in Requests, Handler(r) PROVE KeyKept'
      <2>1. CASE TryKey(r)
            BY <2>1 DEF TryKey, KeyFree
      <2>2. CASE Peek(r) \/ KeyUnreadable(r)
            BY <2>2 DEF Peek, Processing, KeyUnreadable, KeyFree
      <2>3. CASE Store(r) \/ StoreFails(r) \/ Publish(r)
            BY <2>3 DEF Store, Stored, StoreFails, Publish
      <2>4. CASE Fail(r) \/ FailDeleteFails(r)
            BY <2>4 DEF Fail, FailDeleteFails, Processing
      <2>5. CASE Release(r) \/ ReleaseFails(r)
            BY <2>5 DEF Release, ReleaseFails
      <2>6. CASE ReadSelection(r) \/ CheckRates(r) \/ Confirm(r) \/ ConfirmRefused(r)
            BY <2>6 DEF ReadSelection, CheckRates, Confirm, ConfirmRefused
      <2>7. CASE ConfirmAnswerLost(r) \/ Save(r) \/ SaveFails(r)
            BY <2>7 DEF ConfirmAnswerLost, Save, SaveFails
      <2> QED BY <1>3, <2>1, <2>2, <2>3, <2>4, <2>5, <2>6, <2>7 DEF Handler
<1>4. ASSUME NEW r \in Requests, TimeOut(r) PROVE KeyKept'
      BY <1>4 DEF TimeOut
<1>5. ASSUME NEW u \in Users, LockExpires(u) PROVE KeyKept'
      BY <1>5 DEF LockExpires
<1>6. ASSUME NEW s \in Slots, KeyExpires(s) PROVE KeyKept'
      BY <1>6 DEF KeyExpires
<1>7. CASE Crash
      BY <1>7 DEF Crash
<1>8. CASE UNCHANGED vars
      BY <1>8 DEF vars
<1> QED BY <1>1, <1>2, <1>3, <1>4, <1>5, <1>6, <1>7, <1>8 DEF Next

\* What is set in Redis is in somebody's care while no process dies.
LEMMA CaredNext ==
  TypeOK /\ Arrived /\ Cared /\ [Next]_vars => Cared'
<1> SUFFICES ASSUME TypeOK, Arrived, Cared, [Next]_vars
             PROVE  Cared'
    OBVIOUS
<1> USE RequestsAssumption, SlotUser DEF TypeOK, Arrived, Running, InFlight,
          HoldsKey, redisVars, outcome, client,
          leftovers, faulted, Unlock, FreeKey, Goto, Answers, Cared,
          NothingLeftBehind
<1>1. ASSUME NEW u \in Users, NEW h \in Hotels,
             SelectRooms(u, h) \/ SelectionExpires(u, h)
      PROVE  Cared'
      BY <1>1 DEF SelectRooms, SelectionExpires
<1>2. ASSUME NEW r \in Requests, NEW s \in Slots,
             Arrive(r, s) \/ ArriveFails(r, s)
      PROVE  Cared'
      <2>1. /\ pc[r] = "idle" /\ slot' = [slot EXCEPT ![r] = s]
            /\ UNCHANGED <<idem, logged, leftKeys>>
            /\ \/ pc' = [pc EXCEPT ![r] = "done"] /\ UNCHANGED <<lock, leftLocks>>
               \/ /\ pc' = [pc EXCEPT ![r] = "done"] /\ lock' = lock \cup {User(s)}
                  /\ leftLocks' = leftLocks \cup {User(s)}
               \/ /\ pc' = [pc EXCEPT ![r] = "locked"] /\ lock' = lock \cup {User(s)}
                  /\ UNCHANGED leftLocks
            BY <1>2 DEF Arrive, ArriveFails, Busy
      <2>2. ASSUME NEW u \in lock' \ leftLocks'
            PROVE  \E q \in Requests :
                     (InFlight(q)' \/ pc'[q] = "cut") /\ User(slot'[q]) = u
            BY <2>1, <2>2
      <2>3. ASSUME NEW t \in Slots \ leftKeys, idem[t] = "processing"
            PROVE  \E q \in Requests :
                     /\ slot'[q] = t
                     /\ \/ HoldsKey(q)' \/ pc'[q] \in {"failing", "unread", "cut"}
                        \/ q \in logged
            BY <2>1, <2>3
      <2> QED BY <2>1, <2>2, <2>3
<1>3. ASSUME NEW r \in Requests, Handler(r) PROVE Cared'
      <2>1. CASE TryKey(r)
            BY <2>1 DEF TryKey, KeyFree
      <2>2. CASE Peek(r) \/ KeyUnreadable(r)
            BY <2>2 DEF Peek, Processing, KeyUnreadable, KeyFree
      <2>3. CASE Store(r) \/ StoreFails(r) \/ Publish(r)
            BY <2>3 DEF Store, Stored, StoreFails, Publish
      <2>4. CASE Fail(r) \/ FailDeleteFails(r)
            BY <2>4 DEF Fail, FailDeleteFails, Processing
      <2>5. CASE Release(r) \/ ReleaseFails(r)
            BY <2>5 DEF Release, ReleaseFails
      <2>6. CASE ReadSelection(r) \/ CheckRates(r) \/ Confirm(r) \/ ConfirmRefused(r)
            BY <2>6 DEF ReadSelection, CheckRates, Confirm, ConfirmRefused
      <2>7. CASE ConfirmAnswerLost(r) \/ Save(r) \/ SaveFails(r)
            BY <2>7 DEF ConfirmAnswerLost, Save, SaveFails
      <2> QED BY <1>3, <2>1, <2>2, <2>3, <2>4, <2>5, <2>6, <2>7 DEF Handler
<1>4. ASSUME NEW r \in Requests, TimeOut(r) PROVE Cared'
      BY <1>4 DEF TimeOut
<1>5. ASSUME NEW u \in Users, LockExpires(u) PROVE Cared'
      BY <1>5 DEF LockExpires
<1>6. ASSUME NEW s \in Slots, KeyExpires(s) PROVE Cared'
      BY <1>6 DEF KeyExpires
<1>7. CASE Crash
      BY <1>7, CrashAssumption DEF Crash
<1>8. CASE UNCHANGED vars
      BY <1>8 DEF vars
<1> QED BY <1>1, <1>2, <1>3, <1>4, <1>5, <1>6, <1>7, <1>8 DEF Next

-----------------------------------------------------------------------------
\* The part of the invariant that needs no assumption on the faults.
LEMMA BaseInit == Init => Base
<1> SUFFICES ASSUME Init PROVE Base
    OBVIOUS
<1> USE RequestsAssumption DEF Init, Running
<1>1. TypeOK
      BY DEF TypeOK
<1>2. Arrived /\ Replies
      BY DEF Arrived, Replies
<1> QED BY <1>1, <1>2 DEF Base

\* It is inductive.
LEMMA BaseNext == Base /\ [Next]_vars => Base'
BY TypeNext, ArrivedNext, RepliesNext DEF Base

\* Types, arrivals and replies are as they should, under every fault.
THEOREM BaseInvariance == Spec => []Base
BY BaseInit, BaseNext, PTL DEF Spec

\* Every variable keeps its type, under every fault.
THEOREM TypeCorrect == Spec => []TypeOK
<1>1. Base => TypeOK
      BY DEF Base
<1> QED BY <1>1, BaseInvariance, PTL

\* A replay is a booking of the same user, hotel and key, under every fault.
THEOREM ReplaysAreOwn == Spec => []ReplayIsOwn
<1>1. Base => ReplayIsOwn
      BY DEF Base, Replies, ReplayIsOwn
<1> QED BY <1>1, BaseInvariance, PTL

\* Under every fault, no request waits for one that is gone, but for what a dead
\* process or a Redis command that threw left to its TTL.
THEOREM LocksAreCaredFor == Spec => []NothingLeftBehind
<1>1. Init => Cared
      BY RequestsAssumption DEF Init, Cared, NothingLeftBehind
<1>2. Base /\ Cared /\ [Next]_vars => Cared'
      BY CaredNext DEF Base
<1>3. Cared => NothingLeftBehind
      BY DEF Cared
<1> QED BY <1>1, <1>2, <1>3, BaseInvariance, PTL DEF Spec

\* The user lock excludes, whatever crashes, if no handler outlives it.
THEOREM MutualExclusion == "slow" \notin Faults => (Spec => []OneInFlight)
<1> SUFFICES ASSUME "slow" \notin Faults PROVE Spec => []OneInFlight
    OBVIOUS
<1>1. Init => Locked
      BY DEF Init, Locked, OneInFlight, InFlight, Running
<1>2. Base /\ Locked /\ [Next]_vars => Locked'
      BY LockedNext DEF Base
<1>3. Locked => OneInFlight
      BY DEF Locked
<1> QED BY <1>1, <1>2, <1>3, BaseInvariance, PTL DEF Spec

-----------------------------------------------------------------------------
(* Nothing the provider booked is lost without a trace.                    *)

\* What the handler got from the provider it saves and announces, or logs.
Traced ==
  \A r \in Requests :
    /\ r \in confirmed =>
         pc[r] \in {"saving", "storing", "publishing", "releasing", "done", "cut"}
    /\ r \in confirmed /\ pc[r] \in {"releasing", "done"} =>
         r \in logged \/ r \in saved \cap published
    /\ pc[r] \in {"storing", "publishing"} => r \in saved

\* Only a crash leaves the handler's path before the log line.
LEMMA TracedNext == TypeOK /\ Traced /\ [Next]_vars => Traced'
<1> SUFFICES ASSUME TypeOK, Traced, [Next]_vars PROVE Traced'
    OBVIOUS
<1> USE DEF TypeOK, Traced, Running, InFlight, redisVars, outcome, client,
          leftovers, faulted, Unlock, FreeKey, Goto,
            Answers
<1>1. ASSUME NEW r \in Requests, Handler(r) PROVE Traced'
  <2>1. CASE TryKey(r) \/ Peek(r) \/ KeyUnreadable(r) \/ ReadSelection(r)
             \/ CheckRates(r)
        BY <2>1 DEF TryKey, Peek, KeyUnreadable, ReadSelection, CheckRates
  <2>2. CASE Confirm(r) \/ ConfirmRefused(r) \/ ConfirmAnswerLost(r)
        BY <2>2 DEF Confirm, ConfirmRefused, ConfirmAnswerLost
  <2>3. CASE Save(r) \/ SaveFails(r) \/ Store(r) \/ StoreFails(r) \/ Publish(r)
        BY <2>3 DEF Save, SaveFails, Store, StoreFails, Publish
  <2>4. CASE Fail(r) \/ FailDeleteFails(r) \/ Release(r) \/ ReleaseFails(r)
        BY <2>4 DEF Fail, FailDeleteFails, Release, ReleaseFails
  <2> QED BY <1>1, <2>1, <2>2, <2>3, <2>4 DEF Handler
<1>2. ASSUME NEW r \in Requests, NEW s \in Slots,
             Arrive(r, s) \/ ArriveFails(r, s)
      PROVE  Traced'
      BY <1>2 DEF Arrive, ArriveFails, Busy
<1>3. CASE Crash
      BY <1>3 DEF Crash
<1>4. ASSUME NEW u \in Users, NEW h \in Hotels,
             SelectRooms(u, h) \/ SelectionExpires(u, h)
      PROVE  Traced'
      BY <1>4 DEF SelectRooms, SelectionExpires
<1>5. ASSUME NEW u \in Users, LockExpires(u) PROVE Traced'
      BY <1>5 DEF LockExpires
<1>6. ASSUME NEW s \in Slots, KeyExpires(s) PROVE Traced'
      BY <1>6 DEF KeyExpires
<1>7. ASSUME NEW r \in Requests, TimeOut(r) PROVE Traced'
      BY <1>7 DEF TimeOut
<1>8. CASE UNCHANGED vars
      BY <1>8 DEF vars
<1> QED BY <1>1, <1>2, <1>3, <1>4, <1>5, <1>6, <1>7, <1>8 DEF Next

\* Under every fault, a handler that ends without its booking saved and
\* announced has logged it.
THEOREM OrphansAreLogged == Spec => []OrphansLogged
<1>1. Init => Traced
      BY DEF Init, Traced
<1>2. Base /\ Traced /\ [Next]_vars => Traced'
      BY TracedNext DEF Base
<1>3. Base /\ Traced => OrphansLogged
      BY DEF Base, TypeOK, Traced, OrphansLogged
<1> QED BY <1>1, <1>2, <1>3, BaseInvariance, PTL DEF Spec

-----------------------------------------------------------------------------
(* Idempotency, as long as no key is taken from outside.                   *)

KeyInv == Base /\ Locked /\ KeyHeld /\ KeyKept

\* A request under way has its key while no handler outlives its lock.
LEMMA KeyHeldInvariance ==
  "slow" \notin Faults => (Spec => []Locked /\ []KeyHeld)
<1> SUFFICES ASSUME "slow" \notin Faults PROVE Spec => []Locked /\ []KeyHeld
    OBVIOUS
<1>1. Init => Locked /\ KeyHeld
      BY DEF Init, Locked, OneInFlight, InFlight, KeyHeld, HoldsKey, Running
<1>2. Base /\ Locked /\ KeyHeld /\ [Next]_vars => Locked' /\ KeyHeld'
      BY LockedNext, KeyHeldNext DEF Base
<1> QED BY <1>1, <1>2, BaseInvariance, PTL DEF Spec

\* The lock and the keys together are inductive if keys are safe.
LEMMA KeyInvariance == KeysSafe => (Spec => []KeyInv)
<1> SUFFICES ASSUME KeysSafe PROVE Spec => []KeyInv
    OBVIOUS
<1>1. Init => KeyKept
      BY DEF Init, KeyKept, HoldsKey, Running
<1>2. Base /\ Locked /\ KeyHeld /\ KeyKept /\ [Next]_vars => KeyKept'
      BY KeyKeptNext DEF Base
<1>3. "slow" \notin Faults
      BY DEF KeysSafe
<1> QED BY <1>1, <1>2, <1>3, KeyHeldInvariance, BaseInvariance, PTL DEF Spec, KeyInv

\* A saved booking keeps its key, so no second one is saved.
LEMMA KeyInvUnique == KeyInv => SavedOncePerKey
BY RequestsAssumption
   DEF KeyInv, Base, TypeOK, Replies, Arrived, Locked, KeyHeld, KeyKept, HoldsKey,
       OneInFlight, InFlight, Running, SavedOncePerKey

\* One booking row per key, with failed saves, lost answers and timeouts.
THEOREM OneRowPerKey == KeysSafe => (Spec => []SavedOncePerKey)
BY KeyInvariance, KeyInvUnique, PTL

\* If no handler outlives its lock, a stored result goes by its TTL or by the catch
\* clause of a request that could not read it, under every other fault.
THEOREM StoredIsFinal == "slow" \notin Faults => (Spec => StoredResultStays)
<1> SUFFICES ASSUME "slow" \notin Faults PROVE Spec => StoredResultStays
    OBVIOUS
<1> DEFINE Leaves(s) ==
      /\ idem'[s] = "free"
      /\ \/ KeyExpires(s)
         \/ \E r \in Requests :
              pc[r] = "unread" /\ pc'[r] # "unread" /\ slot[r] = s
<1>1. Base /\ KeyHeld /\ [Next]_vars =>
        [\A s \in Slots : idem[s] \in Requests /\ idem'[s] # idem[s] =>
           Leaves(s)]_vars
  <2> SUFFICES ASSUME Base, KeyHeld, [Next]_vars, NEW s \in Slots,
                      idem[s] \in Requests, idem'[s] # idem[s]
               PROVE  Leaves(s)
      OBVIOUS
  <2> USE RequestsAssumption
      DEF Base, TypeOK, Arrived, KeyHeld, HoldsKey, redisVars, leftovers, faulted,
          Goto, Answers, FreeKey
  <2>1. ASSUME NEW r \in Requests, Handler(r) PROVE Leaves(s)
    <3>1. CASE Fail(r)
          BY <3>1 DEF Fail
    <3>2. CASE TryKey(r) \/ KeyUnreadable(r)
          BY <3>2 DEF TryKey, KeyUnreadable, KeyFree
    <3>3. CASE Store(r) \/ StoreFails(r)
          BY <3>3 DEF Store, StoreFails, Stored
    <3>4. CASE UNCHANGED idem
          BY <3>4
    <3> QED BY <2>1, <3>1, <3>2, <3>3, <3>4
            DEF Handler, Peek, ReadSelection, CheckRates, Confirm, ConfirmRefused,
                ConfirmAnswerLost, Save, SaveFails, Publish, FailDeleteFails,
                Release, ReleaseFails
  <2>2. ASSUME NEW t \in Slots, KeyExpires(t) PROVE Leaves(s)
    <3>1. t = s
          BY <2>2 DEF KeyExpires
    <3> QED BY <2>2, <3>1 DEF KeyExpires
  <2>3. CASE UNCHANGED idem
        BY <2>3
  <2> QED BY <2>1, <2>2, <2>3
          DEF Next, SelectRooms, SelectionExpires, Arrive, ArriveFails, TimeOut,
              LockExpires, Crash, vars
<1> QED BY <1>1, KeyHeldInvariance, BaseInvariance, PTL DEF Spec, StoredResultStays

-----------------------------------------------------------------------------
(* BookingCommand implements OncePerKey.                                   *)

\* No key has a row at first.
LEMMA PromiseInit == Init => Promise!Init
BY RequestsAssumption DEF Init, RowOf, Promise!Init

\* The row of a key is the saved request with that key.
LEMMA RowIsSaved ==
  ASSUME Base, SavedOncePerKey
  PROVE  /\ \A q \in saved : RowOf(slot[q]) = q
         /\ \A s \in Slots : (\A q \in saved : slot[q] # s) => RowOf(s) = None
BY DEF RowOf, SavedOncePerKey

\* A step that saves nothing and keeps the saved requests' keys keeps the rows.
LEMMA RowsKept ==
  ASSUME saved' = saved, \A q \in saved : slot'[q] = slot[q]
  PROVE  [s \in Slots |-> RowOf(s)]' = [s \in Slots |-> RowOf(s)]
<1>1. \A s \in Slots : {q \in saved : slot'[q] = s} = {q \in saved : slot[q] = s}
      OBVIOUS
<1> QED BY <1>1 DEF RowOf

\* A step that gives no booking its row and no client its booking stutters.
LEMMA PromiseStutters ==
  ASSUME saved' = saved, \A q \in saved : slot'[q] = slot[q],
         replayOf' = replayOf,
         \A r \in Requests : (answer'[r] = "created") <=> (answer[r] = "created")
  PROVE  UNCHANGED Promise!vars
<1>1. [r \in Requests |-> IF answer[r] = "created" THEN r ELSE replayOf[r]]'
      = [r \in Requests |-> IF answer[r] = "created" THEN r ELSE replayOf[r]]
      OBVIOUS
<1> QED BY <1>1, RowsKept DEF Promise!vars

\* A step that shows one client a booking changes the map of Promise there.
LEMMA ShownToOne ==
  ASSUME NEW r \in Requests, NEW b,
         \A q \in Requests :
           (IF answer'[q] = "created" THEN q ELSE replayOf'[q])
           = IF q = r THEN b
             ELSE IF answer[q] = "created" THEN q ELSE replayOf[q]
  PROVE  [q \in Requests |-> IF answer[q] = "created" THEN q ELSE replayOf[q]]'
         = [[q \in Requests |-> IF answer[q] = "created" THEN q ELSE replayOf[q]]
              EXCEPT ![r] = b]
OBVIOUS

\* Each step makes the row of a free key, shows a client the row of its key,
\* or changes neither.
LEMMA PromiseNext ==
  KeysSafe /\ KeyInv /\ [Next]_vars => [Promise!Next]_(Promise!vars)
<1> SUFFICES ASSUME KeysSafe, KeyInv, [Next]_vars
             PROVE  Promise!Next \/ UNCHANGED Promise!vars
    OBVIOUS
<1> USE RequestsAssumption
    DEF KeyInv, Base, TypeOK, Arrived, Replies, KeyHeld, KeyKept, HoldsKey,
        redisVars, outcome, client,
          leftovers, faulted, Unlock, FreeKey, Goto, Answers, KeysSafe
<1>a. SavedOncePerKey
      BY KeyInvUnique
<1>1. ASSUME NEW r \in Requests, NEW s \in Slots,
             Arrive(r, s) \/ ArriveFails(r, s)
      PROVE  Promise!Next \/ UNCHANGED Promise!vars
      BY <1>1, PromiseStutters DEF Arrive, ArriveFails, Busy
<1>2. ASSUME NEW r \in Requests, Peek(r)
      PROVE  Promise!Next \/ UNCHANGED Promise!vars
  <2>1. CASE replayOf' = replayOf
        BY <1>2, <2>1, PromiseStutters DEF Peek
  <2>2. CASE replayOf' # replayOf
    <3>1. /\ idem[slot[r]] \in saved /\ slot[idem[slot[r]]] = slot[r]
          /\ replayOf' = [replayOf EXCEPT ![r] = idem[slot[r]]]
          /\ slot' = slot /\ saved' = saved
          /\ slot[r] \in Slots /\ replayOf[r] = None
          /\ answer[r] # "created"
          /\ \A q \in Requests :
               (answer'[q] = "created") <=> (answer[q] = "created")
          BY <1>2, <2>2 DEF Peek, Processing
    <3>2. RowOf(slot[r]) = idem[slot[r]]
          BY <3>1, <1>a, RowIsSaved
    <3>3. [s \in Slots |-> RowOf(s)]' = [s \in Slots |-> RowOf(s)]
          BY <3>1, RowsKept
    <3>4. [q \in Requests |-> IF answer[q] = "created" THEN q ELSE replayOf[q]]'
          = [[q \in Requests |-> IF answer[q] = "created" THEN q ELSE replayOf[q]]
               EXCEPT ![r] = RowOf(slot[r])]
      <4>1. \A q \in Requests :
              (IF answer'[q] = "created" THEN q ELSE replayOf'[q])
              = IF q = r THEN RowOf(slot[r])
                ELSE IF answer[q] = "created" THEN q ELSE replayOf[q]
            BY <3>1, <3>2
      <4> QED BY <4>1, ShownToOne
    <3>5. Promise!Show(slot[r], r)
          BY <3>1, <3>2, <3>3, <3>4 DEF Promise!Show
    <3> QED BY <3>1, <3>5 DEF Promise!Next
  <2> QED BY <2>1, <2>2
<1>3. ASSUME NEW r \in Requests, Save(r)
      PROVE  Promise!Next
  <2>1. /\ slot[r] \in Slots /\ saved' = saved \cup {r} /\ slot' = slot
        /\ replayOf' = replayOf /\ answer' = answer
        /\ \A q \in saved : slot[q] # slot[r]
        BY <1>3 DEF Save
  <2>2. RowOf(slot[r]) = None
        BY <2>1, <1>a, RowIsSaved
  <2>3. RowOf(slot[r])' = r
        BY <2>1 DEF RowOf
  <2>4. \A s \in Slots : s # slot[r] => RowOf(s)' = RowOf(s)
    <3> SUFFICES ASSUME NEW s \in Slots, s # slot[r] PROVE RowOf(s)' = RowOf(s)
        OBVIOUS
    <3>1. CASE \E q \in saved : slot[q] = s
      <4>1. PICK q \in saved : slot[q] = s
            BY <3>1
      <4>2. q \in saved' /\ \A p \in saved' : slot'[p] = s <=> p = q
            BY <2>1, <4>1, <1>a DEF SavedOncePerKey
      <4>3. RowOf(s)' = q
            BY <4>2 DEF RowOf
      <4> QED BY <4>1, <4>3, <1>a, RowIsSaved
    <3>2. CASE \A q \in saved : slot[q] # s
          BY <2>1, <3>2 DEF RowOf
    <3> QED BY <3>1, <3>2
  <2>5. [s \in Slots |-> RowOf(s)]' = [[s \in Slots |-> RowOf(s)] EXCEPT ![slot[r]] = r]
        BY <2>1, <2>3, <2>4
  <2>6. Promise!Make(slot[r], r)
        BY <2>1, <2>2, <2>5 DEF Promise!Make
  <2> QED BY <2>1, <2>6 DEF Promise!Next
<1>4. ASSUME NEW r \in Requests, Publish(r)
      PROVE  Promise!Next \/ UNCHANGED Promise!vars
  <2>1. CASE answer[r] = "timeout"
        BY <1>4, <2>1, PromiseStutters DEF Publish
  <2>2. CASE answer[r] = "none"
    <3>1. /\ r \in saved /\ slot[r] \in Slots /\ replayOf[r] = None
          /\ answer' = [answer EXCEPT ![r] = "created"]
          /\ replayOf' = replayOf /\ slot' = slot /\ saved' = saved
          BY <1>4, <2>2 DEF Publish
    <3>2. RowOf(slot[r]) = r
          BY <3>1, <1>a, RowIsSaved
    <3>3. [s \in Slots |-> RowOf(s)]' = [s \in Slots |-> RowOf(s)]
          BY <3>1, RowsKept
    <3>4. [q \in Requests |-> IF answer[q] = "created" THEN q ELSE replayOf[q]]'
          = [[q \in Requests |-> IF answer[q] = "created" THEN q ELSE replayOf[q]]
               EXCEPT ![r] = RowOf(slot[r])]
      <4>1. \A q \in Requests :
              (IF answer'[q] = "created" THEN q ELSE replayOf'[q])
              = IF q = r THEN RowOf(slot[r])
                ELSE IF answer[q] = "created" THEN q ELSE replayOf[q]
            BY <3>1, <3>2
      <4> QED BY <4>1, ShownToOne
    <3>5. Promise!Show(slot[r], r)
          BY <2>2, <3>1, <3>2, <3>3, <3>4 DEF Promise!Show
    <3> QED BY <3>1, <3>5 DEF Promise!Next
  <2> QED BY <1>4, <2>1, <2>2 DEF Publish
<1>5. ASSUME NEW r \in Requests,
             \/ TryKey(r) \/ KeyUnreadable(r) \/ ReadSelection(r) \/ CheckRates(r)
             \/ Confirm(r) \/ ConfirmRefused(r) \/ ConfirmAnswerLost(r)
             \/ SaveFails(r) \/ Store(r) \/ StoreFails(r) \/ Fail(r)
             \/ FailDeleteFails(r) \/ Release(r) \/ TimeOut(r)
      PROVE  UNCHANGED Promise!vars
      BY <1>5, PromiseStutters
         DEF TryKey, KeyUnreadable, ReadSelection, CheckRates, Confirm,
             ConfirmRefused, ConfirmAnswerLost, SaveFails, Store, StoreFails,
             Fail, FailDeleteFails, Release, TimeOut
<1>6. ASSUME NEW u \in Users, NEW h \in Hotels,
             SelectRooms(u, h) \/ SelectionExpires(u, h)
      PROVE  UNCHANGED Promise!vars
      BY <1>6, PromiseStutters DEF SelectRooms, SelectionExpires
<1>7. ASSUME NEW u \in Users, LockExpires(u)
      PROVE  UNCHANGED Promise!vars
      BY <1>7, PromiseStutters DEF LockExpires
<1>8. CASE UNCHANGED vars
      BY <1>8, PromiseStutters DEF vars
<1> QED BY <1>1, <1>2, <1>3, <1>4, <1>5, <1>6, <1>7, <1>8
        DEF Next, Handler, ArriveFails, ReleaseFails, KeyExpires, Crash

\* Whatever is retried, a key gets one booking and every client is shown it.
THEOREM Refinement == KeysSafe => (Spec => BookedOncePerKey)
<1> SUFFICES ASSUME KeysSafe PROVE Spec => BookedOncePerKey
    OBVIOUS
<1>1. KeyInv /\ [Next]_vars => [Promise!Next]_(Promise!vars)
      BY PromiseNext
<1>2. Spec => Promise!Spec
      BY <1>1, PromiseInit, KeyInvariance, PTL DEF Spec, Promise!Spec
<1> QED BY <1>2 DEF BookedOncePerKey
=============================================================================
