------------------------ MODULE Announcements_proofs ------------------------
(***************************************************************************)
(* Proofs about Announcements, for any number of bookings, admins, sockets *)
(* and faults.                                                             *)
(***************************************************************************)
EXTENDS Announcements, TLAPS

\* A booking has its expiry job once its handler is past that call.
PastQueue ==
  \A b \in Bookings : pc[b] \in {"noting", "mailing", "done"} => b \in expiry

\* A connected socket is in the room and its admin in Redis, from the calls of
\* handleConnection that put them there.
Lines ==
  \A s \in Sockets :
    /\ line[s] \in {"joining", "registering"} /\ s \notin gone => s \in room
    /\ line[s] \in {"registering", "open", "leaving"} => Owner[s] \in admins
    /\ line[s] = "open" => s \in room /\ s \notin gone

\* Sockets that were open when the admins were read have their admin among
\* them, and do not open again.
Presence ==
  \A b \in Bookings :
    /\ pc[b] \in {"none", "looking", "reading"} => present[b] = {}
    /\ \A s \in present[b] :
         Owner[s] \in members[b] /\ line[s] \in {"open", "leaving", "closed"}

\* What a device is about to mark was fetched.
PagesFetched == \A d \in Devices : page[d] \subseteq fetched

IInv == /\ TypeOK /\ ToldIsWatched /\ PastQueue /\ Lines /\ Presence
        /\ OpenAdminsTold /\ PagesFetched /\ ReadWasFetched

-----------------------------------------------------------------------------
\* The invariant holds initially.
LEMMA IInvInit == Init => IInv
BY FaultAssumption
   DEF Init, IInv, TypeOK, Running, ToldIsWatched, PastQueue, Lines, Presence,
       OpenAdminsTold, PagesFetched, ReadWasFetched

\* The handler of the event: its steps keep the types and the order of calls.
LEMMA HandlerStep ==
  ASSUME IInv, NEW b \in Bookings,
         \/ Look(b) \/ ReadAdmins(b) \/ TellAdmins(b) \/ TellAdminsFails(b)
         \/ QueueExpiry(b) \/ NoteCustomer(b) \/ QueueMail(b) \/ HandlerFails(b)
  PROVE  IInv'
<1> USE OwnerAssumption, CustomerAssumption, FaultAssumption
    DEF Handle, Fault, gateway, reader, Notes, Recipients, Running
<1>1. UNCHANGED <<gateway, reader>>
      BY DEF Look, ReadAdmins, TellAdmins, TellAdminsFails, QueueExpiry,
             NoteCustomer, QueueMail, HandlerFails
<1>2. Lines' /\ PagesFetched' /\ ReadWasFetched'
      BY <1>1 DEF IInv, Lines, PagesFetched, ReadWasFetched
<1>3. TypeOK'
  <2>1. CASE Look(b) \/ ReadAdmins(b)
        BY <2>1 DEF IInv, TypeOK, Look, ReadAdmins
  <2>2. CASE TellAdmins(b) \/ TellAdminsFails(b)
        BY <2>2 DEF IInv, TypeOK, TellAdmins, TellAdminsFails
  <2>3. CASE QueueExpiry(b) \/ NoteCustomer(b)
        BY <2>3 DEF IInv, TypeOK, QueueExpiry, NoteCustomer
  <2>4. CASE QueueMail(b) \/ HandlerFails(b)
        BY <2>4 DEF IInv, TypeOK, QueueMail, HandlerFails
  <2> QED BY <2>1, <2>2, <2>3, <2>4
<1>4. PastQueue' /\ ToldIsWatched'
  <2>1. CASE Look(b) \/ ReadAdmins(b) \/ QueueExpiry(b) \/ HandlerFails(b)
        BY <2>1 DEF IInv, TypeOK, PastQueue, ToldIsWatched, Look, ReadAdmins,
                    QueueExpiry, HandlerFails
  <2>2. CASE TellAdmins(b) \/ TellAdminsFails(b)
    <3>1. \A n \in notes' \ notes : n[1] # Customer
          BY <2>2 DEF IInv, TypeOK, TellAdmins, TellAdminsFails
    <3> QED BY <2>2, <3>1 DEF IInv, TypeOK, PastQueue, ToldIsWatched, TellAdmins,
                              TellAdminsFails
  <2>3. CASE NoteCustomer(b) \/ QueueMail(b)
        BY <2>3 DEF IInv, TypeOK, PastQueue, ToldIsWatched, NoteCustomer, QueueMail
  <2> QED BY <2>1, <2>2, <2>3
<1>5. Presence' /\ OpenAdminsTold'
  <2>1. CASE Look(b) \/ ReadAdmins(b)
        BY <2>1 DEF IInv, TypeOK, Lines, Presence, OpenAdminsTold, Look, ReadAdmins
  <2>2. CASE TellAdmins(b)
        BY <2>2 DEF IInv, TypeOK, Lines, Presence, OpenAdminsTold, TellAdmins
  <2>3. CASE TellAdminsFails(b) \/ HandlerFails(b)
        BY <2>3 DEF IInv, TypeOK, Presence, OpenAdminsTold, TellAdminsFails,
                    HandlerFails
  <2>4. CASE QueueExpiry(b) \/ NoteCustomer(b) \/ QueueMail(b)
        BY <2>4 DEF IInv, TypeOK, Presence, OpenAdminsTold, QueueExpiry,
                    NoteCustomer, QueueMail
  <2> QED BY <2>1, <2>2, <2>3, <2>4
<1> QED BY <1>2, <1>3, <1>4, <1>5 DEF IInv

\* The gateway: a socket that opens is in the room, one that closes stays so.
LEMMA GatewayStep ==
  ASSUME IInv, NEW s \in Sockets,
         \/ Connect(s) \/ Join(s) \/ AddAdmin(s) \/ Register(s) \/ Drop(s)
         \/ Disconnect(s) \/ Unregister(s)
  PROVE  IInv'
<1> USE OwnerAssumption DEF Line, handler, reader, AdminStays
<1>1. UNCHANGED <<handler, reader, faults>>
      BY DEF Connect, Join, AddAdmin, Register, Drop, Disconnect, Unregister
<1>2. ToldIsWatched' /\ PastQueue' /\ PagesFetched' /\ ReadWasFetched'
      BY <1>1 DEF IInv, ToldIsWatched, PastQueue, PagesFetched, ReadWasFetched
<1>3. TypeOK'
      BY <1>1 DEF IInv, TypeOK, Connect, Join, AddAdmin, Register, Drop,
                  Disconnect, Unregister
<1>4. Lines'
      BY DEF IInv, TypeOK, Lines, Connect, Join, AddAdmin, Register, Drop,
             Disconnect, Unregister
<1>5. Presence' /\ OpenAdminsTold'
      BY <1>1 DEF IInv, TypeOK, Presence, OpenAdminsTold, Connect, Join, AddAdmin,
                  Register, Drop, Disconnect, Unregister
<1> QED BY <1>2, <1>3, <1>4, <1>5 DEF IInv

\* Reading notifications touches nothing else.
LEMMA ReaderStep ==
  ASSUME IInv, NEW d \in Devices,
         MarkRead(d) \/ (\E who \in Recipients : FetchNotes(d, who))
  PROVE  IInv'
<1> USE DEF handler, gateway
<1>1. UNCHANGED <<handler, gateway, faults>>
      BY DEF MarkRead, FetchNotes
<1>2. /\ ToldIsWatched' /\ PastQueue' /\ Lines' /\ Presence'
      /\ OpenAdminsTold'
      BY <1>1 DEF IInv, ToldIsWatched, PastQueue, Lines, Presence, OpenAdminsTold
<1>3. TypeOK' /\ PagesFetched' /\ ReadWasFetched'
  <2>1. CASE MarkRead(d)
        BY <2>1 DEF IInv, TypeOK, PagesFetched, ReadWasFetched, MarkRead, JustThese
  <2>2. ASSUME NEW who \in Recipients, FetchNotes(d, who)
        PROVE  TypeOK' /\ PagesFetched' /\ ReadWasFetched'
        BY <2>2 DEF IInv, TypeOK, PagesFetched, ReadWasFetched, FetchNotes
  <2> QED BY <2>1, <2>2
<1> QED BY <1>2, <1>3 DEF IInv

\* A crash fails the handlers and closes the sockets.
LEMMA CrashStep == ASSUME IInv, Crash PROVE IInv'
<1> USE FaultAssumption DEF Crash, Fault, Running
<1>1. TypeOK'
      BY DEF IInv, TypeOK
<1>2. ToldIsWatched' /\ PastQueue'
      BY DEF IInv, TypeOK, ToldIsWatched, PastQueue
<1>3. Lines' /\ Presence'
      BY DEF IInv, TypeOK, Lines, Presence
<1>4. OpenAdminsTold'
      BY DEF IInv, TypeOK, OpenAdminsTold
<1>5. PagesFetched' /\ ReadWasFetched'
      BY DEF IInv, TypeOK, PagesFetched, ReadWasFetched
<1> QED BY <1>1, <1>2, <1>3, <1>4, <1>5 DEF IInv

\* The invariant holds throughout every behaviour.
THEOREM Invariance == Spec => []IInv
<1>1. IInv /\ UNCHANGED vars => IInv'
      BY DEF vars, handler, gateway, reader, IInv, TypeOK, ToldIsWatched,
             PastQueue, Lines, Presence, OpenAdminsTold, PagesFetched,
             ReadWasFetched
<1>2. IInv /\ [Next]_vars => IInv'
      BY <1>1, HandlerStep, GatewayStep, ReaderStep, CrashStep DEF Next
<1> QED BY <1>2, IInvInit, PTL DEF Spec

\* Customers are told of bookings the expiry job will settle, and of no others.
THEOREM ToldAreWatched == Spec => []ToldIsWatched
<1>1. IInv => ToldIsWatched
      BY DEF IInv
<1> QED BY <1>1, Invariance, PTL

\* An admin with an open socket has the notification and hears of the booking.
THEOREM AdminsAreTold == Spec => []OpenAdminsTold
<1>1. IInv => OpenAdminsTold
      BY DEF IInv
<1> QED BY <1>1, Invariance, PTL

\* Nothing is marked as read that was on nobody's page.
THEOREM ReadAfterFetch == Spec => []ReadWasFetched
<1>1. IInv => ReadWasFetched
      BY DEF IInv
<1> QED BY <1>1, Invariance, PTL
=============================================================================
