---------------------------- MODULE Announcements ----------------------------
(***************************************************************************)
(* Who is told of a new booking: ConfirmBookingHandler with the admins'    *)
(* sockets (Gateway), the stored notifications (NotificationService) and   *)
(* the job for the booking's email.  What Gateway does on a message        *)
(* 'bookingConfirmed' is not here: only the webhook queue's worker leads   *)
(* to one, and no module registers that worker.  So nobody reads the sets  *)
(* user_sockets, and they are left out.                                    *)
(***************************************************************************)
EXTENDS Naturals

CONSTANTS
  Bookings,    \* bookings whose event is published, each by its own customer
  Admins,
  Sockets,     \* socket.io clients of admins
  Owner,       \* the admin of each socket
  Devices,     \* clients that read notifications
  MaxFaults,   \* bound on errors and crashes
  Customer

ASSUME OwnerAssumption == Owner \in [Sockets -> Admins]
ASSUME CustomerAssumption == Customer \notin Admins
ASSUME FaultAssumption == MaxFaults \in Nat

VARIABLES
  pc,          \* of each booking's event handler
  members,     \* the admins it read
  expiry,      \* bookings whose expiry job is queued
  notes, isRead,      \* notifications (MongoDB), as pairs of reader and booking
  admins,      \* Redis: ids of admins
  line,        \* of each socket
  room,        \* sockets in the room 'admins', in memory
  gone,        \* sockets that went before they were registered
  heard,       \* pairs of a socket and a booking emitted to it
  present,     \* sockets that were open when a handler read the admins
  mailed,      \* bookings whose email job is queued
  page,        \* what each device has fetched and not yet marked
  fetched,     \* all that was ever fetched
  faults

handler == <<pc, members, expiry, notes, heard, present, mailed>>
gateway == <<admins, line, room, gone>>
reader == <<isRead, page, fetched>>
vars == <<handler, gateway, reader, faults>>

Recipients == Admins \cup {Customer}
Notes == Recipients \X Bookings
Running == {"looking", "reading", "telling", "queueing", "noting", "mailing"}

TypeOK ==
  /\ pc \in [Bookings -> Running \cup {"none", "done", "failed"}]
  /\ members \in [Bookings -> SUBSET Admins] /\ expiry \subseteq Bookings
  /\ notes \subseteq Notes /\ isRead \subseteq Notes
  /\ admins \subseteq Admins /\ room \subseteq Sockets
  /\ gone \subseteq Sockets
  /\ line \in [Sockets -> {"off", "verifying", "joining", "registering", "open",
                           "leaving", "closed"}]
  /\ heard \subseteq Sockets \X Bookings
  /\ present \in [Bookings -> SUBSET Sockets]
  /\ mailed \subseteq Bookings
  /\ page \in [Devices -> SUBSET Notes] /\ fetched \subseteq Notes
  /\ faults \in Nat

Init ==
  /\ pc = [b \in Bookings |-> "none"] /\ members = [b \in Bookings |-> {}]
  /\ expiry = {} /\ notes = {} /\ isRead = {} /\ admins = {}
  /\ line = [s \in Sockets |-> "off"] /\ room = {} /\ gone = {} /\ heard = {}
  /\ present = [b \in Bookings |-> {}]
  /\ mailed = {}
  /\ page = [d \in Devices |-> {}] /\ fetched = {}
  /\ faults = 0

Handle(b, a, z) == pc[b] = a /\ pc' = [pc EXCEPT ![b] = z]
Line(s, a, z) == line[s] = a /\ line' = [line EXCEPT ![s] = z]
Fault == faults < MaxFaults /\ faults' = faults + 1
-----------------------------------------------------------------------------
(* ConfirmBookingHandler.handle                                            *)

\* The hotel's name is looked up and kept in Redis.
Look(b) ==
  /\ Handle(b, "none", "looking") \/ Handle(b, "looking", "reading")
  /\ UNCHANGED <<members, expiry, notes, heard, present, mailed, gateway, reader,
                 faults>>

ReadAdmins(b) ==
  /\ Handle(b, "reading", "telling")
  /\ members' = [members EXCEPT ![b] = admins]
  /\ present' = [present EXCEPT ![b] = {s \in Sockets : line[s] = "open"}]
  /\ UNCHANGED <<expiry, notes, heard, mailed, gateway, reader, faults>>

\* The message goes out when every admin's notification is stored.
TellAdmins(b) ==
  /\ Handle(b, "telling", "queueing")
  /\ notes' = notes \cup (members[b] \X {b})
  /\ heard' = heard \cup (room \X {b})
  /\ UNCHANGED <<members, expiry, present, mailed, gateway, reader, faults>>

\* Promise.all: some of them may have been stored when one fails.
TellAdminsFails(b) ==
  /\ Handle(b, "telling", "failed") /\ Fault
  /\ \E some \in SUBSET members[b] : notes' = notes \cup (some \X {b})
  /\ UNCHANGED <<members, expiry, heard, present, mailed, gateway, reader>>

\* Mutant: an error of the queue is logged and the handler goes on.
QueueOrLog(b) ==
  /\ Handle(b, "queueing", "noting")
  /\ expiry' \in {expiry, expiry \cup {b}}
  /\ UNCHANGED <<members, notes, heard, present, mailed, gateway, reader, faults>>

\* The expiry job (ScheduleExpiry of BookingLifecycle).
QueueExpiry(b) ==
  /\ Handle(b, "queueing", "noting")
  /\ expiry' = expiry \cup {b}
  /\ UNCHANGED <<members, notes, heard, present, mailed, gateway, reader, faults>>

NoteCustomer(b) ==
  /\ Handle(b, "noting", "mailing")
  /\ notes' = notes \cup {<<Customer, b>>}
  /\ UNCHANGED <<members, expiry, heard, present, mailed, gateway, reader, faults>>

QueueMail(b) ==
  /\ Handle(b, "mailing", "done")
  /\ mailed' = mailed \cup {b}
  /\ UNCHANGED <<members, expiry, notes, heard, present, gateway, reader,
                 faults>>

\* Nobody catches what a handler of the event bus throws.
HandlerFails(b) ==
  /\ pc[b] \in Running \ {"telling"} /\ Handle(b, pc[b], "failed") /\ Fault
  /\ UNCHANGED <<members, expiry, notes, heard, present, mailed, gateway, reader>>
-----------------------------------------------------------------------------
(* Gateway.handleConnection and handleDisconnect                           *)

Connect(s) ==
  /\ Line(s, "off", "verifying")
  /\ UNCHANGED <<handler, admins, room, gone, reader, faults>>

\* The admin joins the room once his row is read.
Join(s) ==
  /\ Line(s, "verifying", "joining")
  /\ room' = IF s \in gone THEN room ELSE room \cup {s}
  /\ UNCHANGED <<handler, admins, gone, reader, faults>>

AddAdmin(s) ==
  /\ Line(s, "joining", "registering")
  /\ admins' = admins \cup {Owner[s]}
  /\ UNCHANGED <<handler, room, gone, reader, faults>>

Register(s) ==
  /\ Line(s, "registering", IF s \in gone THEN "closed" ELSE "open")
  /\ UNCHANGED <<handler, admins, room, gone, reader, faults>>

\* A socket may go while handleConnection awaits, which is not stopped by it;
\* handleDisconnect finds nothing to remove.
Drop(s) ==
  /\ line[s] \in {"verifying", "joining", "registering"} /\ s \notin gone
  /\ gone' = gone \cup {s} /\ room' = room \ {s}
  /\ UNCHANGED <<handler, admins, line, reader, faults>>

Disconnect(s) ==
  /\ Line(s, "open", "leaving")
  /\ room' = room \ {s}
  /\ UNCHANGED <<handler, admins, gone, reader, faults>>

\* Mutant: the admin leaves with one of his sockets.
AdminLeaves(s) == admins \ {Owner[s]}
AdminStays(s) == admins

Unregister(s) ==
  /\ Line(s, "leaving", "closed")
  /\ admins' = AdminStays(s)
  /\ UNCHANGED <<handler, room, gone, reader, faults>>
-----------------------------------------------------------------------------
(* NotificationService.getNotifications                                    *)

\* A page of what the reader has been sent.
FetchNotes(d, who) ==
  /\ page[d] = {}
  /\ \E found \in SUBSET {n \in notes : n[1] = who} :
       /\ page' = [page EXCEPT ![d] = found]
       /\ fetched' = fetched \cup found
  /\ UNCHANGED <<handler, gateway, isRead, faults>>

\* Mutant: every notification of the reader is marked.
AllOf(found) == {n \in notes : \E m \in found : n[1] = m[1]}
JustThese(found) == found

MarkRead(d) ==
  /\ page[d] # {}
  /\ isRead' = isRead \cup JustThese(page[d])
  /\ page' = [page EXCEPT ![d] = {}]
  /\ UNCHANGED <<handler, gateway, fetched, faults>>
-----------------------------------------------------------------------------
Crash ==
  /\ Fault
  /\ pc' = [b \in Bookings |-> IF pc[b] \in Running THEN "failed" ELSE pc[b]]
  /\ line' = [s \in Sockets |-> IF line[s] = "off" THEN "off" ELSE "closed"]
  /\ room' = {} /\ page' = [d \in Devices |-> {}]
  /\ UNCHANGED <<members, expiry, notes, heard, present, admins, gone,
                 mailed, isRead, fetched>>

Next ==
  \/ \E b \in Bookings :
       \/ Look(b) \/ ReadAdmins(b) \/ TellAdmins(b) \/ TellAdminsFails(b)
       \/ QueueExpiry(b) \/ NoteCustomer(b) \/ QueueMail(b) \/ HandlerFails(b)
  \/ \E s \in Sockets :
       \/ Connect(s) \/ Join(s) \/ AddAdmin(s) \/ Register(s) \/ Drop(s)
       \/ Disconnect(s) \/ Unregister(s)
  \/ \E d \in Devices : MarkRead(d)
  \/ \E d \in Devices, who \in Recipients : FetchNotes(d, who)
  \/ Crash

Spec == Init /\ [][Next]_vars

-----------------------------------------------------------------------------
\* A customer is only told of a booking, by notification or email, that the
\* expiry job will settle (the order of ConfirmBookingHandler.handle).
ToldIsWatched ==
  \A b \in Bookings :
    <<Customer, b>> \in notes \/ b \in mailed => b \in expiry

\* An admin with an open socket when a booking is handled has it stored as a
\* notification and hears of it on every socket that stays open, whatever other
\* sockets of his come and go (admins stay in Redis, sockets join on connect).
OpenAdminsTold ==
  \A b \in Bookings :
    pc[b] \in {"queueing", "noting", "mailing", "done"} =>
      \A s \in present[b] :
        /\ <<Owner[s], b>> \in notes
        /\ line[s] = "open" => <<s, b>> \in heard

\* What is marked as read was on a page somebody fetched: a notification that
\* is stored between the two calls of getNotifications stays unread.
ReadWasFetched == isRead \subseteq fetched
=============================================================================
