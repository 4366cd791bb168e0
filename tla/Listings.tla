------------------------------ MODULE Listings ------------------------------
(***************************************************************************)
(* What a client is shown of a list: the admins' bookings, payments and    *)
(* users, the rooms, reviews and facts of a hotel, a customer's bookings   *)
(* and payments, the destinations, the availability.                       *)
(* Some pages go through Redis, under keys that leave out a part of the    *)
(* request or name another one.  Every behaviour is about one list: no two *)
(* lists share a key.  Rows are numbers in the order of createdAt and id.  *)
(***************************************************************************)
EXTENDS Naturals, FiniteSets

CONSTANTS
  Clients,     \* each follows one list from its start to its end
  Rows,        \* what a list can hold
  Scopes,      \* hotels, rooms, customers or stays, by list
  ScopeOf,     \* the scope of each row
  Narrow,      \* rows a date or search filter selects at first
  CreatedAt,   \* the stamp of each row; some rows may share one
  PageSize,    \* the limit of a page
  MaxChanges,  \* bound on rows that come or go
  None

ASSUME RowsAssumption == Rows \subseteq Nat \ {0} /\ IsFiniteSet(Rows)
ASSUME ScopeAssumption == ScopeOf \in [Rows -> Scopes]
ASSUME StampAssumption ==
  /\ CreatedAt \in [Rows -> Nat]
  /\ \A r, s \in Rows : r < s => CreatedAt[r] <= CreatedAt[s]
ASSUME FilterAssumption == Narrow \subseteq Rows
ASSUME PageAssumption == PageSize \in Nat \ {0} /\ MaxChanges \in Nat
ASSUME NoneAssumption == None \notin Scopes

VARIABLES
  list,        \* the list this behaviour is about
  narrow,      \* the rows its filter selects now
  rows, changes,      \* its rows now, how often they changed
  cache,       \* Redis: the page under each key, a set of one, or none
  step, ask,   \* of each client: where its request is, what it asks for
  at,          \* its cursor, or how many pages of an offset list it has seen
  held,        \* the page its request has read
  start,       \* the rows there were when it began
  shown        \* the rows it was shown

vars == <<list, narrow, rows, changes, cache, step, ask, at, held, start, shown>>

Wholes == {"hotel", "hotelFacilities", "roomFacilities", "destinations",
           "availability"}
Offsets == {"users", "reviews", "myBookings", "myPayments"}
Lists == {"bookings", "payments", "rooms"} \cup Wholes \cup Offsets
Cached == {"bookings", "payments", "rooms"} \cup Wholes

\* Lists of a hotel, room, stay or customer; lists with a filter, which for the
\* availability of a stay is the ages of the children.
Scoped == {"rooms", "reviews", "myBookings", "myPayments"}
            \cup (Wholes \ {"destinations"})
Dated == {"bookings", "payments"}
Filtered == Dated \cup {"rooms", "users", "availability"}

\* A request names what its list takes; only the rooms' has a limit to leave out.
Asks ==
  {a \in [of : Scopes \cup {None}, narrow : BOOLEAN, limited : BOOLEAN] :
     /\ (a.of = None) = (list \notin Scoped)
     /\ a.narrow => list \in Filtered
     /\ a.limited \/ list = "rooms"}
NoAsk == [of |-> None, narrow |-> FALSE, limited |-> TRUE]
Owns(a, r) ==
  /\ list \in Scoped => ScopeOf[r] = a.of
  /\ a.narrow => r \in narrow
Matching(c) == {r \in rows : Owns(ask[c], r)}

Keys == [of : Scopes \cup {None}, narrow : BOOLEAN, limited : BOOLEAN,
         at : Rows \cup {0}]   \* 0: no cursor

TypeOK ==
  /\ list \in Lists /\ narrow \subseteq Rows /\ rows \subseteq Rows /\ changes \in Nat
  /\ cache \in [Keys -> SUBSET SUBSET Rows]
  /\ step \in [Clients -> {"idle", "asking", "querying", "storing", "ended"}]
  /\ ask \in [Clients -> Asks \cup {NoAsk}] /\ at \in [Clients -> Nat]
  /\ list \notin Offsets => at \in [Clients -> Rows \cup {0}]
  /\ held \in [Clients -> SUBSET Rows] /\ start \in [Clients -> SUBSET Rows]
  /\ shown \in [Clients -> SUBSET Rows]

Init ==
  /\ list \in Lists /\ narrow = Narrow /\ rows \in SUBSET Rows /\ changes = 0
  /\ cache = [k \in Keys |-> {}]
  /\ step = [c \in Clients |-> "idle"] /\ ask = [c \in Clients |-> NoAsk]
  /\ at = [c \in Clients |-> 0] /\ held = [c \in Clients |-> {}]
  /\ start = [c \in Clients |-> {}] /\ shown = [c \in Clients |-> {}]
-----------------------------------------------------------------------------
(* The keys (redisKeys).                                                   *)

\* Mutant: the page's dates are not in the key.
DatelessKey(a, p) == [of |-> None, narrow |-> FALSE, limited |-> TRUE, at |-> p]
DateKey(a, p) == [of |-> None, narrow |-> a.narrow, limited |-> TRUE, at |-> p]
\* Mutant: every page of a hotel's rooms under one key.
OneRoomsKey(a, p) == [of |-> a.of, narrow |-> FALSE, limited |-> FALSE, at |-> 0]
\* The filters of the rooms are not in their key.
RoomsKey(a, p) == [of |-> a.of, narrow |-> FALSE, limited |-> a.limited, at |-> p]
\* Nor are the children's ages in the availability's.
WholeKey(a) == [of |-> a.of, narrow |-> FALSE, limited |-> TRUE, at |-> 0]

ReadKey(c) ==
  CASE list \in Wholes -> WholeKey(ask[c])
    [] list = "rooms" -> RoomsKey(ask[c], at[c])
    [] OTHER -> DateKey(ask[c], at[c])
\* A dashboard's page is stored under the cursor it hands out, so the request
\* for the next page is answered with this one until the key expires.  A page
\* of rooms, whatever was asked, goes under the key of a request without
\* cursor and limit.
StoreKey(c, last) ==
  CASE list \in Wholes -> WholeKey(ask[c])
    [] list = "rooms" -> [RoomsKey(ask[c], 0) EXCEPT !.limited = FALSE]
    [] OTHER -> DateKey(ask[c], last)
-----------------------------------------------------------------------------
Change == changes < MaxChanges /\ changes' = changes + 1

\* A row becomes visible: a review (addReview), or what the other modules' actions
\* store.  Its createdAt need not be the newest.
Insert(r) ==
  /\ Change /\ r \notin rows /\ rows' = rows \cup {r}
  /\ UNCHANGED <<list, narrow, cache, step, ask, at, held, start, shown>>

\* A hotel has rooms for a stay no more.
SellOut(r) ==
  /\ Change /\ list = "availability" /\ r \in rows /\ rows' = rows \ {r}
  /\ UNCHANGED <<list, narrow, cache, step, ask, at, held, start, shown>>

\* Another name, email or city: a search finds the user, or does so no more.
UpdateProfile(r) ==
  /\ Change /\ list = "users" /\ r \in rows
  /\ narrow' = IF r \in narrow THEN narrow \ {r} ELSE narrow \cup {r}
  /\ UNCHANGED <<list, rows, cache, step, ask, at, held, start, shown>>

\* The last row of a page: rooms come oldest first, the rest newest first.
IsLast(page, r) ==
  r \in page /\ \A s \in page : IF list = "rooms" THEN s <= r ELSE r <= s

\* An empty page ends a walk; what is not paged takes one answer.
Answered(c, page) ==
  /\ shown' = [shown EXCEPT ![c] = @ \cup page]
  /\ \/ /\ page = {} \/ list \in Wholes
        /\ step' = [step EXCEPT ![c] = "ended"] /\ UNCHANGED at
     \/ /\ page # {} /\ list \in Offsets
        /\ step' = [step EXCEPT ![c] = "asking"] /\ at' = [at EXCEPT ![c] = @ + 1]
     \/ /\ list \notin Wholes \cup Offsets
        /\ step' = [step EXCEPT ![c] = "asking"]
        /\ \E r \in page : IsLast(page, r) /\ at' = [at EXCEPT ![c] = r]

Begin(c) ==
  /\ step[c] = "idle" /\ step' = [step EXCEPT ![c] = "asking"]
  /\ \E a \in Asks : ask' = [ask EXCEPT ![c] = a]
  /\ start' = [start EXCEPT ![c] = rows]
  /\ UNCHANGED <<list, narrow, rows, changes, cache, at, held, shown>>

\* A request looks in the cache first.
Ask(c) ==
  /\ step[c] = "asking"
  /\ \/ /\ list \in Cached
        /\ \E page \in cache[ReadKey(c)] : Answered(c, page)
     \/ /\ list \in Cached => cache[ReadKey(c)] = {}
        /\ step' = [step EXCEPT ![c] = "querying"] /\ UNCHANGED <<at, shown>>
  /\ UNCHANGED <<list, narrow, rows, changes, cache, ask, held, start>>

\* The query's answer, which some lists store before they give it.
Found(c, page, stored) ==
  /\ step[c] = "querying"
  /\ \/ /\ stored /\ held' = [held EXCEPT ![c] = page]
        /\ step' = [step EXCEPT ![c] = "storing"] /\ UNCHANGED <<at, shown>>
     \/ ~stored /\ Answered(c, page) /\ UNCHANGED held
  /\ UNCHANGED <<list, narrow, rows, changes, cache, ask, start>>

Store(c) ==
  /\ step[c] = "storing"
  /\ \E r \in Rows \cup {0} :
       /\ IsLast(held[c], r) \/ (list \in Wholes /\ r = 0)
       /\ cache' = [cache EXCEPT ![StoreKey(c, r)] = {held[c]}]
  /\ Answered(c, held[c]) /\ held' = [held EXCEPT ![c] = {}]
  /\ UNCHANGED <<list, narrow, rows, changes, ask, start>>

\* Mutant: pages are stored without a TTL.
NeverExpires(k) == FALSE /\ UNCHANGED vars
PageExpires(k) ==
  /\ cache[k] # {} /\ cache' = [cache EXCEPT ![k] = {}]
  /\ UNCHANGED <<list, narrow, rows, changes, step, ask, at, held, start, shown>>
-----------------------------------------------------------------------------
(* The queries.                                                            *)

\* Newest first, after the cursor's row (skip 1).
Older(c) == {r \in Matching(c) : at[c] = 0 \/ r < at[c]}
\* The first page of rows, newest first.
Newest(all) == {r \in all : Cardinality({s \in all : s > r}) < PageSize}

\* Newest first by createdAt alone: rows that share it come in any order, in every
\* query anew.  What may be the first k rows, and the n-th page after them.
FirstOf(all, k) ==
  {part \in SUBSET all :
     /\ Cardinality(part) = IF Cardinality(all) < k THEN Cardinality(all) ELSE k
     /\ \A r \in part, s \in all \ part : CreatedAt[s] <= CreatedAt[r]}
OffsetPages(all, n) ==
  {page \in SUBSET all :
     \E skipped \in FirstOf(all, n * PageSize) :
       /\ skipped \cap page = {}
       /\ skipped \cup page \in FirstOf(all, (n + 1) * PageSize)}

\* A limit in the dashboards' URL is a string where @IsInt wants a number, so it
\* is refused, and bookings are taken without one.
FindBookings(c) ==
  list = "bookings" /\ Found(c, Older(c), Older(c) # {})

\* An empty page is an error: its last row has no id.
FindPayments(c) ==
  /\ list = "payments"
  /\ LET page == Newest(Older(c)) IN Found(c, page, page # {})

\* Oldest first.
AfterTuple(c) == {r \in Matching(c) : r > at[c]}
Oldest(all) == {r \in all : Cardinality({s \in all : s < r}) < PageSize}
FindRooms(c) ==
  /\ list = "rooms"
  /\ LET page == Oldest(AfterTuple(c)) IN Found(c, page, page # {})

FindHotel(c) ==
  list = "hotel" /\ Found(c, Matching(c), Matching(c) # {})
FindHotelFacilities(c) ==
  list = "hotelFacilities" /\ Found(c, Matching(c), Matching(c) # {})
FindRoomFacilities(c) ==
  list = "roomFacilities" /\ Found(c, Matching(c), Matching(c) # {})

\* Stored for a week even when the table is empty.
FindDestinations(c) ==
  list = "destinations" /\ Found(c, Matching(c), TRUE)

\* The provider's answer is stored, one without hotels too.
CheckAvailability(c) ==
  list = "availability" /\ Found(c, Matching(c), TRUE)
\* A stay that has begun is refused, but only when nothing is cached for it; an
\* error of the provider ends the request as well.
StayRefused(c) ==
  /\ list = "availability" /\ step[c] = "querying"
  /\ step' = [step EXCEPT ![c] = "ended"]
  /\ UNCHANGED <<list, narrow, rows, changes, cache, ask, at, held, start, shown>>

FindUsers(c) ==
  /\ list = "users"
  /\ \E page \in OffsetPages(Matching(c), at[c]) : Found(c, page, FALSE)
FindReviews(c) ==
  /\ list = "reviews"
  /\ \E page \in OffsetPages(Matching(c), at[c]) : Found(c, page, FALSE)
FindMyBookings(c) ==
  /\ list = "myBookings"
  /\ \E page \in OffsetPages(Matching(c), at[c]) : Found(c, page, FALSE)

\* Without an order: any page of that size.
FindMyPayments(c) ==
  /\ list = "myPayments"
  /\ LET skipped == at[c] * PageSize
         total == Cardinality(Matching(c))
     IN \E page \in SUBSET Matching(c) :
          /\ Cardinality(page) = IF total <= skipped THEN 0
                                 ELSE IF total - skipped < PageSize
                                      THEN total - skipped ELSE PageSize
          /\ Found(c, page, FALSE)

Find(c) ==
  \/ FindBookings(c) \/ FindPayments(c) \/ FindRooms(c)
  \/ FindHotel(c) \/ FindHotelFacilities(c) \/ FindRoomFacilities(c)
  \/ FindDestinations(c) \/ CheckAvailability(c) \/ StayRefused(c)
  \/ FindUsers(c) \/ FindReviews(c) \/ FindMyBookings(c) \/ FindMyPayments(c)
-----------------------------------------------------------------------------
Goes(c) == Ask(c) \/ Find(c) \/ Store(c)

Next ==
  \/ \E r \in Rows : Insert(r) \/ SellOut(r) \/ UpdateProfile(r)
  \/ \E c \in Clients : Begin(c) \/ Goes(c)
  \/ \E k \in Keys : PageExpires(k)

Spec == Init /\ [][Next]_vars

\* Requests are answered and clients go on; Redis drops a key after its TTL.
FairSpec ==
  /\ Spec
  /\ \A c \in Clients : WF_vars(Goes(c))
  /\ WF_vars(\E k \in Keys : PageExpires(k))
-----------------------------------------------------------------------------
\* Nobody is shown rows of another hotel, room, stay or customer, nor rows outside
\* the dates of a dashboard's request, however pages are cached and by whom.  Two
\* filters are lost on the way and nothing is claimed of them: those of a hotel's
\* rooms, whose page answers a request without cursor and limit, and the ages of
\* the children, which the key of an availability leaves out.
OwnRows ==
  \A c \in Clients, r \in Rows : r \in shown[c] =>
    /\ list \in Scoped => ScopeOf[r] = ask[c].of
    /\ ask[c].narrow /\ list \in Dated => r \in narrow

\* The rows a walk owes its client: those there were when it began, but in a list
\* ordered by createdAt alone only the rows that share theirs with no other.
Alone(c, r) == \A s \in Matching(c) \ {r} : CreatedAt[s] # CreatedAt[r]
Due(c) ==
  {r \in start[c] : Owns(ask[c], r) /\ (list \in Offsets => Alone(c, r))}

\* A walk that reaches its end has shown every row it owes, whatever came meanwhile
\* and whatever others cached: pages are shown again, none is passed over.  Not so
\* for rooms asked for without a limit, for payments of one customer, which come in
\* no order, for a search among users, whose profiles change under it, and for what
\* is cached whole.
Complete(a) ==
  /\ list \notin Wholes \cup {"myPayments"}
  /\ list = "rooms" => a.limited
  /\ list = "users" => ~a.narrow
WalkComplete ==
  \A c \in Clients : step[c] = "ended" /\ Complete(ask[c]) => Due(c) \subseteq shown[c]

\* Every walk ends: a dashboard's page comes again under its own cursor, but only
\* until the key expires.
WalksEnd ==
  \A c \in Clients : step[c] = "asking" ~> step[c] = "ended"
=============================================================================
