------------------------------- MODULE Catalog -------------------------------
(***************************************************************************)
(* The hotel content: seeded from the provider when a process starts       *)
(* (onModuleInit of the destination, facility and hotel services, in that  *)
(* order), updated by HotelTask every day, and listed page by page through *)
(* a cache (HotelServices.getAllHotels, HotelRepository.getHotels).        *)
(* A row's createdAt is taken before the row is visible, and all rows of a *)
(* createMany share one: stamps come in any order, with ties.              *)
(***************************************************************************)
EXTENDS Integers, FiniteSets

CONSTANTS
  Nodes,       \* server processes
  Walkers,     \* clients that follow nextCursor from the first page
  Hotels,      \* hotel codes, numbers from 1 on
  Wanted,      \* the hotels a filter selects
  Roomy, Furnished,   \* hotels the provider lists rooms, facilities for
  Destinations,
  DestinationOf,      \* the destination each hotel refers to
  Stamps,      \* values of createdAt, numbers from 1 on
  Batch,       \* hotels in a full answer of the provider (1000)
  Limit,       \* hotels on a full page of the listing
  MaxFaults,   \* bound on provider errors, database errors and crashes
  None

ASSUME NumberAssumption ==
  /\ Hotels \subseteq Nat \ {0} /\ IsFiniteSet(Hotels)
  /\ Wanted \subseteq Hotels /\ Roomy \subseteq Hotels /\ Furnished \subseteq Hotels
  /\ Stamps \subseteq Nat \ {0}
  /\ Batch \in Nat \ {0} /\ Limit \in Nat \ {0} /\ MaxFaults \in Nat
ASSUME DestinationAssumption == DestinationOf \in [Hotels -> Destinations]
ASSUME NoneAssumption == None \notin [rows : SUBSET Hotels, of : SUBSET Hotels]

VARIABLES
  listed,      \* hotels the provider offers
  places,      \* the destination table
  facilities,  \* whether the facility table is filled
  created,     \* createdAt of each stored hotel, 0 for the others
  rooms, equipped,    \* hotels with rooms, with hotel facilities
  pc,          \* what each process is doing
  from,        \* the page of the provider it asks for
  got, todo,   \* hotels it fetched, hotels it has still to upsert
  offered,     \* hotels the provider offered when its fetch began
  known,       \* whether it read the facility table filled
  cache,       \* Redis: a page for each filter and cursor
  step, filter, cursor,  \* of each walker
  held,        \* page a walker's request has computed
  shown,       \* how often each walker was shown each hotel
  steady,      \* hotels stored when each page of its walk was computed
  faults

content == <<listed, places, facilities, created, rooms, equipped>>
process == <<pc, from, got, todo, offered, known, faults>>
walk == <<cache, step, filter, cursor, held, shown, steady>>
vars == <<content, process, walk>>

Pages == [rows : SUBSET Hotels, of : SUBSET Hotels]
PageKeys == BOOLEAN \X (Hotels \cup {0})   \* the cursor 0 is 'start'

TypeOK ==
  /\ listed \subseteq Hotels /\ places \subseteq Destinations /\ facilities \in BOOLEAN
  /\ created \in [Hotels -> Stamps \cup {0}]
  /\ rooms \subseteq Hotels /\ equipped \subseteq Hotels
  /\ pc \in [Nodes -> {"down", "places", "addingPlaces", "facilities",
       "addingFacilities", "counting", "fetching", "validating", "seeding",
       "serving", "refetching", "upserting", "equipping"}]
  /\ from \in [Nodes -> Nat]
  /\ got \in [Nodes -> SUBSET Hotels] /\ todo \in [Nodes -> SUBSET Hotels]
  /\ offered \in [Nodes -> SUBSET Hotels]
  /\ known \in [Nodes -> BOOLEAN] /\ faults \in Nat
  /\ cache \in [PageKeys -> Pages \cup {None}]
  /\ step \in [Walkers -> {"asking", "querying", "storing", "ended"}]
  /\ filter \in [Walkers -> BOOLEAN] /\ cursor \in [Walkers -> Hotels \cup {0}]
  /\ held \in [Walkers -> Pages \cup {None}]
  /\ shown \in [Walkers -> [Hotels -> Nat]]
  /\ steady \in [Walkers -> SUBSET Hotels]

Init ==
  /\ listed \in SUBSET Hotels /\ places = {} /\ facilities = FALSE
  /\ created = [h \in Hotels |-> 0] /\ rooms = {} /\ equipped = {}
  /\ pc = [n \in Nodes |-> "down"] /\ from = [n \in Nodes |-> 1]
  /\ got = [n \in Nodes |-> {}] /\ todo = [n \in Nodes |-> {}]
  /\ offered = [n \in Nodes |-> {}]
  /\ known = [n \in Nodes |-> FALSE] /\ faults = 0
  /\ cache = [k \in PageKeys |-> None]
  /\ step = [w \in Walkers |-> "asking"] /\ filter \in [Walkers -> BOOLEAN]
  /\ cursor = [w \in Walkers |-> 0] /\ held = [w \in Walkers |-> None]
  /\ shown = [w \in Walkers |-> [h \in Hotels |-> 0]]
  /\ steady = [w \in Walkers |-> Hotels]

Stored == {h \in Hotels : created[h] # 0}
PlacesOf(hotels) == {DestinationOf[h] : h \in hotels}
Serving(n) == pc[n] \in {"serving", "refetching", "upserting", "equipping"}
At(n, a, b) == pc[n] = a /\ pc' = [pc EXCEPT ![n] = b]
\* The local variables of a seed or an update end with it.
Forget(n) ==
  /\ from' = [from EXCEPT ![n] = 1] /\ got' = [got EXCEPT ![n] = {}]
  /\ todo' = [todo EXCEPT ![n] = {}] /\ offered' = [offered EXCEPT ![n] = {}]
  /\ known' = [known EXCEPT ![n] = FALSE]
Fault == faults < MaxFaults /\ faults' = faults + 1
-----------------------------------------------------------------------------
(* The provider offers another hotel. *)
ProviderAdds(h) ==
  /\ h \notin listed /\ listed' = listed \cup {h}
  /\ UNCHANGED <<places, facilities, created, rooms, equipped, process, walk>>

Boot(n) ==
  /\ At(n, "down", "places")
  /\ UNCHANGED <<content, from, got, todo, offered, known, faults, walk>>

\* getDestinations, for an empty table.  An error is only logged, and an answer
\* without destinations is passed over: the start goes on.
FetchPlaces(n) ==
  /\ \/ /\ places = {} /\ At(n, "places", "addingPlaces") /\ UNCHANGED faults
        /\ offered' = [offered EXCEPT ![n] = listed]
     \/ /\ places # {} /\ At(n, "places", "facilities") /\ UNCHANGED <<faults, offered>>
     \/ At(n, "places", "facilities") /\ Fault /\ UNCHANGED offered
  /\ UNCHANGED <<content, from, got, todo, known, walk>>

\* What getDestinations answers: the destinations of the hotels offered then, and
\* maybe more.
PlacesFor(hotels) == {answer \in SUBSET Destinations : PlacesOf(hotels) \subseteq answer}

\* addDestination: refused when another process has added one of them.
AddPlaces(n) ==
  /\ At(n, "addingPlaces", "facilities")
  /\ \/ \E answer \in PlacesFor(offered[n]) :
          /\ places' = IF answer \cap places = {} THEN places \cup answer ELSE places
          /\ UNCHANGED faults
     \/ UNCHANGED places /\ Fault
  /\ offered' = [offered EXCEPT ![n] = {}]
  /\ UNCHANGED <<listed, facilities, created, rooms, equipped, from, got, todo,
                 known, walk>>

\* getFacilities: an error ends the process, an empty answer does not.
FetchFacilities(n) ==
  /\ \/ At(n, "facilities", IF facilities THEN "counting" ELSE "addingFacilities")
        /\ UNCHANGED faults
     \/ (At(n, "facilities", "down") \/ At(n, "facilities", "counting")) /\ Fault
  /\ UNCHANGED <<content, from, got, todo, offered, known, walk>>

AddFacilities(n) ==
  /\ \/ At(n, "addingFacilities", "counting") /\ facilities' = TRUE /\ UNCHANGED faults
     \/ At(n, "addingFacilities", "down") /\ Fault /\ UNCHANGED facilities
  /\ UNCHANGED <<listed, places, created, rooms, equipped, from, got, todo, offered,
                 known, walk>>

\* A catalog with hotels and rooms is not seeded again.
CountHotels(n) ==
  /\ \/ Stored # {} /\ rooms # {} /\ At(n, "counting", "serving")
        /\ UNCHANGED offered
     \/ (Stored = {} \/ rooms = {}) /\ At(n, "counting", "fetching")
        /\ offered' = [offered EXCEPT ![n] = listed]
  /\ UNCHANGED <<content, from, got, todo, known, faults, walk>>

\* Mutant: the next page begins one hotel too late.
GappedAnswer(k) ==
  {h \in listed : LET place == Cardinality({g \in listed : g < h}) IN
                    /\ (Batch + 1) * (k - 1) <= place
                    /\ place < (Batch + 1) * (k - 1) + Batch}
\* HotelbedsProvider.getData: pages of the provider's list, in its order.
Answer(k) ==
  {h \in listed : LET place == Cardinality({g \in listed : g < h}) IN
                    Batch * (k - 1) <= place /\ place < Batch * k}

\* Mutant: the first answer is taken for the whole list.
OneAnswer(answer) == FALSE
MoreToCome(answer) == Cardinality(answer) >= Batch

\* extractRoomData, extractHotelFacilities: a hotel may come without either.
RoomsIn(hotels) == hotels \cap Roomy
FacilitiesIn(hotels) == hotels \cap Furnished

\* onModuleInit: without hotels or without rooms nothing is seeded.
StartSeed(n, all) ==
  /\ At(n, "fetching", IF RoomsIn(all) = {} THEN "serving" ELSE "validating")
  /\ got' = [got EXCEPT ![n] = IF RoomsIn(all) = {} THEN {} ELSE all]
  /\ offered' = [offered EXCEPT ![n] = IF RoomsIn(all) = {} THEN {} ELSE @]
  /\ UNCHANGED todo

\* updateHotelsData: every hotel is to be upserted.
StartUpserts(n, all) ==
  /\ At(n, "refetching", "upserting")
  /\ got' = [got EXCEPT ![n] = all] /\ todo' = [todo EXCEPT ![n] = all]
  /\ UNCHANGED offered

Fetch(n) ==
  /\ pc[n] \in {"fetching", "refetching"}
  /\ LET answer == Answer(from[n])
         all == got[n] \cup answer IN
     \/ /\ MoreToCome(answer)
        /\ from' = [from EXCEPT ![n] = @ + 1]
        /\ got' = [got EXCEPT ![n] = all] /\ UNCHANGED <<pc, todo, offered>>
     \/ /\ ~MoreToCome(answer)
        /\ from' = [from EXCEPT ![n] = 1]
        /\ StartSeed(n, all) \/ StartUpserts(n, all)
  /\ UNCHANGED <<content, known, faults, walk>>

FetchFails(n) ==
  /\ Fault
  /\ At(n, "fetching", "down") \/ At(n, "refetching", "serving")
  /\ Forget(n)
  /\ UNCHANGED <<content, walk>>

ReadFacilities(n) ==
  /\ At(n, "validating", "seeding")
  /\ known' = [known EXCEPT ![n] = facilities]
  /\ UNCHANGED <<content, from, got, todo, offered, faults, walk>>

\* hotel.destinationCode is a foreign key: one hotel whose destination is not
\* stored has the whole transaction refused.
Placed(hotels) == PlacesOf(hotels) \subseteq places

Seed(n, t) ==
  /\ Placed(got[n]) /\ At(n, "seeding", "serving") /\ Forget(n)
  /\ created' = [h \in Hotels |-> IF h \in got[n] /\ created[h] = 0 THEN t ELSE created[h]]
  /\ rooms' = rooms \cup RoomsIn(got[n])
  /\ equipped' = IF known[n] THEN equipped \cup FacilitiesIn(got[n]) ELSE equipped
  /\ UNCHANGED <<listed, places, facilities, faults, walk>>

SeedFails(n) ==
  /\ At(n, "seeding", "down")
  /\ \/ ~Placed(got[n]) /\ UNCHANGED faults
     \/ Fault
  /\ Forget(n)
  /\ UNCHANGED <<content, walk>>
-----------------------------------------------------------------------------
(* HotelTask.updateHotels and HotelServices.updateHotelsData.              *)

StartUpdate(n) ==
  /\ At(n, "serving", "refetching")
  /\ offered' = [offered EXCEPT ![n] = listed]
  /\ UNCHANGED <<content, from, got, todo, known, faults, walk>>

\* The upserts of a batch run at once and one that fails is only counted.
UpsertHotel(n, h, t) ==
  /\ pc[n] = "upserting" /\ h \in todo[n]
  /\ todo' = [todo EXCEPT ![n] = @ \ {h}]
  /\ \/ /\ Placed({h}) /\ UNCHANGED faults
        /\ created' = [created EXCEPT ![h] = IF @ = 0 THEN t ELSE @]
     \/ UNCHANGED <<created, faults>> /\ ~Placed({h})
     \/ UNCHANGED created /\ Fault
  /\ UNCHANGED <<listed, places, facilities, rooms, equipped, pc, from, got, offered,
                 known, walk>>

\* The upserts of rooms and of room facilities name unique keys the schema does
\* not have (hotelId_code, roomCode_facilityCode): every one is rejected.
UpsertRooms(n) ==
  /\ todo[n] = {} /\ At(n, "upserting", "equipping")
  /\ UNCHANGED <<content, from, got, todo, offered, known, faults, walk>>

\* So is one whose hotel or facility is not stored.
UpsertHotelFacilities(n) ==
  /\ At(n, "equipping", "serving") /\ Forget(n)
  /\ \E stored \in SUBSET FacilitiesIn(got[n] \cap Stored) :
       /\ ~facilities => stored = {}
       /\ \/ facilities /\ stored # FacilitiesIn(got[n] \cap Stored) /\ Fault
          \/ ~facilities /\ UNCHANGED faults
          \/ stored = FacilitiesIn(got[n] \cap Stored) /\ UNCHANGED faults
       /\ equipped' = equipped \cup stored
  /\ UNCHANGED <<listed, places, facilities, created, rooms, walk>>

\* updateDestinations empties the table first: refused once a hotel refers to it.
Replaceable == Stored = {}

\* DestinationTasks, every month; an empty answer is passed over.
UpdatePlaces(n) ==
  /\ Serving(n) /\ Replaceable
  /\ places' \in PlacesFor(listed) \ {{}}
  /\ UNCHANGED <<listed, facilities, created, rooms, equipped, process, walk>>

Crash(n) ==
  /\ Fault /\ pc[n] # "down" /\ pc' = [pc EXCEPT ![n] = "down"]
  /\ Forget(n)
  /\ UNCHANGED <<content, walk>>
-----------------------------------------------------------------------------
(* HotelServices.getAllHotels, newest first.                               *)

Passes(f, h) == f => h \in Wanted
Older(h, g) ==
  created[h] < created[g] \/ (created[h] = created[g] /\ h < g)

\* Mutant: the page starts with the cursor's own row.
FromCursor(f, c) ==
  {h \in Stored : \/ c = 0 /\ Passes(f, h)
                  \/ c # 0 /\ created[h] = created[c] /\ h <= c
                  \/ c # 0 /\ created[h] < created[c] /\ Passes(f, h)}
\* Mutant: rows with the cursor's stamp are taken for shown ones.
BelowCursor(f, c) ==
  {h \in Stored : \/ c = 0 /\ Passes(f, h)
                  \/ c # 0 /\ created[h] < created[c] /\ Passes(f, h)}
\* The filters are joined to the second half of the cursor's condition only.
AfterCursor(f, c) ==
  {h \in Stored : \/ c = 0 /\ Passes(f, h)
                  \/ c # 0 /\ created[h] = created[c] /\ h < c
                  \/ c # 0 /\ created[h] < created[c] /\ Passes(f, h)}

PageAfter(f, c) ==
  LET rest == AfterCursor(f, c) IN
  {h \in rest : Cardinality({g \in rest : Older(h, g)}) < Limit}

\* The next cursor is the last row's.
Show(w, page) ==
  /\ \E last \in page.rows :
       /\ \A h \in page.rows \ {last} : Older(last, h)
       /\ cursor' = [cursor EXCEPT ![w] = last]
  /\ shown' = [shown EXCEPT ![w] =
                 [h \in Hotels |-> IF h \in page.rows THEN @[h] + 1 ELSE @[h]]]
  /\ steady' = [steady EXCEPT ![w] = @ \cap page.of]
  /\ step' = [step EXCEPT ![w] = "asking"]

AskPage(w) ==
  /\ step[w] = "asking" /\ \E n \in Nodes : Serving(n)
  /\ LET page == cache[<<filter[w], cursor[w]>>] IN
     \/ page # None /\ Show(w, page)
     \/ /\ page = None /\ step' = [step EXCEPT ![w] = "querying"]
        /\ UNCHANGED <<cursor, shown, steady>>
  /\ UNCHANGED <<content, process, cache, filter, held>>

\* An empty page is an error ('no hotels found') and is not stored.
QueryPage(w) ==
  /\ step[w] = "querying"
  /\ LET rows == PageAfter(filter[w], cursor[w]) IN
     \/ /\ rows # {} /\ held' = [held EXCEPT ![w] = [rows |-> rows, of |-> Stored]]
        /\ step' = [step EXCEPT ![w] = "storing"] /\ UNCHANGED steady
     \/ /\ rows = {} /\ steady' = [steady EXCEPT ![w] = @ \cap Stored]
        /\ step' = [step EXCEPT ![w] = "ended"] /\ UNCHANGED held
  /\ UNCHANGED <<content, process, cache, filter, cursor, shown>>

StorePage(w) ==
  /\ step[w] = "storing"
  /\ cache' = [cache EXCEPT ![<<filter[w], cursor[w]>>] = held[w]]
  /\ Show(w, held[w]) /\ held' = [held EXCEPT ![w] = None]
  /\ UNCHANGED <<content, process, filter>>

\* The client begins again from the first page, under the same keys.
WalkAgain(w) ==
  /\ step[w] \in {"asking", "ended"} /\ cursor[w] # 0
  /\ step' = [step EXCEPT ![w] = "asking"] /\ cursor' = [cursor EXCEPT ![w] = 0]
  /\ shown' = [shown EXCEPT ![w] = [h \in Hotels |-> 0]]
  /\ steady' = [steady EXCEPT ![w] = Hotels]
  /\ UNCHANGED <<content, process, cache, filter, held>>

PageExpires(k) ==
  /\ cache[k] # None /\ cache' = [cache EXCEPT ![k] = None]
  /\ UNCHANGED <<content, process, step, filter, cursor, held, shown, steady>>
-----------------------------------------------------------------------------
Works(n) ==
  \/ Boot(n) \/ FetchPlaces(n) \/ AddPlaces(n) \/ FetchFacilities(n)
  \/ AddFacilities(n) \/ CountHotels(n) \/ Fetch(n) \/ ReadFacilities(n)
  \/ (\E t \in Stamps : Seed(n, t)) \/ SeedFails(n)
  \/ StartUpdate(n) \/ (\E h \in Hotels, t \in Stamps : UpsertHotel(n, h, t))
  \/ UpsertRooms(n) \/ UpsertHotelFacilities(n)

Next ==
  \/ \E h \in Hotels : ProviderAdds(h)
  \/ \E n \in Nodes : Works(n) \/ FetchFails(n) \/ UpdatePlaces(n) \/ Crash(n)
  \/ \E w \in Walkers : AskPage(w) \/ QueryPage(w) \/ StorePage(w) \/ WalkAgain(w)
  \/ \E k \in PageKeys : PageExpires(k)

Spec == Init /\ [][Next]_vars

\* Processes are restarted and the scheduler runs the update every day.
FairSpec == Spec /\ \A n \in Nodes : WF_vars(Works(n)) /\ WF_vars(UpdatePlaces(n))

-----------------------------------------------------------------------------
\* A client that follows the cursors is shown no hotel twice, with rows that
\* share their createdAt (createMany) and pages computed at different times.
ShownOnce == \A w \in Walkers, h \in Hotels : shown[w][h] <= 1

\* It is shown every hotel of its filter that was stored when each of the pages
\* was computed: caching and ties may hide only what came meanwhile.
SteadyShown ==
  \A w \in Walkers : step[w] = "ended" =>
    \A h \in steady[w] : Passes(filter[w], h) => shown[w][h] > 0

\* What is seeded or upserted holds every hotel the provider offered when the
\* fetch began, at whichever page the list ends and whatever joins it while its
\* pages are asked for: an answer that is not full was behind all of it.
FetchComplete ==
  \A n \in Nodes :
    pc[n] \in {"validating", "seeding", "upserting", "equipping"} => offered[n] \subseteq got[n]

\* A process that starts without rooms must seed, and cannot while the provider
\* offers a hotel of a destination that the table, once filled, does not have.
SeedRefused ==
  /\ \A n \in Nodes : ~Serving(n)
  /\ rooms = {} /\ RoomsIn(listed) # {} /\ places # {} /\ ~Placed(listed)
\* No update stores a hotel of a destination the table, once filled, lacks.
LeftOut(h) == places # {} /\ ~Placed({h})

\* Every hotel of the provider gets into the database, whatever fails on the
\* way, unless a missing destination keeps it out: an error while seeding ends
\* the process, its restart begins again, what an update misses the next one
\* stores, and an empty table of destinations is filled by a start or by the
\* monthly update.
HotelsArrive ==
  \A h \in Hotels : (h \in listed) ~> (h \in Stored \/ SeedRefused \/ LeftOut(h))
=============================================================================
