--------------------------- MODULE Catalog_proofs ---------------------------
(***************************************************************************)
(* Proofs about Catalog: what a client is shown of the list of hotels      *)
(* while rows with equal or late stamps come in and pages of different     *)
(* times are cached, for any hotels, stamps, limits, processes and faults. *)
(***************************************************************************)
EXTENDS Catalog, Paging

\* A page is of stored hotels behind its cursor, and of those that were stored
\* when it was computed it leaves out only what comes after its last row.
PageFits(f, c, page) ==
  /\ page.rows # {} /\ page.rows \subseteq page.of /\ page.of \subseteq Stored
  /\ c # 0 => c \in Stored /\ \A h \in page.rows : Older(h, c)
  /\ \A h \in page.of : Passes(f, h) /\ (c = 0 \/ Older(h, c)) =>
       h \in page.rows \/ \A g \in page.rows : Older(h, g)

CacheFits ==
  \A k \in PageKeys : cache[k] # None => PageFits(k[1], k[2], cache[k])
HeldFits ==
  \A w \in Walkers : step[w] = "storing" =>
    held[w] \in Pages /\ PageFits(filter[w], cursor[w], held[w])

\* A walk's cursor separates the hotels it has shown from those it has not.
CursorStored ==
  \A w \in Walkers : cursor[w] # 0 => cursor[w] \in Stored /\ steady[w] \subseteq Stored
ShownBefore ==
  \A w \in Walkers, h \in Hotels : shown[w][h] > 0 =>
    /\ shown[w][h] = 1 /\ h \in Stored
    /\ cursor[w] # 0 /\ ~Older(h, cursor[w])
SteadyBefore ==
  \A w \in Walkers : \A h \in steady[w] :
    Passes(filter[w], h) /\ (step[w] = "ended" \/ (cursor[w] # 0 /\ ~Older(h, cursor[w])))
      => shown[w][h] > 0

IInv ==
  /\ TypeOK /\ CacheFits /\ HeldFits /\ CursorStored /\ ShownBefore /\ SteadyBefore

\* The hotels stored keep their stamps.
StampsKept == \A h \in Stored : created'[h] = created[h]
\* The order of the list.
Newer == {p \in Hotels \X Hotels : Older(p[2], p[1])}
-----------------------------------------------------------------------------
\* The types, by what the actions change together.
Phases ==
  {"down", "places", "addingPlaces", "facilities", "addingFacilities", "counting",
   "fetching", "validating", "seeding", "serving", "refetching", "upserting",
   "equipping"}
ContentTyped ==
  /\ listed \subseteq Hotels /\ places \subseteq Destinations /\ facilities \in BOOLEAN
  /\ created \in [Hotels -> Stamps \cup {0}]
  /\ rooms \subseteq Hotels /\ equipped \subseteq Hotels
ProcessTyped ==
  /\ pc \in [Nodes -> Phases] /\ from \in [Nodes -> Nat]
  /\ got \in [Nodes -> SUBSET Hotels] /\ todo \in [Nodes -> SUBSET Hotels]
  /\ offered \in [Nodes -> SUBSET Hotels]
  /\ known \in [Nodes -> BOOLEAN] /\ faults \in Nat
WalkTyped ==
  /\ cache \in [PageKeys -> Pages \cup {None}]
  /\ step \in [Walkers -> {"asking", "querying", "storing", "ended"}]
  /\ filter \in [Walkers -> BOOLEAN] /\ cursor \in [Walkers -> Hotels \cup {0}]
  /\ held \in [Walkers -> Pages \cup {None}]
  /\ shown \in [Walkers -> [Hotels -> Nat]] /\ steady \in [Walkers -> SUBSET Hotels]

LEMMA Types == TypeOK <=> ContentTyped /\ ProcessTyped /\ WalkTyped
BY DEF TypeOK, ContentTyped, ProcessTyped, WalkTyped, Phases

LEMMA TypesNext == TypeOK' <=> ContentTyped' /\ ProcessTyped' /\ WalkTyped'
BY DEF TypeOK, ContentTyped, ProcessTyped, WalkTyped, Phases

LEMMA IInvInit == Init => IInv
<1> SUFFICES ASSUME Init PROVE IInv
    OBVIOUS
<1>1. ContentTyped
      BY DEF Init, ContentTyped
<1>2. ProcessTyped
      BY DEF Init, ProcessTyped, Phases
<1>3. WalkTyped
      BY DEF Init, WalkTyped, PageKeys
<1>4. CacheFits /\ HeldFits /\ CursorStored /\ ShownBefore /\ SteadyBefore
      BY DEF Init, CacheFits, HeldFits, CursorStored, ShownBefore, SteadyBefore,
             PageKeys
<1> QED BY <1>1, <1>2, <1>3, <1>4, Types DEF IInv

\* The steps of a process that leave the content alone.
LEMMA ProcessStep ==
  ASSUME ProcessTyped, NEW n \in Nodes,
         \/ Boot(n) \/ FetchPlaces(n) \/ FetchFacilities(n) \/ CountHotels(n)
         \/ Fetch(n) \/ ReadFacilities(n) \/ SeedFails(n) \/ StartUpdate(n)
         \/ UpsertRooms(n) \/ FetchFails(n) \/ Crash(n),
         ContentTyped
  PROVE  ProcessTyped' /\ UNCHANGED <<content, walk>>
<1> USE NumberAssumption DEF ProcessTyped, Phases, At, Forget, Fault
<1>1. CASE Boot(n) \/ CountHotels(n) \/ StartUpdate(n) \/ UpsertRooms(n)
      BY <1>1 DEF Boot, CountHotels, StartUpdate, UpsertRooms, ContentTyped
<1>2. CASE FetchPlaces(n)
  <2>1. UNCHANGED <<content, from, got, todo, known, walk>>
        BY <1>2 DEF FetchPlaces
  <2>2. \E b \in Phases : pc' = [pc EXCEPT ![n] = b]
        BY <1>2 DEF FetchPlaces
  <2>3. UNCHANGED offered \/ offered' = [offered EXCEPT ![n] = listed]
        BY <1>2 DEF FetchPlaces
  <2>4. faults' \in Nat
        BY <1>2 DEF FetchPlaces
  <2>5. offered' \in [Nodes -> SUBSET Hotels]
        BY <2>3 DEF ContentTyped
  <2> QED BY <2>1, <2>2, <2>4, <2>5
<1>3. CASE FetchFacilities(n)
      BY <1>3 DEF FetchFacilities
<1>4. CASE Fetch(n)
  <2> DEFINE all == got[n] \cup Answer(from[n])
  <2>1. all \in SUBSET Hotels
        BY DEF Answer, ContentTyped
  <2>2. /\ UNCHANGED <<content, known, faults, walk>>
        /\ \/ /\ from' = [from EXCEPT ![n] = @ + 1]
              /\ got' = [got EXCEPT ![n] = all] /\ UNCHANGED <<pc, todo, offered>>
           \/ from' = [from EXCEPT ![n] = 1] /\ StartSeed(n, all)
           \/ from' = [from EXCEPT ![n] = 1] /\ StartUpserts(n, all)
        BY <1>4 DEF Fetch
  <2> HIDE DEF all
  <2>3. CASE /\ from' = [from EXCEPT ![n] = @ + 1]
             /\ got' = [got EXCEPT ![n] = all] /\ UNCHANGED <<pc, todo, offered>>
        BY <2>1, <2>2, <2>3
  <2>4. CASE from' = [from EXCEPT ![n] = 1] /\ StartSeed(n, all)
        BY <2>1, <2>2, <2>4 DEF StartSeed
  <2>5. CASE from' = [from EXCEPT ![n] = 1] /\ StartUpserts(n, all)
        BY <2>1, <2>2, <2>5 DEF StartUpserts
  <2> QED BY <2>2, <2>3, <2>4, <2>5
<1>5. CASE ReadFacilities(n)
      BY <1>5 DEF ReadFacilities, ContentTyped, content
<1>6. CASE SeedFails(n)
      BY <1>6 DEF SeedFails
<1>7. CASE FetchFails(n)
      BY <1>7 DEF FetchFails
<1>8. CASE Crash(n)
      BY <1>8 DEF Crash
<1> QED BY <1>1, <1>2, <1>3, <1>4, <1>5, <1>6, <1>7, <1>8

\* What the provider, the processes and the schedulers do: a stored hotel is
\* never stamped again, and walks are left alone.
LEMMA ContentStep ==
  ASSUME TypeOK,
         \/ \E h \in Hotels : ProviderAdds(h)
         \/ \E n \in Nodes : Works(n) \/ FetchFails(n) \/ UpdatePlaces(n) \/ Crash(n)
  PROVE  TypeOK' /\ UNCHANGED walk /\ StampsKept
<1>1. ContentTyped /\ ProcessTyped /\ WalkTyped
      BY Types
<1>2. SUFFICES ContentTyped' /\ ProcessTyped' /\ UNCHANGED walk /\ StampsKept
  <2>1. ASSUME UNCHANGED walk PROVE WalkTyped'
        BY <1>1, <2>1 DEF WalkTyped, walk
  <2> QED BY <2>1, TypesNext
<1>3. ASSUME UNCHANGED content PROVE ContentTyped' /\ StampsKept
      BY <1>1, <1>3 DEF content, ContentTyped, StampsKept
<1>4. ASSUME UNCHANGED process PROVE ProcessTyped'
      BY <1>1, <1>4 DEF process, ProcessTyped
<1>5. ASSUME NEW h \in Hotels, ProviderAdds(h)
      PROVE  ContentTyped' /\ ProcessTyped' /\ UNCHANGED walk /\ StampsKept
      BY <1>1, <1>4, <1>5 DEF ProviderAdds, ContentTyped, StampsKept
<1>6. ASSUME NEW n \in Nodes, UpdatePlaces(n)
      PROVE  ContentTyped' /\ ProcessTyped' /\ UNCHANGED walk /\ StampsKept
      BY <1>1, <1>4, <1>6 DEF UpdatePlaces, PlacesFor, ContentTyped, StampsKept
<1>7. ASSUME NEW n \in Nodes, AddPlaces(n) \/ AddFacilities(n)
      PROVE  ContentTyped' /\ ProcessTyped' /\ UNCHANGED walk /\ StampsKept
  <2>1. ProcessTyped'
        BY <1>1, <1>7, NumberAssumption
        DEF AddPlaces, AddFacilities, ProcessTyped, Phases, At, Fault
  <2>2. ContentTyped' /\ UNCHANGED walk /\ StampsKept
        BY <1>1, <1>7 DEF AddPlaces, PlacesFor, AddFacilities, ContentTyped, StampsKept
  <2> QED BY <2>1, <2>2
<1>8. ASSUME NEW n \in Nodes, NEW t \in Stamps, Seed(n, t)
      PROVE  ContentTyped' /\ ProcessTyped' /\ UNCHANGED walk /\ StampsKept
  <2>1. ProcessTyped' /\ UNCHANGED walk
        BY <1>1, <1>8 DEF Seed, ProcessTyped, Phases, At, Forget
  <2>2. ContentTyped' /\ StampsKept
        BY <1>1, <1>8 DEF Seed, ContentTyped, StampsKept, Stored, RoomsIn,
                          FacilitiesIn, ProcessTyped
  <2> QED BY <2>1, <2>2
<1>9. ASSUME NEW n \in Nodes, NEW h \in Hotels, NEW t \in Stamps, UpsertHotel(n, h, t)
      PROVE  ContentTyped' /\ ProcessTyped' /\ UNCHANGED walk /\ StampsKept
  <2>1. ProcessTyped' /\ UNCHANGED walk
        BY <1>1, <1>9, NumberAssumption DEF UpsertHotel, ProcessTyped, Fault
  <2>2. ContentTyped' /\ StampsKept
        BY <1>1, <1>9 DEF UpsertHotel, ContentTyped, StampsKept, Stored
  <2> QED BY <2>1, <2>2
<1>10. ASSUME NEW n \in Nodes, UpsertHotelFacilities(n)
       PROVE  ContentTyped' /\ ProcessTyped' /\ UNCHANGED walk /\ StampsKept
  <2>1. ProcessTyped' /\ UNCHANGED walk
        BY <1>1, <1>10, NumberAssumption
        DEF UpsertHotelFacilities, ProcessTyped, Phases, At, Forget, Fault
  <2>2. ContentTyped' /\ StampsKept
        BY <1>1, <1>10 DEF UpsertHotelFacilities, ContentTyped, StampsKept,
                           FacilitiesIn, Stored
  <2> QED BY <2>1, <2>2
<1> QED BY <1>1, <1>3, <1>5, <1>6, <1>7, <1>8, <1>9, <1>10, ProcessStep DEF Works

\* Stored hotels stay, in their order.
LEMMA OrderKept ==
  ASSUME TypeOK, TypeOK', StampsKept
  PROVE  /\ Stored \subseteq Stored'
         /\ \A h, g \in Stored : Older(h, g)' <=> Older(h, g)
<1>1. \A h \in Stored : created'[h] = created[h] /\ h \in Hotels
      BY DEF StampsKept, Stored
<1> QED BY <1>1 DEF Stored, Older

\* So a page that fits its key still does when the content has changed.
LEMMA PageKept ==
  ASSUME TypeOK, TypeOK', StampsKept, NEW f, NEW c, NEW page, PageFits(f, c, page)
  PROVE  PageFits(f, c, page)'
BY OrderKept DEF PageFits, Passes

\* And so does everything that is claimed of walks.
LEMMA WalksKept ==
  ASSUME IInv, TypeOK', UNCHANGED walk, StampsKept
  PROVE  IInv'
<1> USE DEF walk
<1>1. CacheFits'
      BY PageKept DEF IInv, CacheFits
<1>2. HeldFits'
      BY PageKept DEF IInv, HeldFits
<1>3. CursorStored'
      BY OrderKept DEF IInv, CursorStored
<1>4. ShownBefore'
      BY OrderKept DEF IInv, ShownBefore, CursorStored
<1>5. SteadyBefore'
      BY OrderKept DEF IInv, SteadyBefore, CursorStored, Passes
<1> QED BY <1>1, <1>2, <1>3, <1>4, <1>5 DEF IInv
-----------------------------------------------------------------------------
\* The list's order, on any of its rows, which are finitely many.
LEMMA ListOrder ==
  ASSUME TypeOK, NEW S \in SUBSET Hotels
  PROVE  /\ IsFiniteSet(S) /\ StrictOrder(Newer, S)
         /\ \A h \in S : Rank(Newer, S, h) = Cardinality({g \in S : Older(h, g)})
<1>1. IsFiniteSet(S)
      BY NumberAssumption, FS_Subset
<1>2. \A h \in Hotels : created[h] \in Nat /\ h \in Nat
  <2>1. \A h \in Hotels : created[h] \in Stamps \cup {0}
        BY Types DEF ContentTyped
  <2>2. \A t \in Stamps \cup {0} : t \in Nat
        BY NumberAssumption
  <2>3. \A h \in Hotels : h \in Nat
        BY NumberAssumption
  <2> QED BY <2>1, <2>2, <2>3
<1>3. \A h, g \in Hotels : <<g, h>> \in Newer <=> Older(h, g)
      BY DEF Newer
<1>4. StrictOrder(Newer, S)
      BY <1>2, <1>3 DEF StrictOrder, Older
<1>5. ASSUME NEW h \in S PROVE Ahead(Newer, S, h) = {g \in S : Older(h, g)}
      BY <1>3 DEF Ahead
<1> QED BY <1>1, <1>4, <1>5 DEF Rank

\* A page computed for a cursor is empty only if nothing is left behind it.
LEMMA EmptyPage ==
  ASSUME TypeOK, NEW f, NEW c, PageAfter(f, c) = {}
  PROVE  AfterCursor(f, c) = {}
<1> DEFINE rest == AfterCursor(f, c)
<1>1. rest \in SUBSET Hotels
      BY DEF AfterCursor, Stored
<1> SUFFICES ASSUME rest # {} PROVE FALSE
    OBVIOUS
<1>2. /\ IsFiniteSet(rest) /\ StrictOrder(Newer, rest)
      /\ \A h \in rest : Rank(Newer, rest, h) = Cardinality({g \in rest : Older(h, g)})
      BY <1>1, ListOrder
<1>3. \A h \in rest : Rank(Newer, rest, h) \in Nat
      BY <1>2, RankType
<1>4. PICK h \in rest : Rank(Newer, rest, h) = 0
      BY <1>2, <1>3, NoGap
<1>5. Cardinality({g \in rest : Older(h, g)}) < Limit
      BY <1>2, <1>4, NumberAssumption
<1> QED BY <1>5 DEF PageAfter

\* A computed page fits its filter and cursor.
LEMMA ComputedFits ==
  ASSUME TypeOK, NEW f \in BOOLEAN, NEW c \in Hotels \cup {0},
         c # 0 => c \in Stored, PageAfter(f, c) # {}
  PROVE  PageFits(f, c, [rows |-> PageAfter(f, c), of |-> Stored])
<1> DEFINE rest == AfterCursor(f, c)
           rows == PageAfter(f, c)
<1>1. rest \in SUBSET Stored /\ rest \in SUBSET Hotels /\ rows \in SUBSET rest
      BY DEF AfterCursor, Stored, PageAfter
<1>2. \A h \in rest : c # 0 => Older(h, c)
      BY DEF AfterCursor, Older
<1>3. \A h \in Stored : Passes(f, h) /\ (c = 0 \/ Older(h, c)) => h \in rest
      BY DEF AfterCursor, Older
<1>4. ASSUME NEW h \in rest, h \notin rows, NEW g \in rows
      PROVE  Older(h, g)
  <2>1. /\ IsFiniteSet(rest) /\ StrictOrder(Newer, rest)
        /\ \A x \in rest : Rank(Newer, rest, x) = Cardinality({y \in rest : Older(x, y)})
        BY <1>1, ListOrder
  <2>2. ~(Rank(Newer, rest, h) < Limit) /\ Rank(Newer, rest, g) < Limit
    <3>1. ~(Cardinality({y \in rest : Older(h, y)}) < Limit)
          BY <1>4 DEF PageAfter
    <3>2. Cardinality({y \in rest : Older(g, y)}) < Limit
          BY <1>4 DEF PageAfter
    <3> QED BY <1>1, <1>4, <2>1, <3>1, <3>2
  <2>3. Rank(Newer, rest, h) \in Nat /\ Rank(Newer, rest, g) \in Nat /\ Limit \in Nat
        BY <2>1, RankType, NumberAssumption
  <2>4. <<h, g>> \notin Newer /\ h # g
        BY <1>1, <1>4, <2>1, <2>2, <2>3, RankFollowsOrder
  <2>5. <<g, h>> \in Newer
        BY <1>1, <1>4, <2>1, <2>4 DEF StrictOrder
  <2> QED BY <2>5 DEF Newer
<1> HIDE DEF rest, rows
<1>5. PageAfter(f, c) = rows
      BY DEF rows
<1> QED BY <1>1, <1>2, <1>3, <1>4, <1>5 DEF PageFits
-----------------------------------------------------------------------------
LEMMA OlderOrder ==
  ASSUME TypeOK
  PROVE  /\ \A h, g \in Hotels : Older(h, g) => ~Older(g, h)
         /\ \A h, g, k \in Hotels : Older(h, g) /\ Older(g, k) => Older(h, k)
<1>1. StrictOrder(Newer, Hotels)
      BY ListOrder
<1>2. \A h, g \in Hotels : Older(h, g) <=> <<g, h>> \in Newer
      BY DEF Newer
<1> QED BY <1>1, <1>2 DEF StrictOrder

\* Going on from a page that fits, the cursor keeps its meaning.
LEMMA ShowStep ==
  ASSUME IInv, NEW w \in Walkers, NEW page \in Pages,
         PageFits(filter[w], cursor[w], page), Show(w, page),
         UNCHANGED <<content, filter>>
  PROVE  /\ \E last \in Hotels : cursor' = [cursor EXCEPT ![w] = last]
         /\ shown' \in [Walkers -> [Hotels -> Nat]]
         /\ steady' \in [Walkers -> SUBSET Hotels]
         /\ step' = [step EXCEPT ![w] = "asking"]
         /\ CursorStored' /\ ShownBefore' /\ SteadyBefore'
<1>1. PICK last \in page.rows :
        /\ \A h \in page.rows \ {last} : Older(last, h)
        /\ cursor' = [cursor EXCEPT ![w] = last]
      BY DEF Show
<1>2. /\ page.rows \subseteq Hotels /\ page.of \subseteq Hotels /\ last \in Hotels
      /\ last # 0
      BY NumberAssumption DEF Pages
<1>3. WalkTyped /\ TypeOK
      BY Types DEF IInv
<1>4. /\ shown' = [shown EXCEPT ![w] =
                     [h \in Hotels |-> IF h \in page.rows THEN @[h] + 1 ELSE @[h]]]
      /\ steady' = [steady EXCEPT ![w] = @ \cap page.of]
      /\ step' = [step EXCEPT ![w] = "asking"]
      BY DEF Show
<1>5. shown' \in [Walkers -> [Hotels -> Nat]] /\ steady' \in [Walkers -> SUBSET Hotels]
      BY <1>3, <1>4 DEF WalkTyped
<1>6. /\ cursor'[w] = last /\ step'[w] = "asking" /\ steady'[w] = steady[w] \cap page.of
      /\ \A h \in Hotels :
           shown'[w][h] = IF h \in page.rows THEN shown[w][h] + 1 ELSE shown[w][h]
      BY <1>1, <1>3, <1>4 DEF WalkTyped
<1>7. ASSUME NEW v \in Walkers \ {w}
      PROVE  /\ cursor'[v] = cursor[v] /\ step'[v] = step[v]
             /\ steady'[v] = steady[v] /\ shown'[v] = shown[v]
      BY <1>1, <1>3, <1>4 DEF WalkTyped
<1>8. Stored' = Stored /\ \A h, g \in Hotels : Older(h, g)' <=> Older(h, g)
      BY DEF content, Stored, Older
<1>9. cursor[w] # 0 => /\ cursor[w] \in Hotels
                       /\ \A h \in page.rows : Older(h, cursor[w])
      BY <1>3 DEF WalkTyped, PageFits
<1>10. CursorStored'
  <2>1. page.of \subseteq Stored /\ last \in Stored
        BY DEF PageFits
  <2> QED BY <1>6, <1>7, <1>8, <2>1 DEF IInv, CursorStored
<1>11. ShownBefore'
  <2>1. SUFFICES ASSUME NEW v \in Walkers, NEW h \in Hotels, shown'[v][h] > 0
                 PROVE  /\ shown'[v][h] = 1 /\ h \in Stored'
                        /\ cursor'[v] # 0 /\ ~Older(h, cursor[v])'
        BY DEF ShownBefore
  <2>2. CASE v # w
        BY <1>3, <1>7, <1>8, <2>1, <2>2 DEF IInv, ShownBefore, WalkTyped, Older, content
  <2>3. CASE v = w
    <3>1. shown[w][h] \in Nat
          BY <1>3 DEF WalkTyped
    <3>2. shown[w][h] > 0 => /\ shown[w][h] = 1 /\ h \in Stored /\ cursor[w] # 0
                             /\ ~Older(h, cursor[w])
          BY DEF IInv, ShownBefore
    <3>3. CASE h \in page.rows
      <4>1. ~(shown[w][h] > 0)
            BY <1>9, <3>2, <3>3
      <4>2. ~Older(h, last) /\ h \in Stored
            BY <1>1, <1>2, <1>3, <3>3, OlderOrder DEF PageFits
      <4> QED BY <1>2, <1>6, <1>8, <2>3, <3>1, <3>3, <4>1, <4>2 DEF Older, content
    <3>4. CASE h \notin page.rows
      <4>1. shown[w][h] > 0
            BY <1>6, <2>1, <2>3, <3>4
      <4>2. ~Older(h, last)
            BY <1>2, <1>3, <1>9, <3>2, <4>1, OlderOrder
      <4> QED BY <1>2, <1>6, <1>8, <2>3, <3>2, <3>4, <4>1, <4>2 DEF Older, content
    <3> QED BY <3>3, <3>4
  <2> QED BY <2>2, <2>3
<1>12. SteadyBefore'
  <2>1. SUFFICES ASSUME NEW v \in Walkers, NEW h \in steady'[v], Passes(filter[v], h),
                        \/ step'[v] = "ended"
                        \/ cursor'[v] # 0 /\ ~Older(h, cursor[v])'
                 PROVE  shown'[v][h] > 0
        BY DEF SteadyBefore, Passes
  <2>2. CASE v # w
        BY <1>7, <2>1, <2>2 DEF IInv, SteadyBefore, Older, content
  <2>3. CASE v = w
    <3>1. h \in steady[w] /\ h \in page.of /\ h \in Hotels /\ shown[w][h] \in Nat
          BY <1>2, <1>3, <1>6, <2>3 DEF WalkTyped
    <3>2. ~Older(h, last)
          BY <1>6, <2>1, <2>3 DEF Older, content
    <3>3. CASE cursor[w] # 0 /\ ~Older(h, cursor[w])
      <4>1. shown[w][h] > 0
            BY <2>1, <2>3, <3>1, <3>3 DEF IInv, SteadyBefore
      <4> QED BY <1>6, <2>3, <3>1, <4>1
    <3>4. CASE cursor[w] = 0 \/ Older(h, cursor[w])
      <4>1. h \in page.rows \/ \A g \in page.rows : Older(h, g)
            BY <2>1, <2>3, <3>1, <3>4 DEF PageFits
      <4>2. h \in page.rows
            BY <3>2, <4>1
      <4> QED BY <1>6, <2>3, <3>1, <4>2
    <3> QED BY <3>3, <3>4
  <2> QED BY <2>2, <2>3
<1> QED BY <1>1, <1>2, <1>4, <1>5, <1>10, <1>11, <1>12

\* A page from the cache fits the request that finds it.
LEMMA AskStep == ASSUME IInv, NEW w \in Walkers, AskPage(w) PROVE IInv'
<1> DEFINE key == <<filter[w], cursor[w]>>
           page == cache[key]
<1>1. ContentTyped /\ ProcessTyped /\ WalkTyped
      BY Types DEF IInv
<1>2. step[w] = "asking" /\ UNCHANGED <<content, process, cache, filter, held>>
      BY DEF AskPage
<1>3. ContentTyped' /\ ProcessTyped'
      BY <1>1, <1>2 DEF ContentTyped, ProcessTyped, content, process
<1>4. CacheFits'
      BY <1>2 DEF IInv, CacheFits, PageFits, Stored, Older, Passes, content
<1>5. CASE page # None /\ Show(w, page)
  <2>1. key \in PageKeys /\ page \in Pages /\ PageFits(filter[w], cursor[w], page)
    <3>1. key \in PageKeys
          BY <1>1 DEF WalkTyped, PageKeys
    <3>2. page \in Pages
          BY <1>1, <1>5, <3>1 DEF WalkTyped
    <3>3. PageFits(key[1], key[2], page)
          BY <1>5, <3>1 DEF IInv, CacheFits
    <3> QED BY <3>1, <3>2, <3>3
  <2>2. /\ \E last \in Hotels : cursor' = [cursor EXCEPT ![w] = last]
        /\ shown' \in [Walkers -> [Hotels -> Nat]]
        /\ steady' \in [Walkers -> SUBSET Hotels]
        /\ step' = [step EXCEPT ![w] = "asking"]
        /\ CursorStored' /\ ShownBefore' /\ SteadyBefore'
    <3> HIDE DEF page
    <3> QED BY <1>2, <1>5, <2>1, ShowStep
  <2>3. WalkTyped'
        BY <1>1, <1>2, <2>2 DEF WalkTyped
  <2>4. HeldFits'
    <3>1. SUFFICES ASSUME NEW v \in Walkers, step'[v] = "storing"
                   PROVE  held[v] \in Pages /\ PageFits(filter[v], cursor[v], held[v])'
          BY <1>2 DEF HeldFits
    <3>2. step[v] = "storing" /\ cursor'[v] = cursor[v]
          BY <1>1, <2>2, <3>1 DEF WalkTyped
    <3> QED BY <1>2, <3>2 DEF IInv, HeldFits, PageFits, Stored, Older, Passes, content
  <2> QED BY <1>3, <1>4, <2>2, <2>3, <2>4, TypesNext DEF IInv
<1>6. CASE step' = [step EXCEPT ![w] = "querying"] /\ UNCHANGED <<cursor, shown, steady>>
  <2>1. WalkTyped'
        BY <1>1, <1>2, <1>6 DEF WalkTyped
  <2>2. \A v \in Walkers : /\ step'[v] = "storing" => step[v] = "storing"
                           /\ step'[v] = "ended" => step[v] = "ended"
        BY <1>1, <1>6 DEF WalkTyped
  <2>3. HeldFits'
        BY <1>2, <1>6, <2>2 DEF IInv, HeldFits, PageFits, Stored, Older, Passes, content
  <2>4. CursorStored' /\ ShownBefore'
        BY <1>2, <1>6 DEF IInv, CursorStored, ShownBefore, Stored, Older, content
  <2>5. SteadyBefore'
        BY <1>2, <1>6, <2>2 DEF IInv, SteadyBefore, Older, Passes, content
  <2> QED BY <1>3, <1>4, <2>1, <2>3, <2>4, <2>5, TypesNext DEF IInv
<1> QED BY <1>5, <1>6 DEF AskPage

\* A page is computed, or nothing is left behind the cursor.
LEMMA QueryStep == ASSUME IInv, NEW w \in Walkers, QueryPage(w) PROVE IInv'
<1> DEFINE rows == PageAfter(filter[w], cursor[w])
<1>1. ContentTyped /\ ProcessTyped /\ WalkTyped /\ TypeOK
      BY Types DEF IInv
<1>2. step[w] = "querying" /\ UNCHANGED <<content, process, cache, filter, cursor, shown>>
      BY DEF QueryPage
<1>3. ContentTyped' /\ ProcessTyped'
      BY <1>1, <1>2 DEF ContentTyped, ProcessTyped, content, process
<1>4. CacheFits'
      BY <1>2 DEF IInv, CacheFits, PageFits, Stored, Older, Passes, content
<1>5. ShownBefore'
      BY <1>2 DEF IInv, ShownBefore, Stored, Older, content
<1>6. /\ filter[w] \in BOOLEAN /\ cursor[w] \in Hotels \cup {0}
      /\ cursor[w] # 0 => cursor[w] \in Stored
      /\ Stored \in SUBSET Hotels /\ rows \in SUBSET Hotels
      BY <1>1 DEF WalkTyped, IInv, CursorStored, Stored, PageAfter, AfterCursor
<1>7. CASE /\ rows # {} /\ held' = [held EXCEPT ![w] = [rows |-> rows, of |-> Stored]]
           /\ step' = [step EXCEPT ![w] = "storing"] /\ UNCHANGED steady
  <2>1. [rows |-> rows, of |-> Stored] \in Pages
        BY <1>6 DEF Pages
  <2>2. PageFits(filter[w], cursor[w], [rows |-> rows, of |-> Stored])
        BY <1>1, <1>6, <1>7, ComputedFits
  <2> HIDE DEF rows
  <2>3. WalkTyped'
        BY <1>1, <1>2, <1>7, <2>1 DEF WalkTyped
  <2>4. ASSUME NEW v \in Walkers, step'[v] = "storing"
        PROVE  held'[v] \in Pages /\ PageFits(filter[v], cursor[v], held'[v])
    <3>1. CASE v = w
          BY <1>1, <1>7, <2>1, <2>2, <3>1 DEF WalkTyped
    <3>2. CASE v # w
          BY <1>1, <1>7, <2>4, <3>2 DEF WalkTyped, IInv, HeldFits
    <3> QED BY <3>1, <3>2
  <2>5. HeldFits'
        BY <1>2, <2>4 DEF HeldFits, PageFits, Stored, Older, Passes, content
  <2>6. CursorStored'
        BY <1>2, <1>7 DEF IInv, CursorStored, Stored, content
  <2>7. \A v \in Walkers : step'[v] = "ended" => step[v] = "ended"
        BY <1>1, <1>7 DEF WalkTyped
  <2>8. SteadyBefore'
        BY <1>2, <1>7, <2>7 DEF IInv, SteadyBefore, Older, Passes, content
  <2> QED BY <1>3, <1>4, <1>5, <2>3, <2>5, <2>6, <2>8, TypesNext DEF IInv
<1>8. CASE /\ rows = {} /\ steady' = [steady EXCEPT ![w] = @ \cap Stored]
           /\ step' = [step EXCEPT ![w] = "ended"] /\ UNCHANGED held
  <2>1. AfterCursor(filter[w], cursor[w]) = {}
        BY <1>1, <1>8, EmptyPage
  <2> HIDE DEF rows
  <2>2. WalkTyped'
        BY <1>1, <1>2, <1>6, <1>8 DEF WalkTyped
  <2>3. /\ steady'[w] = steady[w] \cap Stored
        /\ \A v \in Walkers \ {w} : steady'[v] = steady[v] /\ step'[v] = step[v]
        BY <1>1, <1>8 DEF WalkTyped
  <2>4. HeldFits'
    <3>1. \A v \in Walkers : step'[v] = "storing" => step[v] = "storing"
          BY <1>1, <1>8 DEF WalkTyped
    <3> QED BY <1>2, <1>8, <3>1
            DEF IInv, HeldFits, PageFits, Stored, Older, Passes, content
  <2>5. CursorStored'
        BY <1>2, <2>3 DEF IInv, CursorStored, Stored, content
  <2>6. SteadyBefore'
    <3>1. SUFFICES ASSUME NEW v \in Walkers, NEW h \in steady'[v], Passes(filter[v], h),
                          \/ step'[v] = "ended"
                          \/ cursor[v] # 0 /\ ~Older(h, cursor[v])
                   PROVE  shown[v][h] > 0
          BY <1>2 DEF SteadyBefore, Passes, Older, content
    <3>2. CASE v # w
          BY <2>3, <3>1, <3>2 DEF IInv, SteadyBefore
    <3>3. CASE v = w
      <4>1. h \in steady[w] /\ h \in Stored /\ h \notin AfterCursor(filter[w], cursor[w])
            BY <2>1, <2>3, <3>1, <3>3
      <4>2. cursor[w] # 0 /\ ~Older(h, cursor[w])
            BY <3>1, <3>3, <4>1 DEF AfterCursor, Older
      <4> QED BY <3>1, <3>3, <4>1, <4>2 DEF IInv, SteadyBefore
    <3> QED BY <3>2, <3>3
  <2> QED BY <1>3, <1>4, <1>5, <2>2, <2>4, <2>5, <2>6, TypesNext DEF IInv
<1> QED BY <1>7, <1>8 DEF QueryPage

\* The page is stored under the key it was computed for, and shown.
LEMMA StoreStep == ASSUME IInv, NEW w \in Walkers, StorePage(w) PROVE IInv'
<1> DEFINE key == <<filter[w], cursor[w]>>
<1>1. ContentTyped /\ ProcessTyped /\ WalkTyped
      BY Types DEF IInv
<1>2. /\ step[w] = "storing" /\ cache' = [cache EXCEPT ![key] = held[w]]
      /\ Show(w, held[w]) /\ held' = [held EXCEPT ![w] = None]
      /\ UNCHANGED <<content, process, filter>>
      BY DEF StorePage
<1>3. ContentTyped' /\ ProcessTyped'
      BY <1>1, <1>2 DEF ContentTyped, ProcessTyped, content, process
<1>4. /\ held[w] \in Pages /\ PageFits(filter[w], cursor[w], held[w])
      /\ key \in PageKeys /\ key[1] = filter[w] /\ key[2] = cursor[w]
      BY <1>1, <1>2 DEF IInv, HeldFits, WalkTyped, PageKeys
<1>5. /\ \E last \in Hotels : cursor' = [cursor EXCEPT ![w] = last]
      /\ shown' \in [Walkers -> [Hotels -> Nat]]
      /\ steady' \in [Walkers -> SUBSET Hotels]
      /\ step' = [step EXCEPT ![w] = "asking"]
      /\ CursorStored' /\ ShownBefore' /\ SteadyBefore'
      BY <1>2, <1>4, ShowStep
<1> HIDE DEF key
<1>6. WalkTyped'
      BY <1>1, <1>2, <1>4, <1>5 DEF WalkTyped
<1>7. CacheFits'
  <2>1. SUFFICES ASSUME NEW k \in PageKeys, cache'[k] # None
                 PROVE  PageFits(k[1], k[2], cache'[k])
        BY <1>2 DEF CacheFits, PageFits, Stored, Older, Passes, content
  <2>2. CASE k = key
        BY <1>1, <1>2, <1>4, <2>2 DEF WalkTyped
  <2>3. CASE k # key
        BY <1>1, <1>2, <2>1, <2>3 DEF WalkTyped, IInv, CacheFits
  <2> QED BY <2>2, <2>3
<1>8. HeldFits'
  <2>1. SUFFICES ASSUME NEW v \in Walkers, step'[v] = "storing"
                 PROVE  held'[v] \in Pages /\ PageFits(filter[v], cursor[v], held[v])'
        BY DEF HeldFits
  <2>2. v # w /\ step[v] = "storing" /\ cursor'[v] = cursor[v] /\ held'[v] = held[v]
        BY <1>1, <1>2, <1>5, <2>1 DEF WalkTyped
  <2> QED BY <1>2, <2>2 DEF IInv, HeldFits, PageFits, Stored, Older, Passes, content
<1> QED BY <1>3, <1>5, <1>6, <1>7, <1>8, TypesNext DEF IInv

\* A client begins again: nothing is shown yet.
LEMMA AgainStep == ASSUME IInv, NEW w \in Walkers, WalkAgain(w) PROVE IInv'
<1>1. ContentTyped /\ ProcessTyped /\ WalkTyped
      BY Types DEF IInv
<1>2. /\ step' = [step EXCEPT ![w] = "asking"] /\ cursor' = [cursor EXCEPT ![w] = 0]
      /\ shown' = [shown EXCEPT ![w] = [h \in Hotels |-> 0]]
      /\ steady' = [steady EXCEPT ![w] = Hotels]
      /\ UNCHANGED <<content, process, cache, filter, held>>
      BY DEF WalkAgain
<1>3. ContentTyped' /\ ProcessTyped' /\ WalkTyped'
      BY <1>1, <1>2 DEF ContentTyped, ProcessTyped, WalkTyped, content, process
<1>4. CacheFits'
      BY <1>2 DEF IInv, CacheFits, PageFits, Stored, Older, Passes, content
<1>5. /\ step'[w] = "asking" /\ cursor'[w] = 0 /\ \A h \in Hotels : shown'[w][h] = 0
      /\ \A v \in Walkers \ {w} : /\ step'[v] = step[v] /\ cursor'[v] = cursor[v]
                                  /\ shown'[v] = shown[v] /\ steady'[v] = steady[v]
      BY <1>1, <1>2 DEF WalkTyped
<1>6. HeldFits'
      BY <1>2, <1>5 DEF IInv, HeldFits, PageFits, Stored, Older, Passes, content
<1>7. CursorStored' /\ ShownBefore'
      BY <1>2, <1>5 DEF IInv, CursorStored, ShownBefore, Stored, Older, content
<1>8. SteadyBefore'
      BY <1>2, <1>5 DEF IInv, SteadyBefore, Older, Passes, content
<1> QED BY <1>3, <1>4, <1>6, <1>7, <1>8, TypesNext DEF IInv

\* A key expires, or nothing happens.
LEMMA ExpiryStep ==
  ASSUME IInv, (\E k \in PageKeys : PageExpires(k)) \/ UNCHANGED vars
  PROVE  IInv'
<1>1. ContentTyped /\ ProcessTyped /\ WalkTyped
      BY Types DEF IInv
<1>2. UNCHANGED <<content, process, step, filter, cursor, held, shown, steady>>
      BY DEF PageExpires, vars, walk
<1>3. /\ cache' \in [PageKeys -> Pages \cup {None}]
      /\ \A k \in PageKeys : cache'[k] # None => cache'[k] = cache[k]
  <2>1. CASE UNCHANGED vars
        BY <1>1, <2>1 DEF WalkTyped, vars, walk
  <2>2. CASE \E k \in PageKeys : PageExpires(k)
        BY <1>1, <2>2 DEF WalkTyped, PageExpires
  <2> QED BY <2>1, <2>2
<1>4. ContentTyped' /\ ProcessTyped' /\ WalkTyped'
      BY <1>1, <1>2, <1>3 DEF ContentTyped, ProcessTyped, WalkTyped, content, process
<1>5. CacheFits'
      BY <1>2, <1>3 DEF IInv, CacheFits, PageFits, Stored, Older, Passes, content
<1>6. HeldFits'
      BY <1>2 DEF IInv, HeldFits, PageFits, Stored, Older, Passes, content
<1>7. CursorStored' /\ ShownBefore'
      BY <1>2 DEF IInv, CursorStored, ShownBefore, Stored, Older, content
<1>8. SteadyBefore'
      BY <1>2 DEF IInv, SteadyBefore, Older, Passes, content
<1> QED BY <1>4, <1>5, <1>6, <1>7, <1>8, TypesNext DEF IInv
-----------------------------------------------------------------------------
\* The invariant holds throughout every behaviour.
THEOREM Invariance == Spec => []IInv
<1>1. IInv /\ [Next]_vars => IInv'
  <2> SUFFICES ASSUME IInv, [Next]_vars PROVE IInv'
      OBVIOUS
  <2>1. CASE \/ \E h \in Hotels : ProviderAdds(h)
             \/ \E n \in Nodes : Works(n) \/ FetchFails(n) \/ UpdatePlaces(n) \/ Crash(n)
        BY <2>1, ContentStep, WalksKept DEF IInv
  <2> QED BY <2>1, AskStep, QueryStep, StoreStep, AgainStep, ExpiryStep DEF Next
<1> QED BY <1>1, IInvInit, PTL DEF Spec

\* A client that follows the cursors is shown no hotel twice, however many rows
\* share a stamp or come late and whatever pages are cached.
THEOREM NothingShownTwice == Spec => []ShownOnce
<1>1. IInv => ShownOnce
  <2> SUFFICES ASSUME IInv, NEW w \in Walkers, NEW h \in Hotels
               PROVE  shown[w][h] <= 1
      BY DEF ShownOnce
  <2>1. shown[w][h] \in Nat
        BY Types DEF IInv, WalkTyped
  <2> QED BY <2>1 DEF IInv, ShownBefore
<1> QED BY <1>1, Invariance, PTL

\* At its end it has been shown every hotel of its filter that was stored when
\* each of the pages was computed.
THEOREM SteadyAreShown == Spec => []SteadyShown
<1>1. IInv => SteadyShown
      BY DEF IInv, SteadyBefore, SteadyShown
<1> QED BY <1>1, Invariance, PTL
-----------------------------------------------------------------------------
(* What a fetch brings, while the provider's list grows.                   *)

\* The order of the provider's list.
Codes == {p \in Hotels \X Hotels : p[1] < p[2]}
Fetching(n) == pc[n] \in {"fetching", "refetching"}

\* A fetch begins with the first page.
FirstPage == \A n \in Nodes : ~Fetching(n) => from[n] = 1
\* Of what was offered when it began it has all the pages it asked for hold: what
\* joins the list only moves hotels to later pages.
FetchedBefore ==
  \A n \in Nodes : Fetching(n) =>
    /\ from[n] \in Nat \ {0} /\ offered[n] \subseteq listed
    /\ \A h \in offered[n] :
         Rank(Codes, listed, h) < Batch * (from[n] - 1) => h \in got[n]
FetchInv == FirstPage /\ FetchedBefore /\ FetchComplete

\* The provider's list is in the order of the codes, and finite.
LEMMA ProviderOrder ==
  ASSUME NEW S \in SUBSET Hotels
  PROVE  /\ IsFiniteSet(S) /\ StrictOrder(Codes, S)
         /\ \A h \in S : /\ Rank(Codes, S, h) = Cardinality({g \in S : g < h})
                        /\ Rank(Codes, S, h) \in Nat
<1>1. IsFiniteSet(S)
      BY NumberAssumption, FS_Subset
<1>2. \A h, g \in Hotels : <<g, h>> \in Codes <=> g < h
      BY DEF Codes
<1>3. \A h \in Hotels : h \in Nat
      BY NumberAssumption
<1>4. StrictOrder(Codes, S)
      BY <1>2, <1>3 DEF StrictOrder
<1>5. ASSUME NEW h \in S PROVE Ahead(Codes, S, h) = {g \in S : g < h}
      BY <1>2 DEF Ahead
<1> QED BY <1>1, <1>4, <1>5, RankType DEF Rank

\* An answer is a stretch of the list; one that is not full is its end.
LEMMA AnswerIs ==
  ASSUME TypeOK, NEW k \in Nat \ {0}
  PROVE  /\ \A h \in listed :
              /\ ~(Rank(Codes, listed, h) < Batch * (k - 1))
              /\ Rank(Codes, listed, h) < Batch * ((k + 1) - 1)
              => h \in Answer(k)
         /\ ~MoreToCome(Answer(k)) =>
              \A h \in listed : Rank(Codes, listed, h) < Batch * ((k + 1) - 1)
<1>1. PICK a \in Nat : a = Batch * (k - 1)
      BY NumberAssumption
<1>2. Batch * k = a + Batch
      BY <1>1, NumberAssumption
<1>3. /\ IsFiniteSet(listed) /\ StrictOrder(Codes, listed)
      /\ \A h \in listed : /\ Rank(Codes, listed, h) = Cardinality({g \in listed : g < h})
                         /\ Rank(Codes, listed, h) \in Nat
      BY ProviderOrder DEF TypeOK
<1>4. Answer(k) = {h \in listed : a <= Rank(Codes, listed, h)
                                   /\ Rank(Codes, listed, h) < a + Batch}
      BY <1>1, <1>2, <1>3 DEF Answer
<1>5. ASSUME ~MoreToCome(Answer(k)), NEW h \in listed
      PROVE  Rank(Codes, listed, h) < a + Batch
  <2>1. IsFiniteSet(Answer(k)) /\ Cardinality(Answer(k)) \in Nat
        BY <1>3, <1>4, FS_Subset, FS_CardinalityType
  <2>2. Cardinality(Answer(k)) < Batch
        BY <1>5, <2>1, NumberAssumption DEF MoreToCome
  <2>3. Batch \in Nat /\ Rank(Codes, listed, h) \in Nat
        BY <1>3, NumberAssumption
  <2>4. ASSUME Rank(Codes, listed, h) >= a + Batch
        PROVE  Cardinality(Answer(k)) >= Batch
        BY <1>3, <1>4, <2>3, <2>4, FullAnswer
  <2> QED BY <2>1, <2>2, <2>3, <2>4
<1>6. Batch * ((k + 1) - 1) = a + Batch
  <2>1. (k + 1) - 1 = k
        OBVIOUS
  <2> QED BY <1>2, <2>1
<1>7. ASSUME NEW h \in listed, ~(Rank(Codes, listed, h) < a),
             Rank(Codes, listed, h) < a + Batch
      PROVE  h \in Answer(k)
  <2>1. Rank(Codes, listed, h) \in Nat
        BY <1>3
  <2>2. a <= Rank(Codes, listed, h)
        BY <1>7, <2>1
  <2> QED BY <1>4, <1>7, <2>2
<1> QED BY <1>1, <1>5, <1>6, <1>7

\* A page more of it is fetched, or the last one.
LEMMA FetchStep ==
  ASSUME TypeOK, FetchInv, NEW n \in Nodes, Fetch(n)
  PROVE  FetchInv'
<1> DEFINE all == got[n] \cup Answer(from[n])
<1>1. ProcessTyped /\ Fetching(n) /\ from[n] \in Nat \ {0} /\ offered[n] \subseteq listed
      BY Types DEF Fetch, Fetching, FetchInv, FetchedBefore
<1>2. /\ UNCHANGED <<content, known, faults, walk>>
      /\ \/ /\ from' = [from EXCEPT ![n] = @ + 1]
            /\ got' = [got EXCEPT ![n] = all] /\ UNCHANGED <<pc, todo, offered>>
         \/ /\ ~MoreToCome(Answer(from[n])) /\ from' = [from EXCEPT ![n] = 1]
            /\ StartSeed(n, all) \/ StartUpserts(n, all)
      BY DEF Fetch
<1>3. \A h \in offered[n] :
        Rank(Codes, listed, h) < Batch * ((from[n] + 1) - 1) => h \in all
      BY <1>1, AnswerIs DEF FetchInv, FetchedBefore
<1>4. ~MoreToCome(Answer(from[n])) => offered[n] \subseteq all
      BY <1>1, <1>3, AnswerIs
<1> HIDE DEF all
<1>5. CASE /\ from' = [from EXCEPT ![n] = @ + 1]
           /\ got' = [got EXCEPT ![n] = all] /\ UNCHANGED <<pc, todo, offered>>
  <2>1. FirstPage' /\ FetchComplete'
        BY <1>1, <1>5 DEF FetchInv, FirstPage, FetchComplete, Fetching, ProcessTyped
  <2>2. ASSUME NEW m \in Nodes, Fetching(m)'
        PROVE  /\ from'[m] \in Nat \ {0} /\ offered'[m] \subseteq listed
               /\ \A h \in offered'[m] :
                    Rank(Codes, listed, h) < Batch * (from'[m] - 1) => h \in got'[m]
    <3>1. CASE m = n
          BY <1>1, <1>3, <1>5, <3>1 DEF ProcessTyped
    <3>2. CASE m # n
          BY <1>1, <1>5, <2>2, <3>2 DEF ProcessTyped, FetchInv, FetchedBefore, Fetching
    <3> QED BY <3>1, <3>2
  <2>3. UNCHANGED listed
        BY <1>2 DEF content
  <2> QED BY <2>1, <2>2, <2>3 DEF FetchInv, FetchedBefore
<1>6. CASE /\ ~MoreToCome(Answer(from[n])) /\ from' = [from EXCEPT ![n] = 1]
           /\ StartSeed(n, all) \/ StartUpserts(n, all)
  <2>1. /\ from'[n] = 1 /\ ~Fetching(n)'
        /\ pc'[n] # "serving" => got'[n] = all /\ offered'[n] = offered[n]
        /\ \A m \in Nodes \ {n} : /\ pc'[m] = pc[m] /\ from'[m] = from[m]
                                 /\ got'[m] = got[m] /\ offered'[m] = offered[m]
        BY <1>1, <1>6 DEF ProcessTyped, StartSeed, StartUpserts, At, Fetching
  <2>2. UNCHANGED listed
        BY <1>2 DEF content
  <2>3. FirstPage' /\ FetchedBefore'
        BY <2>1, <2>2 DEF FetchInv, FirstPage, FetchedBefore, Fetching
  <2>4. FetchComplete'
        BY <1>4, <1>6, <2>1 DEF FetchInv, FetchComplete
  <2> QED BY <2>3, <2>4 DEF FetchInv
<1> QED BY <1>2, <1>5, <1>6

\* Another hotel is offered: every one keeps its place or gets a later one.
LEMMA ListGrows ==
  ASSUME TypeOK, TypeOK', FetchInv, NEW x \in Hotels, ProviderAdds(x)
  PROVE  FetchInv'
<1>1. listed' = listed \cup {x} /\ UNCHANGED <<pc, from, got, offered>>
      BY DEF ProviderAdds, process
<1>2. ASSUME NEW h \in listed
      PROVE  /\ Rank(Codes, listed, h) <= Rank(Codes, listed', h)
             /\ Rank(Codes, listed, h) \in Nat /\ Rank(Codes, listed', h) \in Nat
  <2>1. listed \in SUBSET Hotels /\ listed' \in SUBSET Hotels
        BY DEF TypeOK
  <2> QED BY <1>1, <2>1, ProviderOrder, RankGrows
<1>3. ASSUME NEW n \in Nodes, Fetching(n), NEW h \in offered[n],
             Rank(Codes, listed', h) < Batch * (from[n] - 1)
      PROVE  h \in got[n]
  <2>1. h \in listed /\ from[n] \in Nat \ {0}
        BY <1>3 DEF FetchInv, FetchedBefore
  <2>2. PICK a \in Nat : a = Batch * (from[n] - 1)
        BY <2>1, NumberAssumption
  <2>3. Rank(Codes, listed, h) < a
        BY <1>2, <1>3, <2>1, <2>2
  <2> QED BY <1>3, <2>2, <2>3 DEF FetchInv, FetchedBefore
<1>4. FetchedBefore'
      BY <1>1, <1>3 DEF FetchInv, FetchedBefore, Fetching
<1>5. FirstPage' /\ FetchComplete'
      BY <1>1 DEF FetchInv, FirstPage, FetchComplete, Fetching
<1> QED BY <1>4, <1>5 DEF FetchInv

\* Every other step of a process begins a fetch, drops what it fetched, or keeps it.
LEMMA OtherSteps ==
  ASSUME TypeOK, FetchInv, NEW n \in Nodes, Works(n) \/ FetchFails(n) \/ Crash(n),
         ~Fetch(n)
  PROVE  FetchInv'
<1> DEFINE Begins == /\ pc'[n] \in {"fetching", "refetching"} /\ offered'[n] = listed
                     /\ ~Fetching(n) /\ from'[n] = from[n]
           Drops == ~Fetching(n)' /\ from'[n] = 1 /\ offered'[n] = {}
           Keeps == /\ ~Fetching(n) /\ ~Fetching(n)' /\ from'[n] = from[n]
                    /\ pc'[n] \in {"validating", "seeding", "upserting", "equipping"} =>
                         /\ pc[n] \in {"validating", "seeding", "upserting", "equipping"}
                         /\ got'[n] = got[n] /\ offered'[n] = offered[n]
           Others == \A m \in Nodes \ {n} :
                       /\ pc'[m] = pc[m] /\ from'[m] = from[m]
                       /\ got'[m] = got[m] /\ offered'[m] = offered[m]
<1>1. ProcessTyped
      BY Types
<1>2. UNCHANGED listed /\ Others /\ (Begins \/ Drops \/ Keeps)
  <2> USE <1>1 DEF ProcessTyped, Fetching, At, Forget
  <2>1. CASE Boot(n) \/ UpsertRooms(n) \/ ReadFacilities(n)
        BY <2>1 DEF Boot, UpsertRooms, ReadFacilities, content
  <2>2. CASE FetchPlaces(n) \/ AddPlaces(n)
    <3>1. /\ UNCHANGED <<listed, from, got>> /\ ~Fetching(n)
          /\ \E b \in {"addingPlaces", "facilities"} : pc' = [pc EXCEPT ![n] = b]
          BY <2>2 DEF FetchPlaces, AddPlaces, content
    <3>2. \E hotels : offered' = [offered EXCEPT ![n] = hotels]
      <4>1. offered = [offered EXCEPT ![n] = offered[n]]
            BY <1>1
      <4> QED BY <2>2, <4>1 DEF FetchPlaces, AddPlaces
    <3> QED BY <3>1, <3>2
  <2>3. CASE FetchFacilities(n) \/ AddFacilities(n)
        BY <2>3 DEF FetchFacilities, AddFacilities, content
  <2>4. CASE CountHotels(n) \/ StartUpdate(n)
        BY <2>4 DEF CountHotels, StartUpdate, content
  <2>5. CASE FetchFails(n) \/ SeedFails(n) \/ Crash(n)
        BY <2>5 DEF FetchFails, SeedFails, Crash, content
  <2>6. CASE \E t \in Stamps : Seed(n, t)
        BY <2>6 DEF Seed
  <2>7. CASE UpsertHotelFacilities(n)
        BY <2>7 DEF UpsertHotelFacilities
  <2>8. CASE \E h \in Hotels, t \in Stamps : UpsertHotel(n, h, t)
        BY <2>8 DEF UpsertHotel
  <2> QED BY <2>1, <2>2, <2>3, <2>4, <2>5, <2>6, <2>7, <2>8 DEF Works
<1> HIDE DEF Begins, Drops, Keeps, Others
<1>3. FirstPage'
      BY <1>2 DEF FetchInv, FirstPage, Fetching, Begins, Drops, Keeps, Others
<1>4. FetchComplete'
      BY <1>2 DEF FetchInv, FetchComplete, Fetching, Begins, Drops, Keeps, Others
<1>5. ASSUME NEW m \in Nodes, Fetching(m)'
      PROVE  /\ from'[m] \in Nat \ {0} /\ offered'[m] \subseteq listed
             /\ \A h \in offered'[m] :
                  Rank(Codes, listed, h) < Batch * (from'[m] - 1) => h \in got'[m]
  <2>1. CASE m # n
        BY <1>2, <1>5, <2>1 DEF FetchInv, FetchedBefore, Fetching, Others
  <2>2. CASE m = n
    <3>1. from'[n] = 1 /\ offered'[n] = listed
          BY <1>2, <1>5, <2>2 DEF FetchInv, FirstPage, Fetching, Begins, Drops, Keeps
    <3>2. \A h \in listed : ~(Rank(Codes, listed, h) < Batch * (1 - 1))
      <4>1. Batch * (1 - 1) = 0
            BY NumberAssumption
      <4>2. \A h \in listed : Rank(Codes, listed, h) \in Nat
            BY ProviderOrder DEF TypeOK
      <4> QED BY <4>1, <4>2
    <3> QED BY <2>2, <3>1, <3>2
  <2> QED BY <2>1, <2>2
<1>6. FetchedBefore'
      BY <1>2, <1>5 DEF FetchedBefore
<1> QED BY <1>3, <1>4, <1>6 DEF FetchInv

\* What is seeded or upserted holds every hotel that was offered when the fetch
\* began, however many hotels an answer holds and however the list grows.
THEOREM FetchesAreComplete == Spec => []FetchComplete
<1>1. Init => FetchInv
      BY DEF Init, FetchInv, FirstPage, FetchedBefore, FetchComplete, Fetching
<1>2. ASSUME TypeOK, TypeOK', FetchInv, [Next]_vars PROVE FetchInv'
  <2>1. CASE UNCHANGED <<listed, pc, from, got, offered>>
        BY <1>2, <2>1 DEF FetchInv, FirstPage, FetchedBefore, FetchComplete, Fetching
  <2>2. ASSUME NEW w \in Walkers,
               AskPage(w) \/ QueryPage(w) \/ StorePage(w) \/ WalkAgain(w)
        PROVE  UNCHANGED <<listed, pc, from, got, offered>>
        BY <2>2 DEF AskPage, QueryPage, StorePage, WalkAgain, content, process
  <2>3. (\E k \in PageKeys : PageExpires(k)) \/ UNCHANGED vars =>
          UNCHANGED <<listed, pc, from, got, offered>>
        BY DEF PageExpires, vars, content, process
  <2>4. \A n \in Nodes : UpdatePlaces(n) => UNCHANGED <<listed, pc, from, got, offered>>
        BY DEF UpdatePlaces, process
  <2> QED BY <1>2, <2>1, <2>2, <2>3, <2>4, FetchStep, ListGrows, OtherSteps DEF Next
<1>3. IInv => TypeOK
      BY DEF IInv
<1>4. FetchInv => FetchComplete
      BY DEF FetchInv
<1> QED BY <1>1, <1>2, <1>3, <1>4, Invariance, PTL DEF Spec
=============================================================================
