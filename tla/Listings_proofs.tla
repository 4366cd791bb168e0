-------------------------- MODULE Listings_proofs ---------------------------
(***************************************************************************)
(* Proofs about Listings: whose rows a client is shown, and that a walk    *)
(* passes none over, for any rows, scopes, page size and number of clients.*)
(***************************************************************************)
EXTENDS Listings, Paging

\* What a key promises of the rows stored under it, and a request of the rows shown.
KeyOwns(k, r) ==
  /\ list \in Scoped => ScopeOf[r] = k.of
  /\ k.narrow /\ list \in Dated => r \in narrow
CacheOwn == \A k \in Keys : \A page \in cache[k] : \A r \in page : KeyOwns(k, r)

\* A client that has not begun asks for nothing and has seen nothing; only
\* cached lists store.
Fresh ==
  \A c \in Clients :
    /\ IF step[c] = "idle" THEN held[c] = {} /\ shown[c] = {} ELSE ask[c] \in Asks
    /\ step[c] = "storing" => list \in Cached

\* A page a request has read is of the rows it asks for.
HeldOwn == \A c \in Clients : \A r \in held[c] : KeyOwns(ask[c], r)

IInv == TypeOK /\ CacheOwn /\ Fresh /\ HeldOwn /\ OwnRows

\* A page a client may be shown.
Proper(c, page) == page \subseteq Rows /\ \A r \in page : KeyOwns(ask[c], r)

-----------------------------------------------------------------------------
\* The invariant holds initially.
LEMMA IInvInit == Init => IInv
BY RowsAssumption, FilterAssumption
   DEF Init, IInv, TypeOK, CacheOwn, Fresh, HeldOwn, OwnRows, NoAsk

\* The keys a request reads and writes are keys.
LEMMA KeysTyped ==
  ASSUME IInv, NEW c \in Clients, step[c] # "idle", list \in Cached,
         NEW r \in Rows \cup {0}
  PROVE  ReadKey(c) \in Keys /\ StoreKey(c, r) \in Keys
<1>1. ask[c] \in Asks /\ at[c] \in Rows \cup {0}
      BY DEF IInv, TypeOK, Fresh, Cached, Offsets, Wholes
<1>2. /\ ask[c].of \in Scopes \cup {None} /\ ask[c].narrow \in BOOLEAN
      /\ ask[c].limited \in BOOLEAN
      BY <1>1 DEF Asks
<1>3. CASE list \in Wholes
      BY <1>2, <1>3 DEF ReadKey, StoreKey, WholeKey, Keys, Wholes
<1>4. CASE list = "rooms"
      BY <1>1, <1>2, <1>4 DEF ReadKey, StoreKey, RoomsKey, Keys, Wholes
<1>5. CASE list \notin Wholes /\ list # "rooms"
      BY <1>1, <1>2, <1>5 DEF ReadKey, StoreKey, DateKey, Keys
<1> QED BY <1>3, <1>4, <1>5

\* A cached page is fit for the request that finds it: a key carries all of a
\* request that the rows depend on, but for the filters of rooms.
LEMMA CachedProper ==
  ASSUME IInv, NEW c \in Clients, step[c] # "idle", list \in Cached,
         NEW page \in cache[ReadKey(c)]
  PROVE  Proper(c, page)
<1>1. ReadKey(c) \in Keys
      BY KeysTyped
<1>2. page \subseteq Rows /\ \A r \in page : KeyOwns(ReadKey(c), r)
      BY <1>1 DEF IInv, TypeOK, CacheOwn
<1>3. ask[c] \in Asks
      BY DEF IInv, Fresh
<1>4. CASE list \in Wholes
      BY <1>2, <1>4 DEF Proper, KeyOwns, ReadKey, WholeKey, Wholes, Dated
<1>5. CASE list = "rooms"
      BY <1>2, <1>5 DEF Proper, KeyOwns, ReadKey, RoomsKey, Wholes, Dated
<1>6. CASE list \in {"bookings", "payments"}
      BY <1>2, <1>6 DEF Proper, KeyOwns, ReadKey, DateKey, Wholes, Scoped, Dated
<1> QED BY <1>4, <1>5, <1>6 DEF Cached

\* A page of rows the request asks for is fit for it.
LEMMA OwnProper ==
  ASSUME NEW c, NEW page \in SUBSET Rows, \A r \in page : Owns(ask[c], r)
  PROVE  Proper(c, page)
BY DEF Proper, Owns, KeyOwns

\* Showing a fit page keeps the invariant's parts about clients.
LEMMA Shows ==
  ASSUME IInv, NEW c \in Clients, step[c] # "idle", NEW page, Proper(c, page),
         Answered(c, page), UNCHANGED <<list, narrow, ask>>
  PROVE  /\ OwnRows'
         /\ shown' \in [Clients -> SUBSET Rows] /\ at' \in [Clients -> Nat]
         /\ list' \notin Offsets => at' \in [Clients -> Rows \cup {0}]
         /\ \E l \in {"asking", "ended"} : step' = [step EXCEPT ![c] = l]
<1>1. \E l \in {"asking", "ended"} : step' = [step EXCEPT ![c] = l]
      BY DEF Answered
<1>2. shown' = [shown EXCEPT ![c] = @ \cup page] /\ page \subseteq Rows
      BY DEF Answered, Proper
<1>3. shown' \in [Clients -> SUBSET Rows]
      BY <1>2 DEF IInv, TypeOK
<1>4. OwnRows'
      BY <1>2 DEF IInv, TypeOK, OwnRows, Proper, KeyOwns
<1>5. /\ at' \in [Clients -> Nat]
      /\ list' \notin Offsets => at' \in [Clients -> Rows \cup {0}]
  <2>1. CASE UNCHANGED at
        BY <2>1 DEF IInv, TypeOK
  <2>2. CASE list \in Offsets /\ at' = [at EXCEPT ![c] = @ + 1]
        BY <2>2 DEF IInv, TypeOK
  <2>3. ASSUME NEW r \in page, at' = [at EXCEPT ![c] = r]
        PROVE  <1>5!1 /\ <1>5!2
        BY <2>3, <1>2, RowsAssumption DEF IInv, TypeOK
  <2> QED BY <2>1, <2>2, <2>3 DEF Answered
<1> QED BY <1>1, <1>3, <1>4, <1>5

\* What a query finds is of the rows the request asks for.
LEMMA FoundStep ==
  ASSUME IInv, NEW c \in Clients, NEW page \in SUBSET Matching(c),
         NEW stored \in BOOLEAN, Found(c, page, stored),
         stored => list \in Cached
  PROVE  IInv'
<1>1. /\ page \in SUBSET Rows /\ \A r \in page : Owns(ask[c], r)
      /\ step[c] = "querying" /\ UNCHANGED <<list, narrow, rows, changes, cache, ask, start>>
      BY DEF IInv, TypeOK, Matching, Found
<1>2. CASE stored
  <2>1. /\ held' = [held EXCEPT ![c] = page]
        /\ step' = [step EXCEPT ![c] = "storing"] /\ UNCHANGED <<at, shown>>
        BY <1>2 DEF Found
  <2>2. TypeOK'
        BY <1>1, <2>1 DEF IInv, TypeOK, Asks
  <2>3. Fresh'
        BY <1>1, <1>2, <2>1 DEF IInv, TypeOK, Fresh, Asks
  <2>4. CacheOwn' /\ HeldOwn' /\ OwnRows'
        BY <1>1, <2>1 DEF IInv, TypeOK, CacheOwn, KeyOwns, HeldOwn, Owns, OwnRows
  <2> QED BY <2>2, <2>3, <2>4 DEF IInv
<1>3. CASE ~stored
  <2>1. Answered(c, page) /\ UNCHANGED held
        BY <1>3 DEF Found
  <2>2. /\ OwnRows'
        /\ shown' \in [Clients -> SUBSET Rows] /\ at' \in [Clients -> Nat]
        /\ list' \notin Offsets => at' \in [Clients -> Rows \cup {0}]
        /\ \E l \in {"asking", "ended"} : step' = [step EXCEPT ![c] = l]
        BY <1>1, <2>1, OwnProper, Shows
  <2>3. TypeOK' /\ Fresh'
        BY <1>1, <2>1, <2>2 DEF IInv, TypeOK, Fresh, Asks, Answered
  <2>4. CacheOwn' /\ HeldOwn'
        BY <1>1, <2>1 DEF IInv, CacheOwn, KeyOwns, HeldOwn, Owns
  <2> QED BY <2>2, <2>3, <2>4 DEF IInv
<1> QED BY <1>2, <1>3

\* Every query of every list.
LEMMA FindStep == ASSUME IInv, NEW c \in Clients, Find(c) PROVE IInv'
<1>1. CASE FindBookings(c)
      BY <1>1, FoundStep DEF FindBookings, Older, Cached
<1>3. CASE FindPayments(c)
      BY <1>3, FoundStep DEF FindPayments, Older, Newest, Cached
<1>4. CASE FindRooms(c)
      BY <1>4, FoundStep DEF FindRooms, Oldest, AfterTuple, Cached
<1>5. CASE FindHotel(c) \/ FindHotelFacilities(c) \/ FindRoomFacilities(c)
      BY <1>5, FoundStep DEF FindHotel, FindHotelFacilities, FindRoomFacilities,
                            Cached, Wholes
<1>6. CASE FindDestinations(c) \/ CheckAvailability(c)
      BY <1>6, FoundStep DEF FindDestinations, CheckAvailability, Cached, Wholes
<1>7. CASE FindUsers(c) \/ FindReviews(c) \/ FindMyBookings(c)
  <2>1. \E page \in SUBSET Matching(c) : Found(c, page, FALSE)
        BY <1>7 DEF FindUsers, FindReviews, FindMyBookings, OffsetPages
  <2> QED BY <2>1, FoundStep
<1>8. CASE FindMyPayments(c)
      BY <1>8, FoundStep DEF FindMyPayments
<1>9. CASE StayRefused(c)
      BY <1>9 DEF StayRefused, IInv, TypeOK, CacheOwn, KeyOwns, Fresh, Asks,
                  HeldOwn, Owns, OwnRows
<1> QED BY <1>1, <1>3, <1>4, <1>5, <1>6, <1>7, <1>8, <1>9 DEF Find

\* A cache hit.
LEMMA AskStep == ASSUME IInv, NEW c \in Clients, Ask(c) PROVE IInv'
<1>1. step[c] = "asking" /\ UNCHANGED <<list, narrow, rows, changes, cache, ask, held, start>>
      BY DEF Ask
<1>2. CacheOwn' /\ HeldOwn'
      BY <1>1 DEF IInv, CacheOwn, KeyOwns, HeldOwn, Owns
<1>3. ASSUME list \in Cached, NEW page \in cache[ReadKey(c)], Answered(c, page)
      PROVE  IInv'
  <2>1. /\ OwnRows'
        /\ shown' \in [Clients -> SUBSET Rows] /\ at' \in [Clients -> Nat]
        /\ list' \notin Offsets => at' \in [Clients -> Rows \cup {0}]
        /\ \E l \in {"asking", "ended"} : step' = [step EXCEPT ![c] = l]
        BY <1>1, <1>3, CachedProper, Shows
  <2>2. TypeOK' /\ Fresh'
        BY <1>1, <1>3, <2>1 DEF IInv, TypeOK, Fresh, Asks, Answered
  <2> QED BY <1>2, <2>1, <2>2 DEF IInv
<1>4. CASE step' = [step EXCEPT ![c] = "querying"] /\ UNCHANGED <<at, shown>>
  <2>1. TypeOK' /\ Fresh' /\ OwnRows'
        BY <1>1, <1>4 DEF IInv, TypeOK, Fresh, Asks, OwnRows
  <2> QED BY <1>2, <2>1 DEF IInv
<1> QED BY <1>3, <1>4 DEF Ask

\* A page goes under a key that promises no more than the page holds.
LEMMA StoreStep == ASSUME IInv, NEW c \in Clients, Store(c) PROVE IInv'
<1>1. /\ step[c] = "storing" /\ list \in Cached
      /\ UNCHANGED <<list, narrow, rows, changes, ask, start>>
      BY DEF Store, IInv, Fresh
<1>2. /\ Answered(c, held[c]) /\ held' = [held EXCEPT ![c] = {}]
      /\ held[c] \in SUBSET Rows /\ \A r \in held[c] : KeyOwns(ask[c], r)
      BY DEF Store, IInv, TypeOK, HeldOwn
<1>3. PICK last \in Rows \cup {0} :
        cache' = [cache EXCEPT ![StoreKey(c, last)] = {held[c]}]
      BY DEF Store
<1>4. StoreKey(c, last) \in Keys
      BY <1>1, KeysTyped
<1>5. \A r \in held[c] : KeyOwns(StoreKey(c, last), r)
  <2>1. ask[c] \in Asks
        BY <1>1 DEF IInv, Fresh
  <2>2. CASE list \in Wholes
        BY <1>2, <2>2 DEF KeyOwns, StoreKey, WholeKey, Wholes, Dated
  <2>3. CASE list = "rooms"
        BY <1>2, <2>3 DEF KeyOwns, StoreKey, RoomsKey, Wholes, Dated
  <2>4. CASE list \in {"bookings", "payments"}
        BY <1>2, <2>4 DEF KeyOwns, StoreKey, DateKey, Wholes, Scoped, Dated
  <2> QED BY <1>1, <2>2, <2>3, <2>4 DEF Cached
<1>6. CacheOwn' /\ HeldOwn'
      BY <1>1, <1>2, <1>3, <1>4, <1>5 DEF IInv, TypeOK, CacheOwn, KeyOwns,
                                          HeldOwn, Owns
<1>7. /\ OwnRows'
      /\ shown' \in [Clients -> SUBSET Rows] /\ at' \in [Clients -> Nat]
      /\ list' \notin Offsets => at' \in [Clients -> Rows \cup {0}]
      /\ \E l \in {"asking", "ended"} : step' = [step EXCEPT ![c] = l]
      BY <1>1, <1>2, Shows DEF Proper
<1>8. TypeOK' /\ Fresh'
      BY <1>1, <1>2, <1>3, <1>4, <1>7 DEF IInv, TypeOK, Fresh, Asks, Answered
<1> QED BY <1>6, <1>7, <1>8 DEF IInv

\* Rows come and go, clients begin, keys expire: no page is shown.
LEMMA OtherStep ==
  ASSUME IInv,
         \/ \E r \in Rows : Insert(r) \/ SellOut(r) \/ UpdateProfile(r)
         \/ \E c \in Clients : Begin(c)
         \/ \E k \in Keys : PageExpires(k)
         \/ UNCHANGED vars
  PROVE  IInv'
<1> USE PageAssumption
    DEF IInv, TypeOK, CacheOwn, KeyOwns, Fresh, HeldOwn, Owns, OwnRows, Asks
<1>1. ASSUME NEW r \in Rows, Insert(r) \/ SellOut(r) PROVE IInv'
      BY <1>1 DEF Insert, SellOut, Change
<1>5. ASSUME NEW r \in Rows, UpdateProfile(r) PROVE IInv'
      BY <1>5 DEF UpdateProfile, Change, Dated
<1>2. ASSUME NEW c \in Clients, Begin(c) PROVE IInv'
      BY <1>2 DEF Begin
<1>3. ASSUME NEW k \in Keys, PageExpires(k) PROVE IInv'
      BY <1>3 DEF PageExpires
<1>4. CASE UNCHANGED vars
      BY <1>4 DEF vars
<1> QED BY <1>1, <1>2, <1>3, <1>4, <1>5

\* The invariant holds throughout every behaviour.
THEOREM Invariance == Spec => []IInv
<1>1. IInv /\ [Next]_vars => IInv'
      BY AskStep, FindStep, StoreStep, OtherStep DEF Next, Goes
<1> QED BY <1>1, IInvInit, PTL DEF Spec

\* A client is shown only rows of its own hotel, room, stay or customer, and on a
\* dashboard only rows of the dates it asked for.
THEOREM OwnRowsShown == Spec => []OwnRows
<1>1. IInv => OwnRows
      BY DEF IInv
<1> QED BY <1>1, Invariance, PTL
-----------------------------------------------------------------------------
(* Walks.  Rows between a client's cursor and its page must be on the page *)
(* or have been shown, whoever stored the page.                            *)

Above(all, r) == Cardinality({s \in all : s > r})

\* The walk is past the row: rooms come oldest first, the rest newest first.
Passed(c, r) ==
  IF list \in Offsets THEN Above(Matching(c), r) < at[c] * PageSize
  ELSE IF list = "rooms" THEN r <= at[c]
  ELSE at[c] # 0 /\ at[c] <= r

\* The row comes after the page.
Beyond(c, page, r) ==
  IF list \in Offsets THEN (at[c] + 1) * PageSize <= Above(Matching(c), r)
  ELSE \A s \in page : IF list = "rooms" THEN s < r ELSE r < s

\* A page that continues a walk leaves out no row the walk owes.
Continues(c, page) ==
  \A r \in Due(c) :
    Passed(c, r) \/ r \in page \/ (page # {} /\ Beyond(c, page, r))

\* A dashboard's page is stored under its last row; a request for rooms that
\* names its limit is never answered from the cache.
CacheEnds ==
  \A k \in Keys :
    /\ list \in {"bookings", "payments"} => \A page \in cache[k] : IsLast(page, k.at)
    /\ list = "rooms" /\ k.limited => cache[k] = {}

StartStays ==
  \A c \in Clients :
    /\ step[c] = "idle" => at[c] = 0
    /\ list # "availability" => start[c] \subseteq rows

HeldContinues ==
  \A c \in Clients : step[c] = "storing" /\ Complete(ask[c]) => Continues(c, held[c])

PassedShown ==
  \A c \in Clients : step[c] # "idle" /\ Complete(ask[c]) =>
    \A r \in Due(c) : step[c] = "ended" \/ Passed(c, r) => r \in shown[c]

WalkInv == CacheEnds /\ StartStays /\ HeldContinues /\ PassedShown

\* Rows in the order of a dashboard, and of rooms.
Down == {p \in Rows \X Rows : p[1] > p[2]}
Up == {p \in Rows \X Rows : p[1] < p[2]}
-----------------------------------------------------------------------------
\* Both are orders of any part of the rows, which are finitely many.
LEMMA RowOrders ==
  ASSUME NEW S \in SUBSET Rows
  PROVE  /\ IsFiniteSet(S) /\ StrictOrder(Down, S) /\ StrictOrder(Up, S)
         /\ \A r \in Rows : /\ Rank(Down, S, r) = Above(S, r)
                            /\ Rank(Up, S, r) = Cardinality({s \in S : s < r})
<1>1. IsFiniteSet(S)
      BY RowsAssumption, FS_Subset
<1>2. StrictOrder(Down, S) /\ StrictOrder(Up, S)
      BY RowsAssumption DEF StrictOrder, Down, Up
<1>3. ASSUME NEW r \in Rows
      PROVE  /\ Ahead(Down, S, r) = {s \in S : s > r}
             /\ Ahead(Up, S, r) = {s \in S : s < r}
      BY DEF Ahead, Down, Up
<1> QED BY <1>1, <1>2, <1>3 DEF Rank, Above

\* How many rows come before a row is a number.
LEMMA AboveType ==
  ASSUME NEW S \in SUBSET Rows, NEW r \in Rows
  PROVE  Above(S, r) \in Nat
<1>1. IsFiniteSet(S) /\ Rank(Down, S, r) = Above(S, r)
      BY RowOrders
<1>2. Rank(Down, S, r) \in Nat
      BY <1>1, RankType
<1> QED BY <1>1, <1>2

\* A page of an offset list, against a row that shares its stamp with no other: a
\* row among the skipped ones is passed, one behind the page has a full page, at
\* least, and all that is skipped before it.
LEMMA AloneRow ==
  ASSUME NEW S \in SUBSET Rows, NEW n \in Nat, NEW page \in OffsetPages(S, n),
         NEW r \in S, \A s \in S \ {r} : CreatedAt[s] # CreatedAt[r]
  PROVE  \/ Above(S, r) < n * PageSize
         \/ r \in page
         \/ page # {} /\ (n + 1) * PageSize <= Above(S, r)
<1>1. PICK skipped \in FirstOf(S, n * PageSize) :
        skipped \cap page = {} /\ skipped \cup page \in FirstOf(S, (n + 1) * PageSize)
      BY DEF OffsetPages
<1>2. PICK k \in Nat : k = n * PageSize
      BY PageAssumption
<1>3. (n + 1) * PageSize = k + PageSize /\ PageSize \in Nat \ {0}
      BY <1>2, PageAssumption
<1>4. /\ IsFiniteSet(S) /\ Cardinality(S) \in Nat /\ Above(S, r) \in Nat
      /\ \A T \in SUBSET S : IsFiniteSet(T) /\ Cardinality(T) \in Nat
      BY RowOrders, AboveType, FS_Subset, FS_CardinalityType
<1>5. \A s \in S : /\ CreatedAt[s] <= CreatedAt[r] => ~(s > r)
                   /\ CreatedAt[r] <= CreatedAt[s] /\ s # r => s > r
  <2>1. SUFFICES ASSUME NEW s \in S
                 PROVE  /\ CreatedAt[s] <= CreatedAt[r] => ~(s > r)
                        /\ CreatedAt[r] <= CreatedAt[s] /\ s # r => s > r
        OBVIOUS
  <2>2. /\ s \in Nat /\ r \in Nat /\ CreatedAt[s] \in Nat /\ CreatedAt[r] \in Nat
        /\ s # r => CreatedAt[s] # CreatedAt[r]
        BY <2>1, RowsAssumption, StampAssumption
  <2>3. /\ r < s => CreatedAt[r] <= CreatedAt[s]
        /\ s < r => CreatedAt[s] <= CreatedAt[r]
        BY <2>1, StampAssumption
  <2> QED BY <2>2, <2>3
<1>6. \A s \in S : s \in Nat /\ CreatedAt[s] \in Nat
      BY RowsAssumption, StampAssumption
<1> DEFINE A == {s \in S : s > r}
<1>7. CASE r \in skipped
  <2>1. A \subseteq skipped
    <3>1. SUFFICES ASSUME NEW s \in S, s > r, s \notin skipped PROVE FALSE
          OBVIOUS
    <3>2. CreatedAt[s] <= CreatedAt[r]
          BY <1>1, <1>7, <3>1 DEF FirstOf
    <3> QED BY <1>5, <3>1, <3>2
  <2>2. A \in SUBSET skipped /\ A # skipped /\ IsFiniteSet(skipped)
        BY <1>1, <1>4, <1>6, <1>7, <2>1 DEF FirstOf
  <2>3. Cardinality(A) < Cardinality(skipped)
    <3>1. skipped \in SUBSET S /\ A \in SUBSET S
          BY <1>1 DEF FirstOf
    <3> HIDE DEF A
    <3>2. Cardinality(A) \in Nat /\ Cardinality(skipped) \in Nat
          BY <1>4, <3>1
    <3> QED BY <2>2, <3>2, FS_Subset
  <2>4. Cardinality(skipped) <= k /\ Cardinality(skipped) \in Nat
        BY <1>1, <1>2, <1>4 DEF FirstOf
  <2> QED BY <1>2, <1>4, <2>3, <2>4 DEF Above
<1>8. CASE r \notin skipped \cup page
  <2> DEFINE part == skipped \cup page
  <2>1. part \in SUBSET S
        BY <1>1 DEF FirstOf
  <2>2. \A x \in part : x \in A
    <3>1. SUFFICES ASSUME NEW x \in part, ~(x > r) PROVE FALSE
          BY <2>1
    <3>2. CreatedAt[r] <= CreatedAt[x]
          BY <1>1, <1>8, <3>1 DEF FirstOf
    <3>3. x \in S /\ x # r
          BY <1>8, <2>1, <3>1
    <3> QED BY <1>5, <3>1, <3>2, <3>3
  <2>3. Cardinality(part) <= Above(S, r) /\ Cardinality(part) \in Nat
    <3>1. A \in SUBSET S /\ part \in SUBSET A
          BY <2>2
    <3> QED BY <1>4, <3>1, FS_Subset DEF Above
  <2>4. Above(S, r) < Cardinality(S)
    <3>1. A \in SUBSET S /\ A # S
          BY <1>6
    <3> QED BY <1>4, <3>1, FS_Subset DEF Above
  <2>5. Cardinality(part) = IF Cardinality(S) < k + PageSize THEN Cardinality(S)
                                                            ELSE k + PageSize
        BY <1>1, <1>3 DEF FirstOf
  <2>6. k + PageSize <= Above(S, r)
    <3> HIDE DEF part
    <3> QED BY <1>3, <1>4, <2>3, <2>4, <2>5
  <2>7. ASSUME page = {} PROVE FALSE
    <3>1. Cardinality(skipped) = IF Cardinality(S) < k THEN Cardinality(S) ELSE k
          BY <1>1, <1>2 DEF FirstOf
    <3>2. skipped = part
          BY <2>7
    <3> HIDE DEF part
    <3> QED BY <1>3, <1>4, <2>4, <2>5, <2>6, <3>1, <3>2
  <2> QED BY <1>3, <2>6, <2>7
<1> QED BY <1>7, <1>8

\* The first page of a list, in either order, is empty only if the list is, and
\* no row that is left for later comes before one of the page.
LEMMA FirstPage ==
  ASSUME NEW S \in SUBSET Rows, NEW R, StrictOrder(R, S),
         NEW page, page = {r \in S : Rank(R, S, r) < PageSize}
  PROVE  /\ page = {} => S = {}
         /\ \A r \in S \ page, s \in page : <<s, r>> \in R
<1>1. IsFiniteSet(S) /\ PageSize \in Nat \ {0}
      BY RowOrders, PageAssumption
<1>2. ASSUME S # {} PROVE page # {}
  <2>1. PICK r \in S : Rank(R, S, r) = 0
        BY <1>1, <1>2, RankType, NoGap
  <2> QED BY <1>1, <2>1
<1>3. ASSUME NEW r \in S \ page, NEW s \in page PROVE <<s, r>> \in R
  <2>1. ~(Rank(R, S, r) < PageSize) /\ Rank(R, S, s) < PageSize /\ s \in S /\ r # s
        OBVIOUS
  <2>2. Rank(R, S, r) \in Nat /\ Rank(R, S, s) \in Nat
        BY <1>1, RankType
  <2>3. <<r, s>> \notin R
        BY <1>1, <2>1, <2>2, RankFollowsOrder
  <2> QED BY <2>1, <2>3 DEF StrictOrder
<1> QED BY <1>2, <1>3

\* A row's place in a walk depends on its client and the rows alone.
LEMMA Frame ==
  ASSUME NEW d, NEW r, UNCHANGED <<list, narrow, rows>>, at'[d] = at[d], ask'[d] = ask[d]
  PROVE  /\ Passed(d, r)' <=> Passed(d, r)
         /\ Owns(ask[d], r)' <=> Owns(ask[d], r)
         /\ \A page : Beyond(d, page, r)' <=> Beyond(d, page, r)
<1>1. Matching(d)' = Matching(d)
      BY DEF Matching, Owns
<1>2. Owns(ask[d], r)' <=> Owns(ask[d], r)
      BY DEF Owns
<1>3. Passed(d, r)' <=> Passed(d, r)
      BY <1>1 DEF Passed
<1>4. ASSUME NEW page PROVE Beyond(d, page, r)' <=> Beyond(d, page, r)
      BY <1>1 DEF Beyond
<1> QED BY <1>2, <1>3, <1>4

\* What a walk owes does not depend on how far it is.
LEMMA DueFrame ==
  ASSUME NEW d, UNCHANGED <<list, narrow, rows>>, ask'[d] = ask[d], start'[d] = start[d]
  PROVE  Due(d)' = Due(d)
<1>1. Matching(d)' = Matching(d) /\ \A r : Owns(ask[d], r)' <=> Owns(ask[d], r)
      BY DEF Matching, Owns
<1> QED BY <1>1 DEF Due, Alone

\* Rows of the start that the request asks for are still there.
LEMMA StartMatches ==
  ASSUME IInv, WalkInv, NEW c \in Clients, Complete(ask[c]),
         NEW r \in Due(c)
  PROVE  r \in Matching(c) /\ r \in Rows /\ Matching(c) \in SUBSET Rows
BY DEF IInv, TypeOK, WalkInv, StartStays, Complete, Wholes, Matching, Due

\* Queries that begin at the cursor continue a walk.
LEMMA OlderContinues ==
  ASSUME IInv, WalkInv, NEW c \in Clients, list = "bookings",
         Complete(ask[c])
  PROVE  Continues(c, Older(c))
<1>1. SUFFICES ASSUME NEW r \in Due(c)
               PROVE  Passed(c, r) \/ r \in Older(c)
      BY DEF Continues
<1>2. r \in Matching(c) /\ r \in Nat
      BY <1>1, StartMatches, RowsAssumption
<1>3. at[c] \in Nat
      BY DEF IInv, TypeOK
<1> QED BY <1>2, <1>3 DEF Passed, Older, Offsets

LEMMA PaymentsContinue ==
  ASSUME IInv, WalkInv, NEW c \in Clients, list = "payments", Complete(ask[c])
  PROVE  Continues(c, Newest(Older(c)))
<1> DEFINE rest == Older(c)
           page == Newest(rest)
<1>1. SUFFICES ASSUME NEW r \in Due(c)
               PROVE  Passed(c, r) \/ r \in page \/ (page # {} /\ Beyond(c, page, r))
      BY DEF Continues
<1>2. r \in Matching(c) /\ r \in Nat /\ at[c] \in Nat
      BY <1>1, StartMatches, RowsAssumption DEF IInv, TypeOK
<1>3. rest \in SUBSET Rows
      BY <1>1, StartMatches DEF Older
<1>4. StrictOrder(Down, rest) /\ page = {s \in rest : Rank(Down, rest, s) < PageSize}
  <2>1. /\ StrictOrder(Down, rest)
        /\ \A s \in rest : Rank(Down, rest, s) = Cardinality({x \in rest : x > s})
        BY <1>3, RowOrders DEF Above
  <2> QED BY <2>1 DEF Newest
<1>5. CASE r \notin rest
      BY <1>2, <1>5 DEF Passed, Older, Offsets
<1>6. CASE r \in rest /\ r \notin page
  <2>1. page # {} /\ \A s \in page : <<s, r>> \in Down
        BY <1>3, <1>4, <1>6, FirstPage
  <2>2. \A s \in page : r < s
        BY <1>3, <1>4, <1>6, <2>1, RowsAssumption DEF Down
  <2> QED BY <2>1, <2>2 DEF Beyond, Offsets
<1> QED BY <1>5, <1>6

LEMMA RoomsContinue ==
  ASSUME IInv, WalkInv, NEW c \in Clients, list = "rooms", Complete(ask[c])
  PROVE  Continues(c, Oldest(AfterTuple(c)))
<1> DEFINE rest == AfterTuple(c)
           page == Oldest(rest)
<1>1. SUFFICES ASSUME NEW r \in Due(c)
               PROVE  Passed(c, r) \/ r \in page \/ (page # {} /\ Beyond(c, page, r))
      BY DEF Continues
<1>2. r \in Matching(c) /\ r \in Nat /\ at[c] \in Nat
      BY <1>1, StartMatches, RowsAssumption DEF IInv, TypeOK
<1>3. rest \in SUBSET Rows
      BY <1>1, StartMatches DEF AfterTuple
<1>4. StrictOrder(Up, rest) /\ page = {s \in rest : Rank(Up, rest, s) < PageSize}
  <2>1. /\ StrictOrder(Up, rest)
        /\ \A s \in rest : Rank(Up, rest, s) = Cardinality({x \in rest : x < s})
        BY <1>3, RowOrders
  <2> QED BY <2>1 DEF Oldest
<1>5. CASE r \notin rest
      BY <1>2, <1>5 DEF Passed, AfterTuple, Offsets
<1>6. CASE r \in rest /\ r \notin page
  <2>1. page # {} /\ \A s \in page : <<s, r>> \in Up
        BY <1>3, <1>4, <1>6, FirstPage
  <2>2. \A s \in page : s < r
        BY <1>3, <1>4, <1>6, <2>1, RowsAssumption DEF Up
  <2> QED BY <2>1, <2>2 DEF Beyond, Offsets
<1> QED BY <1>5, <1>6

LEMMA OffsetsContinue ==
  ASSUME IInv, WalkInv, NEW c \in Clients, list \in Offsets, Complete(ask[c]),
         NEW page \in OffsetPages(Matching(c), at[c])
  PROVE  Continues(c, page)
<1>1. SUFFICES ASSUME NEW r \in Due(c)
               PROVE  Passed(c, r) \/ r \in page \/ (page # {} /\ Beyond(c, page, r))
      BY DEF Continues
<1>2. /\ r \in Matching(c) /\ Matching(c) \in SUBSET Rows /\ at[c] \in Nat
      BY <1>1, StartMatches DEF IInv, TypeOK
<1>3. \A s \in Matching(c) \ {r} : CreatedAt[s] # CreatedAt[r]
      BY <1>1 DEF Due, Alone
<1> QED BY <1>2, <1>3, AloneRow DEF Passed, Beyond

\* A client that goes on from a page that continues its walk has been shown all
\* it is past, and all there was if that page is the last.
LEMMA ShowsPassed ==
  ASSUME IInv, WalkInv, NEW c \in Clients, step[c] # "idle", Complete(ask[c]),
         NEW page \in SUBSET Rows, Continues(c, page), Answered(c, page),
         UNCHANGED <<list, narrow, rows, ask>>,
         NEW r \in Due(c), step'[c] = "ended" \/ Passed(c, r)'
  PROVE  r \in shown'[c]
<1>1. shown'[c] = shown[c] \cup page
      BY DEF Answered, IInv, TypeOK
<1>2. Passed(c, r) => r \in shown[c]
      BY DEF WalkInv, PassedShown
<1>3. Matching(c)' = Matching(c) /\ list \notin Wholes
      BY DEF Matching, Owns, Complete
<1>4. at[c] \in Nat /\ r \in Nat
      BY StartMatches, RowsAssumption DEF IInv, TypeOK
<1>5. CASE page = {}
      BY <1>1, <1>2, <1>5 DEF Continues
<1>6. CASE page # {} /\ list \in Offsets
  <2>1. step'[c] = "asking" /\ at'[c] = at[c] + 1
        BY <1>3, <1>6 DEF Answered, IInv, TypeOK
  <2>2. Above(Matching(c), r) < (at[c] + 1) * PageSize
        BY <1>3, <1>6, <2>1 DEF Passed
  <2>3. Above(Matching(c), r) \in Nat /\ (at[c] + 1) * PageSize \in Nat
        BY <1>4, StartMatches, AboveType, PageAssumption
  <2>4. ~Beyond(c, page, r)
        BY <1>6, <2>2, <2>3 DEF Beyond
  <2> QED BY <1>1, <1>2, <2>4 DEF Continues
<1>7. CASE page # {} /\ list \notin Offsets
  <2>1. PICK last \in page : IsLast(page, last) /\ at' = [at EXCEPT ![c] = last]
        BY <1>3, <1>7 DEF Answered
  <2>2. step'[c] = "asking" /\ at'[c] = last /\ last \in Nat
        BY <1>3, <1>7, <2>1, RowsAssumption DEF Answered, IInv, TypeOK
  <2>3. IF list = "rooms" THEN r <= last ELSE last <= r
        BY <1>7, <2>2 DEF Passed
  <2>4. ~Beyond(c, page, r)
        BY <1>4, <1>7, <2>1, <2>2, <2>3 DEF Beyond
  <2> QED BY <1>1, <1>2, <2>4 DEF Continues
<1> QED BY <1>5, <1>6, <1>7

\* Showing a page that continues the walk keeps what is claimed of walks.
LEMMA ShowsWalk ==
  ASSUME IInv, WalkInv, NEW c \in Clients, step[c] # "idle",
         NEW page \in SUBSET Rows, Complete(ask[c]) => Continues(c, page),
         Answered(c, page), UNCHANGED <<list, narrow, rows, ask, start>>,
         \A d \in Clients \ {c} : held'[d] = held[d]
  PROVE  StartStays' /\ HeldContinues' /\ PassedShown'
<1>1. step'[c] \in {"asking", "ended"}
      BY DEF Answered, IInv, TypeOK
<1>2. ASSUME NEW d \in Clients \ {c}
      PROVE  step'[d] = step[d] /\ at'[d] = at[d] /\ shown'[d] = shown[d]
      BY DEF Answered, IInv, TypeOK
<1>3. StartStays'
      BY <1>1, <1>2 DEF WalkInv, StartStays
<1>4. HeldContinues'
  <2>1. SUFFICES ASSUME NEW d \in Clients, step'[d] = "storing", Complete(ask[d])'
                 PROVE  Continues(d, held[d])'
        BY DEF HeldContinues
  <2>2. d # c /\ step[d] = "storing" /\ Complete(ask[d])
        BY <1>1, <1>2, <2>1 DEF Complete
  <2>3. Continues(d, held[d])
        BY <2>2 DEF WalkInv, HeldContinues
  <2> QED BY <1>2, <2>2, <2>3, Frame, DueFrame DEF Continues
<1>5. PassedShown'
  <2>1. SUFFICES ASSUME NEW d \in Clients, step'[d] # "idle", Complete(ask[d])',
                        NEW r \in Due(d)',
                        step'[d] = "ended" \/ Passed(d, r)'
                 PROVE  r \in shown'[d]
        BY DEF PassedShown
  <2>2. Complete(ask[d]) /\ r \in Due(d)
        BY <2>1, DueFrame DEF Complete
  <2>3. CASE d = c
        BY <2>1, <2>2, <2>3, ShowsPassed
  <2>4. CASE d # c
        BY <1>2, <2>1, <2>2, <2>4, Frame, DueFrame DEF WalkInv, PassedShown
  <2> QED BY <2>3, <2>4
<1> QED BY <1>3, <1>4, <1>5
-----------------------------------------------------------------------------
\* There is no walk before the first request.
LEMMA WalkInit == Init => WalkInv
BY DEF Init, WalkInv, CacheEnds, StartStays, HeldContinues, PassedShown

\* A query's answer continues the walk, whether it is stored first or not.
LEMMA FoundWalk ==
  ASSUME IInv, WalkInv, NEW c \in Clients, NEW page \in SUBSET Matching(c),
         NEW stored \in BOOLEAN, Found(c, page, stored),
         Complete(ask[c]) => Continues(c, page)
  PROVE  WalkInv'
<1>1. /\ page \in SUBSET Rows /\ step[c] = "querying"
      /\ UNCHANGED <<list, narrow, rows, changes, cache, ask, start>>
      BY DEF IInv, TypeOK, Matching, Found
<1>2. CacheEnds'
      BY <1>1 DEF WalkInv, CacheEnds, IsLast
<1>3. CASE stored
  <2>1. /\ held' = [held EXCEPT ![c] = page]
        /\ step' = [step EXCEPT ![c] = "storing"] /\ UNCHANGED <<at, shown>>
        BY <1>3 DEF Found
  <2>2. StartStays'
        BY <1>1, <2>1 DEF IInv, TypeOK, WalkInv, StartStays
  <2>3. ASSUME NEW d \in Clients, step'[d] = "storing", Complete(ask[d])'
        PROVE  Continues(d, held[d])'
    <3>1. Complete(ask[d])
          BY <1>1, <2>3 DEF Complete
    <3>2. Continues(d, held'[d])
          BY <2>1, <2>3, <3>1 DEF IInv, TypeOK, WalkInv, HeldContinues
    <3> QED BY <1>1, <2>1, <3>2, Frame, DueFrame DEF Continues
  <2>4. PassedShown'
    <3>1. SUFFICES ASSUME NEW d \in Clients, step'[d] # "idle", Complete(ask[d])',
                          NEW r \in Due(d)',
                          step'[d] = "ended" \/ Passed(d, r)'
                   PROVE  r \in shown[d]
          BY <1>1, <2>1 DEF PassedShown
    <3>2. /\ Complete(ask[d]) /\ r \in Due(d) /\ step[d] # "idle"
          /\ step[d] = "ended" \/ Passed(d, r)
          BY <1>1, <2>1, <3>1, Frame, DueFrame DEF Complete, IInv, TypeOK
    <3> QED BY <3>1, <3>2 DEF WalkInv, PassedShown
  <2> QED BY <1>2, <2>2, <2>3, <2>4 DEF WalkInv, HeldContinues
<1>4. CASE ~stored
  <2>1. Answered(c, page) /\ UNCHANGED held
        BY <1>4 DEF Found
  <2>2. StartStays' /\ HeldContinues' /\ PassedShown'
        BY <1>1, <2>1, ShowsWalk
  <2> QED BY <1>2, <2>2 DEF WalkInv
<1> QED BY <1>3, <1>4

\* Every query of every list that is walked.
LEMMA FindWalk == ASSUME IInv, WalkInv, NEW c \in Clients, Find(c) PROVE WalkInv'
<1>1. CASE FindBookings(c)
  <2>1. Older(c) \in SUBSET Matching(c) /\ list = "bookings"
        BY <1>1 DEF Older, FindBookings
  <2>2. Found(c, Older(c), Older(c) # {})
        BY <1>1 DEF FindBookings
  <2> QED BY <2>1, <2>2, OlderContinues, FoundWalk
<1>3. CASE FindPayments(c)
  <2> DEFINE page == Newest(Older(c))
  <2>1. page \in SUBSET Matching(c) /\ list = "payments"
        BY <1>3 DEF Newest, Older, FindPayments
  <2>2. Found(c, page, page # {})
        BY <1>3 DEF FindPayments
  <2>3. Complete(ask[c]) => Continues(c, page)
        BY <2>1, PaymentsContinue
  <2> HIDE DEF page
  <2> QED BY <2>1, <2>2, <2>3, FoundWalk
<1>4. CASE FindRooms(c)
  <2> DEFINE page == Oldest(AfterTuple(c))
  <2>1. page \in SUBSET Matching(c) /\ list = "rooms"
        BY <1>4 DEF Oldest, AfterTuple, FindRooms
  <2>2. Found(c, page, page # {})
        BY <1>4 DEF FindRooms
  <2>3. Complete(ask[c]) => Continues(c, page)
        BY <2>1, RoomsContinue
  <2> HIDE DEF page
  <2> QED BY <2>1, <2>2, <2>3, FoundWalk
<1>5. CASE FindUsers(c) \/ FindReviews(c) \/ FindMyBookings(c)
  <2>1. PICK page \in OffsetPages(Matching(c), at[c]) : Found(c, page, FALSE)
        BY <1>5 DEF FindUsers, FindReviews, FindMyBookings
  <2>2. page \in SUBSET Matching(c) /\ list \in Offsets
        BY <1>5 DEF OffsetPages, FindUsers, FindReviews, FindMyBookings, Offsets
  <2> QED BY <2>1, <2>2, OffsetsContinue, FoundWalk
<1>6. CASE FindHotel(c) \/ FindHotelFacilities(c) \/ FindRoomFacilities(c)
  <2>1. ~Complete(ask[c]) /\ \E stored \in BOOLEAN : Found(c, Matching(c), stored)
        BY <1>6 DEF FindHotel, FindHotelFacilities, FindRoomFacilities, Complete,
                    Wholes
  <2> QED BY <2>1, FoundWalk
<1>7. CASE FindDestinations(c) \/ CheckAvailability(c)
  <2>1. ~Complete(ask[c]) /\ Found(c, Matching(c), TRUE)
        BY <1>7 DEF FindDestinations, CheckAvailability, Complete, Wholes
  <2> QED BY <2>1, FoundWalk
<1>8. CASE FindMyPayments(c)
  <2>1. ~Complete(ask[c]) /\ \E page \in SUBSET Matching(c) : Found(c, page, FALSE)
        BY <1>8 DEF FindMyPayments, Complete
  <2> QED BY <2>1, FoundWalk
<1>9. CASE StayRefused(c)
  <2>1. \A d : ~Complete(ask[d]) /\ ~Complete(ask[d])'
        BY <1>9 DEF StayRefused, Complete, Wholes
  <2>2. CacheEnds' /\ StartStays'
        BY <1>9 DEF StayRefused, IInv, TypeOK, WalkInv, CacheEnds, IsLast, StartStays
  <2> QED BY <2>1, <2>2 DEF WalkInv, HeldContinues, PassedShown
<1> QED BY <1>1, <1>3, <1>4, <1>5, <1>6, <1>7, <1>8, <1>9 DEF Find

\* A dashboard's page that answers the request for the next one ends at the
\* request's own cursor: the client stays where it is.
LEMMA CachedContinues ==
  ASSUME IInv, WalkInv, NEW c \in Clients, step[c] # "idle", list \in Cached,
         Complete(ask[c]), NEW page \in cache[ReadKey(c)]
  PROVE  Continues(c, page)
<1>1. ReadKey(c) \in Keys /\ page \in SUBSET Rows
      BY KeysTyped, CachedProper DEF Proper
<1>2. list # "rooms" /\ list \notin Wholes
  <2>1. list \notin Wholes
        BY DEF Complete
  <2>2. list = "rooms" => ReadKey(c).limited
        BY <2>1 DEF Complete, ReadKey, RoomsKey
  <2> QED BY <1>1, <2>1, <2>2 DEF WalkInv, CacheEnds
<1>3. IsLast(page, at[c])
  <2>1. ReadKey(c).at = at[c] /\ list \in {"bookings", "payments"}
        BY <1>2 DEF ReadKey, DateKey, Cached
  <2> QED BY <1>1, <2>1 DEF WalkInv, CacheEnds
<1>4. ASSUME NEW r \in Due(c)
      PROVE  Passed(c, r) \/ (page # {} /\ Beyond(c, page, r))
  <2>1. r \in Nat /\ at[c] \in Nat \ {0} /\ page \in SUBSET Nat
        BY <1>1, <1>3, <1>4, StartMatches, RowsAssumption DEF IsLast
  <2>2. list \notin Offsets
        BY DEF Cached, Offsets, Wholes
  <2> QED BY <1>2, <1>3, <2>1, <2>2 DEF IsLast, Passed, Beyond
<1> QED BY <1>4 DEF Continues

\* A request looks in the cache.
LEMMA AskWalk == ASSUME IInv, WalkInv, NEW c \in Clients, Ask(c) PROVE WalkInv'
<1>1. step[c] = "asking" /\ UNCHANGED <<list, narrow, rows, changes, cache, ask, held, start>>
      BY DEF Ask
<1>2. CacheEnds'
      BY <1>1 DEF WalkInv, CacheEnds, IsLast
<1>3. ASSUME list \in Cached, NEW page \in cache[ReadKey(c)], Answered(c, page)
      PROVE  WalkInv'
  <2>1. page \in SUBSET Rows /\ (Complete(ask[c]) => Continues(c, page))
        BY <1>1, <1>3, CachedProper, CachedContinues DEF Proper
  <2>2. StartStays' /\ HeldContinues' /\ PassedShown'
        BY <1>1, <1>3, <2>1, ShowsWalk
  <2> QED BY <1>2, <2>2 DEF WalkInv
<1>4. CASE step' = [step EXCEPT ![c] = "querying"] /\ UNCHANGED <<at, shown>>
  <2>1. StartStays'
        BY <1>1, <1>4 DEF IInv, TypeOK, WalkInv, StartStays
  <2>2. ASSUME NEW d \in Clients, step'[d] = "storing", Complete(ask[d])'
        PROVE  Continues(d, held[d])'
    <3>1. Continues(d, held[d])
          BY <1>1, <1>4, <2>2 DEF IInv, TypeOK, WalkInv, HeldContinues, Complete
    <3> QED BY <1>1, <1>4, <3>1, Frame, DueFrame DEF Continues
  <2>3. ASSUME NEW d \in Clients, step'[d] # "idle", Complete(ask[d])',
               NEW r \in Due(d)',
               step'[d] = "ended" \/ Passed(d, r)'
        PROVE  r \in shown[d]
    <3>1. /\ Complete(ask[d]) /\ r \in Due(d) /\ step[d] # "idle"
          /\ step[d] = "ended" \/ Passed(d, r)
          BY <1>1, <1>4, <2>3, Frame, DueFrame DEF Complete, IInv, TypeOK
    <3> QED BY <2>3, <3>1 DEF WalkInv, PassedShown
  <2> QED BY <1>1, <1>2, <1>4, <2>1, <2>2, <2>3
          DEF WalkInv, HeldContinues, PassedShown
<1> QED BY <1>3, <1>4 DEF Ask

\* A page is stored under its last row, and shown.
LEMMA StoreWalk == ASSUME IInv, WalkInv, NEW c \in Clients, Store(c) PROVE WalkInv'
<1>1. /\ step[c] = "storing" /\ list \in Cached
      /\ UNCHANGED <<list, narrow, rows, changes, ask, start>>
      BY DEF Store, IInv, Fresh
<1>2. /\ Answered(c, held[c]) /\ held' = [held EXCEPT ![c] = {}]
      /\ held[c] \in SUBSET Rows
      BY DEF Store, IInv, TypeOK
<1>3. Complete(ask[c]) => Continues(c, held[c])
      BY <1>1 DEF WalkInv, HeldContinues
<1>4. StartStays' /\ HeldContinues' /\ PassedShown'
      BY <1>1, <1>2, <1>3, ShowsWalk DEF IInv, TypeOK
<1>5. CacheEnds'
  <2>1. PICK last \in Rows \cup {0} :
          /\ IsLast(held[c], last) \/ (list \in Wholes /\ last = 0)
          /\ cache' = [cache EXCEPT ![StoreKey(c, last)] = {held[c]}]
        BY DEF Store
  <2>2. StoreKey(c, last) \in Keys
        BY <1>1, KeysTyped
  <2>3. list \in {"bookings", "payments"} =>
          StoreKey(c, last).at = last /\ IsLast(held[c], last)
        BY <2>1 DEF StoreKey, DateKey, Wholes
  <2>4. list = "rooms" => StoreKey(c, last).limited = FALSE
        BY DEF StoreKey, RoomsKey, Wholes
  <2> QED BY <1>1, <2>1, <2>2, <2>3, <2>4 DEF IInv, TypeOK, WalkInv, CacheEnds, IsLast
<1> QED BY <1>4, <1>5 DEF WalkInv

\* A row that comes moves the others of an offset list down, never up, and another
\* profile changes no list that is not searched.
LEMMA RowsWalk ==
  ASSUME IInv, WalkInv, NEW x \in Rows, Insert(x) \/ SellOut(x) \/ UpdateProfile(x)
  PROVE  WalkInv'
<1>1. UNCHANGED <<list, cache, step, ask, at, held, start, shown>>
      BY DEF Insert, SellOut, UpdateProfile
<1>2. CacheEnds'
      BY <1>1 DEF WalkInv, CacheEnds, IsLast
<1>3. StartStays' /\ (list # "availability" => rows \subseteq rows')
      BY <1>1 DEF Insert, SellOut, UpdateProfile, WalkInv, StartStays
<1>4. ASSUME NEW d \in Clients, Complete(ask[d])
      PROVE  /\ Matching(d) \in SUBSET Matching(d)' /\ Matching(d)' \in SUBSET Rows
             /\ \A r : Owns(ask[d], r)' <=> Owns(ask[d], r)
             /\ Due(d)' \in SUBSET Due(d)
  <2>1. \A r : Owns(ask[d], r)' <=> Owns(ask[d], r)
    <3>1. CASE UNCHANGED narrow
          BY <1>1, <3>1 DEF Owns
    <3>2. CASE UpdateProfile(x)
          BY <1>1, <1>4, <3>2 DEF Owns, UpdateProfile, Complete
    <3> QED BY <3>1, <3>2 DEF Insert, SellOut
  <2>2. list # "availability" /\ rows' \subseteq Rows
        BY <1>4 DEF Complete, Wholes, IInv, TypeOK, Insert, SellOut, UpdateProfile
  <2>3. Matching(d) \in SUBSET Matching(d)' /\ Matching(d)' \in SUBSET Rows
    <3>1. Matching(d)' = {r \in rows' : Owns(ask[d], r)'}
          BY DEF Matching
    <3> QED BY <1>3, <2>1, <2>2, <3>1 DEF Matching
  <2>4. ASSUME NEW r \in Due(d)' PROVE r \in Due(d)
    <3>1. r \in start[d] /\ Owns(ask[d], r)
          BY <1>1, <2>1, <2>4 DEF Due
    <3>2. list \in Offsets => \A s \in Matching(d)' \ {r} : CreatedAt[s] # CreatedAt[r]
          BY <1>1, <2>4 DEF Due, Alone
    <3> QED BY <2>3, <3>1, <3>2 DEF Due, Alone
  <2> QED BY <2>1, <2>3, <2>4
<1>5. ASSUME NEW d \in Clients, Complete(ask[d]), NEW r \in Due(d)
      PROVE  Passed(d, r)' => Passed(d, r)
  <2>1. Matching(d) \in SUBSET Matching(d)' /\ Matching(d)' \in SUBSET Rows
        BY <1>4, <1>5
  <2>2. r \in Rows /\ at[d] \in Nat
        BY <1>5, StartMatches DEF IInv, TypeOK
  <2>3. Above(Matching(d), r) <= Above(Matching(d)', r)
    <3>1. /\ IsFiniteSet(Matching(d)')
          /\ Rank(Down, Matching(d), r) = Above(Matching(d), r)
          /\ Rank(Down, Matching(d)', r) = Above(Matching(d)', r)
          BY <2>1, <2>2, RowOrders
    <3>2. Rank(Down, Matching(d), r) <= Rank(Down, Matching(d)', r)
          BY <2>1, <3>1, RankGrows
    <3> QED BY <3>1, <3>2
  <2>4. /\ Above(Matching(d), r) \in Nat /\ Above(Matching(d)', r) \in Nat
        /\ at[d] * PageSize \in Nat
        BY <2>1, <2>2, AboveType, PageAssumption
  <2>5. Above(Matching(d), r)' = Above(Matching(d)', r)
        BY DEF Above
  <2> QED BY <1>1, <2>3, <2>4, <2>5 DEF Passed
<1>6. HeldContinues'
  <2>1. SUFFICES ASSUME NEW d \in Clients, step[d] = "storing", Complete(ask[d]),
                        NEW r \in Due(d)'
                 PROVE  \/ Passed(d, r)' \/ r \in held[d]
                        \/ held[d] # {} /\ Beyond(d, held[d], r)'
        BY <1>1 DEF HeldContinues, Continues, Complete
  <2>2. r \in Due(d)
        BY <1>4, <2>1
  <2>3. Passed(d, r) \/ r \in held[d] \/ (held[d] # {} /\ Beyond(d, held[d], r))
        BY <2>1, <2>2 DEF WalkInv, HeldContinues, Continues
  <2>4. list \notin Offsets
        BY <2>1 DEF IInv, Fresh, Cached, Offsets, Wholes
  <2> QED BY <1>1, <2>3, <2>4 DEF Passed, Beyond
<1>7. PassedShown'
  <2>1. SUFFICES ASSUME NEW d \in Clients, step[d] # "idle", Complete(ask[d]),
                        NEW r \in Due(d)',
                        step[d] = "ended" \/ Passed(d, r)'
                 PROVE  r \in shown[d]
        BY <1>1 DEF PassedShown, Complete
  <2>2. r \in Due(d)
        BY <1>4, <2>1
  <2> QED BY <1>5, <2>1, <2>2 DEF WalkInv, PassedShown
<1> QED BY <1>2, <1>3, <1>6, <1>7 DEF WalkInv

\* A client that begins is past nothing.
LEMMA BeginWalk == ASSUME IInv, WalkInv, NEW c \in Clients, Begin(c) PROVE WalkInv'
<1>1. /\ step[c] = "idle" /\ step' = [step EXCEPT ![c] = "asking"]
      /\ start' = [start EXCEPT ![c] = rows]
      /\ UNCHANGED <<list, narrow, rows, changes, cache, at, held, shown>>
      BY DEF Begin
<1>2. PICK a \in Asks : ask' = [ask EXCEPT ![c] = a]
      BY DEF Begin
<1>3. CacheEnds' /\ StartStays'
      BY <1>1 DEF IInv, TypeOK, WalkInv, CacheEnds, IsLast, StartStays
<1>4. ASSUME NEW d \in Clients \ {c}
      PROVE  step'[d] = step[d] /\ start'[d] = start[d] /\ ask'[d] = ask[d]
      BY <1>1, <1>2 DEF IInv, TypeOK
<1>5. HeldContinues'
  <2>1. SUFFICES ASSUME NEW d \in Clients, step'[d] = "storing", Complete(ask[d])'
                 PROVE  Continues(d, held[d])'
        BY DEF HeldContinues
  <2>2. d # c
        BY <1>1, <2>1 DEF IInv, TypeOK
  <2>3. Continues(d, held[d])
        BY <1>1, <1>4, <2>1, <2>2 DEF WalkInv, HeldContinues, Complete
  <2> QED BY <1>1, <1>4, <2>2, <2>3, Frame, DueFrame DEF Continues
<1>6. PassedShown'
  <2>1. SUFFICES ASSUME NEW d \in Clients, step'[d] # "idle", Complete(ask[d])',
                        NEW r \in Due(d)',
                        step'[d] = "ended" \/ Passed(d, r)'
                 PROVE  r \in shown[d]
        BY <1>1 DEF PassedShown
  <2>2. CASE d = c
    <3>1. at'[c] = 0 /\ step'[c] = "asking" /\ r \in rows /\ r \in Nat \ {0}
          BY <1>1, <2>1, <2>2, RowsAssumption DEF IInv, TypeOK, WalkInv, StartStays, Due
    <3>2. Passed(c, r)' /\ list \in Offsets
          BY <1>1, <2>1, <2>2, <3>1 DEF Passed
    <3>3. Above(Matching(c)', r) < 0
      <4>1. 0 * PageSize = 0
            BY PageAssumption
      <4> QED BY <1>1, <3>1, <3>2, <4>1 DEF Passed, Above
    <3>4. Above(Matching(c)', r) \in Nat
      <4>1. Matching(c)' \in SUBSET Rows /\ r \in Rows
            BY <1>1, <3>1 DEF Matching, IInv, TypeOK
      <4> QED BY <4>1, AboveType
    <3> QED BY <3>3, <3>4
  <2>3. CASE d # c
    <3>1. /\ Complete(ask[d]) /\ r \in Due(d) /\ step[d] # "idle"
          /\ step[d] = "ended" \/ Passed(d, r)
          BY <1>1, <1>4, <2>1, <2>3, Frame, DueFrame DEF Complete
    <3> QED BY <1>4, <2>1, <2>3, <3>1 DEF WalkInv, PassedShown
  <2> QED BY <2>2, <2>3
<1> QED BY <1>3, <1>5, <1>6 DEF WalkInv

\* A key expires, or nothing happens.
LEMMA ExpiryWalk ==
  ASSUME IInv, WalkInv, (\E k \in Keys : PageExpires(k)) \/ UNCHANGED vars
  PROVE  WalkInv'
<1>1. UNCHANGED <<list, narrow, rows, step, ask, at, held, start, shown>>
      BY DEF PageExpires, vars
<1>2. \A k \in Keys : cache'[k] \subseteq cache[k]
      BY DEF PageExpires, vars, IInv, TypeOK
<1>3. CacheEnds' /\ StartStays'
      BY <1>1, <1>2 DEF WalkInv, CacheEnds, IsLast, StartStays
<1>4. HeldContinues'
      BY <1>1, Frame, DueFrame DEF WalkInv, HeldContinues, Continues, Complete
<1>5. PassedShown'
      BY <1>1, Frame, DueFrame DEF WalkInv, PassedShown, Complete
<1> QED BY <1>3, <1>4, <1>5 DEF WalkInv

\* What is claimed of walks holds throughout every behaviour.
THEOREM WalkInvariance == Spec => []WalkInv
<1>1. IInv /\ WalkInv /\ [Next]_vars => WalkInv'
      BY AskWalk, FindWalk, StoreWalk, RowsWalk, BeginWalk, ExpiryWalk
      DEF Next, Goes
<1> QED BY <1>1, WalkInit, Invariance, PTL DEF Spec

\* A walk that reaches its end has shown every row that was there when it began (in
\* a list ordered by createdAt alone, every one whose stamp no other row shares),
\* whatever came meanwhile and whatever other clients stored under its keys.
THEOREM WalksAreComplete == Spec => []WalkComplete
<1>1. WalkInv => WalkComplete
      BY DEF WalkInv, PassedShown, WalkComplete
<1> QED BY <1>1, WalkInvariance, PTL
=============================================================================
