------------------------------- MODULE Paging -------------------------------
(***************************************************************************)
(* What the pages of a finite list have in common, whatever its order: the *)
(* lemmas the proofs about Catalog and Listings rest on.  An order is a    *)
(* set of pairs <<x, y>>, x before y.                                      *)
(***************************************************************************)
EXTENDS FiniteSetTheorems, TLAPS

StrictOrder(R, S) ==
  /\ \A x \in S : <<x, x>> \notin R
  /\ \A x, y \in S : x = y \/ <<x, y>> \in R \/ <<y, x>> \in R
  /\ \A x, y, z \in S : <<x, y>> \in R /\ <<y, z>> \in R => <<x, z>> \in R

Ahead(R, S, x) == {y \in S : <<y, x>> \in R}
\* The place of x in the list S, from 0 on.
Rank(R, S, x) == Cardinality(Ahead(R, S, x))
-----------------------------------------------------------------------------
\* A set of natural numbers that is not empty has a least element.
LEMMA LeastNatural ==
  ASSUME NEW T \in SUBSET Nat, T # {}
  PROVE  \E x \in T : \A y \in T : x <= y
<1>1. PICK x \in T : \A y \in T : <<y, x>> \notin OpToRel(<, Nat)
      BY NatLessThanWellFounded, WFMin
<1>2. \A y \in T : ~(y < x)
      BY <1>1 DEF OpToRel
<1> QED BY <1>2

\* Every element of a finite list has a place.
LEMMA RankType ==
  ASSUME NEW R, NEW S, IsFiniteSet(S), NEW x
  PROVE  IsFiniteSet(Ahead(R, S, x)) /\ Rank(R, S, x) \in Nat
<1>1. Ahead(R, S, x) \in SUBSET S
      BY DEF Ahead
<1> QED BY <1>1, FS_Subset, FS_CardinalityType DEF Rank

\* Places follow the order.
LEMMA RankFollowsOrder ==
  ASSUME NEW R, NEW S, IsFiniteSet(S), StrictOrder(R, S),
         NEW x \in S, NEW y \in S, <<x, y>> \in R
  PROVE  Rank(R, S, x) < Rank(R, S, y)
<1>1. Ahead(R, S, x) \in SUBSET Ahead(R, S, y)
      BY DEF Ahead, StrictOrder
<1>2. Ahead(R, S, x) # Ahead(R, S, y)
      BY DEF Ahead, StrictOrder
<1>3. Rank(R, S, x) \in Nat /\ Rank(R, S, y) \in Nat /\ IsFiniteSet(Ahead(R, S, y))
      BY RankType
<1> QED BY <1>1, <1>2, <1>3, FS_Subset DEF Rank

\* A row that joins the list moves no other to an earlier place.
LEMMA RankGrows ==
  ASSUME NEW R, NEW S, IsFiniteSet(S), NEW T \in SUBSET S, NEW x
  PROVE  Rank(R, T, x) <= Rank(R, S, x)
<1>1. Ahead(R, T, x) \in SUBSET Ahead(R, S, x)
      BY DEF Ahead
<1> QED BY <1>1, RankType, FS_Subset DEF Rank

\* A part of a list that is not empty has a first element.
LEMMA FirstExists ==
  ASSUME NEW R, NEW S, IsFiniteSet(S), StrictOrder(R, S), NEW T \in SUBSET S, T # {}
  PROVE  \E x \in T : \A y \in T \ {x} : <<x, y>> \in R
<1> DEFINE Ranks == {Rank(R, S, x) : x \in T}
<1>1. Ranks \in SUBSET Nat /\ Ranks # {}
      BY RankType
<1>2. PICK n \in Ranks : \A m \in Ranks : n <= m
      BY <1>1, LeastNatural
<1>3. PICK x \in T : n = Rank(R, S, x)
      BY DEF Ranks
<1>4. ASSUME NEW y \in T \ {x} PROVE <<x, y>> \in R
  <2>1. Rank(R, S, x) <= Rank(R, S, y)
        BY <1>2, <1>3 DEF Ranks
  <2>2. <<y, x>> \in R => Rank(R, S, y) < Rank(R, S, x)
        BY RankFollowsOrder
  <2>3. <<y, x>> \notin R
        BY <2>1, <2>2, RankType
  <2> QED BY <2>3 DEF StrictOrder
<1> QED BY <1>4

\* The reverse of an order is one; so a part that is not empty has a last element.
LEMMA LastExists ==
  ASSUME NEW R, NEW S, IsFiniteSet(S), StrictOrder(R, S), NEW T \in SUBSET S, T # {}
  PROVE  \E x \in T : \A y \in T \ {x} : <<y, x>> \in R
<1> DEFINE Reverse == {p \in S \X S : <<p[2], p[1]>> \in R}
<1>1. \A x, y \in S : <<x, y>> \in Reverse <=> <<y, x>> \in R
      OBVIOUS
<1> HIDE DEF Reverse
<1>2. StrictOrder(Reverse, S)
      BY <1>1 DEF StrictOrder
<1>3. PICK x \in T : \A y \in T \ {x} : <<x, y>> \in Reverse
      BY <1>2, FirstExists
<1> QED BY <1>1, <1>3

\* Places have no gap: a list with an element at or behind a place has one there.
LEMMA NoGap ==
  ASSUME NEW R, NEW S, IsFiniteSet(S), StrictOrder(R, S), NEW k \in Nat,
         NEW z \in S, Rank(R, S, z) >= k
  PROVE  \E x \in S : Rank(R, S, x) = k
<1> DEFINE T == {x \in S : Rank(R, S, x) >= k}
<1>1. PICK x \in T : \A y \in T \ {x} : <<x, y>> \in R
  <2>1. T \in SUBSET S /\ T # {}
        OBVIOUS
  <2> HIDE DEF T
  <2> QED BY <2>1, FirstExists
<1>2. CASE Rank(R, S, x) = k
      BY <1>2
<1>3. CASE Rank(R, S, x) # k
  <2> DEFINE A == Ahead(R, S, x)
  <2>1. /\ IsFiniteSet(A) /\ Cardinality(A) > k /\ Cardinality(A) \in Nat
        /\ A \in SUBSET S
    <3>1. Rank(R, S, x) \in Nat /\ Rank(R, S, x) > k
          BY <1>3, RankType
    <3>2. IsFiniteSet(A)
          BY RankType
    <3> QED BY <3>1, <3>2 DEF Rank, Ahead
  <2>2. A # {}
        BY <2>1, FS_EmptySet
  <2>3. PICK y \in A : \A v \in A \ {y} : <<v, y>> \in R
    <3> HIDE DEF A
    <3> QED BY <2>1, <2>2, LastExists
  <2>4. y \in S /\ <<y, x>> \in R
        BY DEF Ahead
  <2>5. y \notin T
        BY <1>1, <2>4 DEF StrictOrder
  <2>6. Rank(R, S, y) < k /\ Rank(R, S, y) \in Nat
        BY <2>4, <2>5, RankType
  <2>7. A = Ahead(R, S, y) \cup {y}
        BY <2>3, <2>4 DEF Ahead, StrictOrder
  <2>8. y \notin Ahead(R, S, y)
        BY <2>4 DEF Ahead, StrictOrder
  <2>9. Cardinality(A) = Rank(R, S, y) + 1
        BY <2>7, <2>8, RankType, FS_AddElement DEF Rank
  <2> QED BY <2>1, <2>6, <2>9
<1> QED BY <1>2, <1>3

\* An answer that begins at a place and is not full reaches the end of the list.
LEMMA FullAnswer ==
  ASSUME NEW R, NEW S, IsFiniteSet(S), StrictOrder(R, S), NEW a \in Nat, NEW m \in Nat,
         NEW z \in S, Rank(R, S, z) >= a + m
  PROVE  Cardinality({x \in S : a <= Rank(R, S, x) /\ Rank(R, S, x) < a + m}) >= m
<1> DEFINE T == {x \in S : a <= Rank(R, S, x) /\ Rank(R, S, x) < a + m}
<1>1. IsFiniteSet(T) /\ Cardinality(T) \in Nat
      BY FS_Subset, FS_CardinalityType
<1>2. PICK x \in S : Rank(R, S, x) = a
      BY NoGap, RankType
<1>3. PICK y \in S : Rank(R, S, y) = a + m
      BY NoGap, RankType
<1>4. Ahead(R, S, y) \subseteq Ahead(R, S, x) \cup T
  <2>1. SUFFICES ASSUME NEW v \in S, <<v, y>> \in R, <<v, x>> \notin R PROVE v \in T
        BY DEF Ahead
  <2>2. Rank(R, S, v) < a + m
        BY <1>3, <2>1, RankFollowsOrder
  <2>3. Rank(R, S, v) >= a
    <3>1. v = x \/ <<x, v>> \in R
          BY <1>2, <2>1 DEF StrictOrder
    <3>2. <<x, v>> \in R => a < Rank(R, S, v)
          BY <1>2, <2>1, RankFollowsOrder
    <3> QED BY <1>2, <3>1, <3>2, RankType
  <2> QED BY <2>2, <2>3
<1> HIDE DEF T
<1>5. IsFiniteSet(Ahead(R, S, x)) /\ IsFiniteSet(Ahead(R, S, x) \cup T)
      BY <1>1, RankType, FS_Union
<1>6. Cardinality(Ahead(R, S, y)) <= Cardinality(Ahead(R, S, x) \cup T)
      BY <1>4, <1>5, FS_Subset
<1>7. Cardinality(Ahead(R, S, x) \cup T) <= Cardinality(Ahead(R, S, x)) + Cardinality(T)
  <2>1. IsFiniteSet(Ahead(R, S, x) \cap T)
        BY <1>1, FS_Intersection
  <2>2. Cardinality(Ahead(R, S, x) \cap T) \in Nat
        BY <2>1, FS_CardinalityType
  <2>3. Cardinality(Ahead(R, S, x) \cup T)
          = Cardinality(Ahead(R, S, x)) + Cardinality(T)
              - Cardinality(Ahead(R, S, x) \cap T)
        BY <1>1, <1>5, FS_Union
  <2>4. Cardinality(Ahead(R, S, x)) \in Nat
        BY <1>5, FS_CardinalityType
  <2> QED BY <1>1, <2>2, <2>3, <2>4
<1>8. Cardinality(Ahead(R, S, x) \cup T) \in Nat
      BY <1>5, FS_CardinalityType
<1>9. a + m <= a + Cardinality(T)
      BY <1>1, <1>2, <1>3, <1>6, <1>7, <1>8 DEF Rank
<1> QED BY <1>1, <1>9 DEF T
=============================================================================
