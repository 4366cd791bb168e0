----------------------------- MODULE MCListings -----------------------------
(* Small instances of Listings.                                            *)
EXTENDS Listings

MCRows == 1..3
MCScopeOf == [r \in MCRows |-> IF r = 2 THEN "b" ELSE "a"]
MCNarrow == {1, 2}
MCCreatedAt == [r \in MCRows |-> IF r = 1 THEN 1 ELSE 2]
=============================================================================
