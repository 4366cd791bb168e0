----------------------------- MODULE MCCatalog ------------------------------
(* Small instances of Catalog.                                             *)
EXTENDS Catalog

MCHotels == 1..2
MCWanted == {1}
MCRoomy == {1}
MCFurnished == {1, 2}
MCDestinations == {"cairo", "luxor"}
MCDestinationOf == [h \in MCHotels |-> IF h = 1 THEN "cairo" ELSE "luxor"]
MCStamps == 1..2
=============================================================================
