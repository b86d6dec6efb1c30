-------------------------- MODULE MCAuctionListing --------------------------
(* Small instances of AuctionListing.  p1 searches with r1 only, p2 with   *)
(* all the others.                                                         *)
EXTENDS AuctionListing

CONSTANTS p1, p2, r1

MCPlayerOf == [r \in Requests |-> IF r = r1 THEN p1 ELSE p2]
=============================================================================
