--------------------------- MODULE MCAuctionHouse ---------------------------
EXTENDS AuctionHouse

CONSTANTS alice, bob, carol, sword

MCStartGold == [c \in Chars |-> IF c = bob THEN 2 ELSE 1]
MCStartItems == [c \in Chars |-> IF c = alice THEN {sword} ELSE {}]
MCLetters == {<<alice, bob>>}
=============================================================================
