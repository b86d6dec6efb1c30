SPECIFICATION ListingFairSpec
CONSTANTS
    p1 = p1
    p2 = p2
    r1 = r1
    Requests = {r1, r2, r3}
    Players = {p1, p2}
    PlayerOf <- MCPlayerOf
    Nobody = Nobody
INVARIANTS NoListingInSection EachSearchOnce
PROPERTIES WorldNotStarved SearchesAnswered
