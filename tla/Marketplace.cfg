SPECIFICATION MCMarketSpec
CONSTANTS
    Bots = {b1}
    Definitions = {good, bad}
    Qualifying = {good}
    Requests = {r1}
    MaxVersion = 2
    MaxAudit = 3
    Listings = {l1, l2, l3}
    Sellers = {p1, p2}
SYMMETRY MarketSymmetry
CHECK_DEADLOCK FALSE
INVARIANTS
    ListingsSound
    ListingsTellUnlessOverlapped
