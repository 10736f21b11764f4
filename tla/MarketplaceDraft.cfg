SPECIFICATION MCMarketSpec
CONSTANTS
    Bots = {b1}
    Definitions = {good, bad}
    Qualifying = {good}
    Requests = {r1}
    MaxVersion = 2
    MaxAudit = 2
    Listings = {l1, l2}
    Sellers = {p1}
CHECK_DEADLOCK FALSE
INVARIANTS
    OfferedVersionWasListed
