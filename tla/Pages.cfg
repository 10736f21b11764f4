SPECIFICATION MCSpec
CONSTANTS
    Listings = {l1}
    Bots = {b1}
    Views <- AllViews
    Home = "dashboard"
    Chains = {c1, c2}
    MaxSubs = 2
SYMMETRY ChainSymmetry
INVARIANTS
    PagesSound
    QuietPageIsCurrent
    OffersAreHonoured
    ReplayIsOfRow
