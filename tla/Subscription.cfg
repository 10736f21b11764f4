SPECIFICATION MCSpec
CONSTANTS
    Users = {u1, u2}
    Listings = {l1}
    Demo = demo
    Tasks = {t1, t2}
    Prices = {0, 5}
    SignalCount <- TwoVersions
    MaxSubs = 2
INVARIANTS
    SubscriptionsSound
    StreamsSound
PROPERTIES
    BilledOnJoining
    RequestsEnd
