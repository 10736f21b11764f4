SPECIFICATION FairSpec
CONSTANTS
    Tenants = {t1, t2}
    Streams = {s1}
    Events = {e1, e2}
    Uows = {u1, u2, u3}
    MaxSeq = 2
INVARIANTS
    TypeOK
    ChainIntact
    AlterationLocated
PROPERTIES
    FlushReturns
    RecordOnlyGrows
