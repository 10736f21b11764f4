SPECIFICATION MCSpec
CONSTANTS
    Bots = {b1}
    Definitions = {good, bad}
    Qualifying = {good}
    Requests = {r1, r2}
    MaxVersion = 2
    MaxAudit = 5
SYMMETRY Symmetry
CHECK_DEADLOCK FALSE
INVARIANTS
    TablesSound
    AuditTellsState
    RowsTellUnlessOverlapped
PROPERTIES
    FollowsContractUnlessOverlapped
