CONSTANTS
    None = None
    p1 = p1
    p2 = p2
    login = login
    Archivers = {p1, p2}
    Operations = {login}
    Days = {1, 2}
    Limit = 2
    MaxEvents = 2
    MaxAudits = 1
    MaxClock = 1
    MaxIncidents = 1
SPECIFICATION FairSpec
INVARIANTS
    TypeOK
    HistoryIsAnchored
    ReceiptsAreHonest
PROPERTIES
    EventuallyArchived
CHECK_DEADLOCK FALSE
