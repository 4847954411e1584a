CONSTANTS
    None = None
    n1 = n1
    n2 = n2
    Tenants = {"acme"}
    Ids = {1}
    Packages = {"linux"}
    Versions = {1, 2}
    Payloads = {"login"}
    Parse <- MCParse
    Times = {1, 2}
    Files <- Upgrades
    Relays = {"r1"}
    Workers = {n1, n2, "d1", "q1"}
    Role <- MCRole
    Stages = {}
    MaxEvents = 1
    MaxReplays = 1
    MaxBatch = 1
    MaxRead = 2
    MaxFaults = 1
SYMMETRY Interchangeable
SPECIFICATION Spec
INVARIANTS
    TypeOK
    NothingLost
    MarkersAreHonest
PROPERTIES
    DetectedOnce
    ImplementsLedger
