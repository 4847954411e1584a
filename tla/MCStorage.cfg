CONSTANTS
    None = None
    n1 = n1
    n2 = n2
    Tenants = {"acme"}
    Ids = {1}
    Packages = {"linux"}
    Versions = {2}
    Payloads = {"login"}
    Parse <- MCParse
    Times = {1, 2}
    Files <- OneVersion
    Relays = {"r1"}
    Workers = {n1, "d1", "q1", "i1", "a1"}
    Role <- MCRole
    Stages = {"indexer", "archive"}
    MaxEvents = 1
    MaxReplays = 0
    MaxBatch = 1
    MaxRead = 2
    MaxFaults = 1
SPECIFICATION FairSpec
INVARIANTS
    CommittedIsDone
PROPERTIES
    EventuallySettled
