CONSTANTS
    None = None
    d1 = d1
    h1 = h1
    h2 = h2
    Jobs = {"isolate"}
    Operators = {"ann", "bob"}
    Gateways = {"g1", "g2"}
    Connectors = {"edr"}
    Configs = {d1}
    Kind <- MCKind
    Files <- DefenderFile
    RetryLimit = 2
    VendorBudget = 3
    MaxRevision = 5
    MetadataFaults = FALSE
SPECIFICATION Spec
PROPERTIES
    OperationsStand
