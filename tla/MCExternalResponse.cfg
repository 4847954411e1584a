CONSTANTS
    None = None
    d1 = d1
    h1 = h1
    h2 = h2
    Jobs = {"isolate"}
    Operators = {"ann", "bob"}
    Gateways = {"g1", "g2"}
    Connectors = {"edr", "hook"}
    Configs = {d1, h1, h2}
    Kind <- MCKind
    Files <- TwoFiles
    RetryLimit = 2
    VendorBudget = 3
    MaxRevision = 4
    MetadataFaults = TRUE
SPECIFICATION FairSpec
INVARIANTS
    TypeOK
    OutcomesAreReal
    AtMostOneSubmission
PROPERTIES
    
    OutcomesStand
    SentAsApproved
    ImplementsApproval
    EventuallyDecided
