CONSTANTS
    None = None
    Operators = {"ann", "bob"}
    Jobs = {"triage"}
    Alerts = {"login"}
    Workers = {"local"}
    MaxAttempts = 3
    MaxFailures = 2
    MaxRevision = 7
SPECIFICATION FairSpec
INVARIANTS
    TypeOK
    EffectsOnce
    AuditExplains
PROPERTIES
    ActsOnWhatWasSeen
    ImplementsApproval
    EventuallyEnds
