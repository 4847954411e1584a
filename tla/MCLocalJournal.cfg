CONSTANTS
    None = None
    plain = plain
    late = late
    bad = bad
    v1 = v1
    v2 = v2
    ip = ip
    outcome = outcome
    ip1 = ip1
    ip2 = ip2
    fail = fail
    pass = pass
    Tenants = {"acme"}
    Ids = {1, 2}
    Fields = {ip, outcome}
    Values = {ip1, ip2, fail, pass}
    RuleIds = {"failures"}
    Revisions = {v1, v2}
    Definition <- MCDefinition
    EvidenceLimit = 1
    Packages = {"linux"}
    Versions = {1, 2}
    Payloads = {plain, late, bad}
    Parse <- MCParse
    MaxEvents = 2
    MaxReplays = 2
    MaxBatch = 2
    MaxLimit = 2
    SigmaTexts <- MCTexts
    SigmaFields = {ip, outcome, actor}
    SigmaWords <- MCWords
SPECIFICATION FairSpec
INVARIANTS
    TypeOK
    Settlement
    AlertsReflectHits
    CompilesExactly
PROPERTIES
    HistoryIsImmutable
    NoRetroactiveHits
    ImplementsLedger
    EventuallySettled
