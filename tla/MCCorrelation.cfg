CONSTANTS
    None = None
    Ids = {1, 2, 3, 4}
    Attributes = {"fail_a", "fail_b", "success", "other"}
    Groups = {"near", "far"}
    alice = alice
    bob = bob
    Values = {alice, bob}
    Revisions = {"repeated", "guessed"}
    Definition <- MCDefinition
    Streams <- MCStreams
    EvidenceLimit = 2
    MaxGroup = 3
    MaxBatch = 2
SPECIFICATION Spec
INVARIANTS
    TypeOK
    WindowAlertsExact
