CONSTANTS
    None = None
    Connections = {1, 2}
    Credentials = {"sensor", "boss"}
    Grant <- MCGrant
    Requests <- MCRequests
    Slots = 2
    Burst = 3
    Rate = 2
    Cost = 2
    MaxTime = 2
    MaxRestarts = 1
SPECIFICATION FairSpec
INVARIANTS
    AdmissionIsExact
PROPERTIES
    EventuallyAnswered
