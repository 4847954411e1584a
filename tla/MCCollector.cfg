CONSTANTS
    None = None
    good = good
    bad = bad
    huge = huge
    a = a
    b = b
    x = x
    y = y
    Lines = {good, bad, huge}
    Kind <- MCKind
    MaxLines = 2
    MaxReplaced = 1
    MaxLate = 1
    Prefix = 1
    Sources <- MCSources
    MaxRows = 2
    MaxSend = 2
    MaxAttempts = 2
    MaxIncidents = 1
SPECIFICATION FairSpec
INVARIANTS
    TypeOK
    

    
