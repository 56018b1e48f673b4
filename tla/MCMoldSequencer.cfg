CONSTANTS
    Sessions = {s1, s2}
    NoSession = none
    LastSeq = 4
    MaxCount = 2
    MaxBatch = 2
    MaxEpochs = 2
SPECIFICATION FairSpec
INVARIANTS
    Accounted
    InOrder
PROPERTIES
    EndStops
