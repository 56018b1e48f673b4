CONSTANTS
    Sessions = {s1, s2}
    NoSession = none
    LastSeq = 2
    MaxCount = 2
    MaxBatch = 2
    MaxEpochs = 3
SPECIFICATION Spec
INVARIANTS
    CopyDropped
