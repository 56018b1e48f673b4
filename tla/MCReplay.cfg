CONSTANTS
    Records <- MCRecords
    MaxRecords = 3
    Missing = {0, 1, 20}
    Wanted = {1}
    Slice = 60
    Distance = 2
    SubBits = 2
    WordBits = 6
    Carries <- MCCarries
    Samples <- MCSamples
    Percents <- MCPercents
SPECIFICATION Spec
INVARIANTS
    EachRecordOnce
    LookaheadInSlice
    HintsWithinRecord
    DecodesItsBytes
    SameFraming
    PercentileBound
PROPERTIES
    Completes
