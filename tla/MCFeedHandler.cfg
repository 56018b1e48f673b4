CONSTANTS
    Locates = {1}
    InitialOrders = 1
    Events = 2
    Refs = {1, 2, 3}
    MaxKey = 3
    Prices = {0, 1, 2, 3}
    Mids = {1}
    Behind = {0, 1}
    Lots = {100}
    Shares = {}
    Sessions = {s1}
    NoSession = none
    MaxCount = 2
    MaxEpochs = 1
    Width = 3
    Blank = " "
    Names <- MCNames
SPECIFICATION PathSpec
INVARIANTS
    SelfConsistent
    DamageContained
    OverstatesOnly
PROPERTIES
    ReturnsToEmpty
