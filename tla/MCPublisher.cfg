CONSTANTS
    Refs = {r1, r2, r3}
    Locates = {l1}
    Prices = {1, 2}
    Shares = {0, 1, 2}
    MaxKey = 3
SPECIFICATION Spec
SYMMETRY Symmetry
INVARIANTS
    LevelsCountOrders
    LevelsHoldShares
    BboIsFresh
    EventsCarryTop
    ForeseesSearches
