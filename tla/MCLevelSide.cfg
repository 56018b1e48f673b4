CONSTANTS
    Prices = {0, 1, 2, 3}
    Shares = {2}
    MaxKey = 3
    Pad = 2
    Chunks = 1
    InitialLevels = 2
    MaxOrders = 4
SPECIFICATION Spec
INVARIANTS
    KernelsAgree
PROPERTIES
    ImplementsLevels
