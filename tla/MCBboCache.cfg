CONSTANTS
    Fields = {prices, bidQty, askQty, ts}
    Readers = {reader}
    Seq0 = seq
    MaxWrites = 3
SPECIFICATION Spec
INVARIANTS
    NoTornSnapshot
PROPERTIES
    ImplementsRegister
    LoadReturns
