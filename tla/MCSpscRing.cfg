CONSTANTS
    N = 4
    IndexMod = 8
    MaxBatch = 3
    MaxEvents = 9
SPECIFICATION Spec
INVARIANTS
    NoSlotRace
    DrainedAtExit
PROPERTIES
    ImplementsFifo
    EveryEventDelivered
    ConsumerExits
