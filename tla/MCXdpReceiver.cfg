CONSTANTS
    NumFrames = 3
    RxSize = 2
    Batch = 2
    Port = 1
    Group = 1
    AnyAddress = 0
    Wire <- MCWire
    NoFrame = none
SPECIFICATION Spec
INVARIANTS
    FramesKept
    PacketsStay
    NeverStarves
    FilterAgrees
    KernelHasMemory
PROPERTIES
    FailureReleases
