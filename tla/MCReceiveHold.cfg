SPECIFICATION HoldSpec
CONSTANTS
    N = 6
    MaxPacks = 6
    MaxAcks = 0
    Size <- UniformSize
    ReceiveQueueMax = 8
    HoldPolicy = "committedPrefix"
    Unwrapped = {}
    MaxExits = 1
INVARIANTS
    PromisesKept
    BoundaryExact
PROPERTY
    CommittedStays
CHECK_DEADLOCK FALSE
