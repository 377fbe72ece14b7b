SPECIFICATION HoldSpec
CONSTANTS
    N = 4
    MaxPacks = 6
    MaxAcks = 0
    Size <- MixedSize
    ReceiveQueueMax = 10
    HoldPolicy = "committedPrefix"
    Unwrapped = {}
    MaxExits = 0
INVARIANTS
    PromisesKept
CHECK_DEADLOCK FALSE
