SPECIFICATION Spec
CONSTANTS
    N = 3
    MaxPacks = 2
    MaxAcks = 1
    Size <- UnitSize
    ContractSize = 1
    ResendQueueMax = 12
    RetainRequests = {TRUE, FALSE}
    ReceiveQueueMax = 3
    HoldPolicy = "committedPrefix"
    Unwrapped = {1}
    MaxExits = 0
INVARIANTS
    AckedImpliesArrived
    OwedIsOutstanding
    ByteCountsExact
    Inv
CHECK_DEADLOCK FALSE
