SPECIFICATION FairSpec
CONSTANTS
    N = 2
    MaxPacks = 4
    MaxAcks = 4
    Size <- UnitSize
    ContractSize = 1
    ResendQueueMax = 8
    RetainRequests = {TRUE}
    ReceiveQueueMax = 2
    HoldPolicy = "committedPrefix"
    Unwrapped = {}
    MaxExits = 1
PROPERTIES
    EventuallySettled
CHECK_DEADLOCK FALSE
