SPECIFICATION Spec
CONSTANTS
    N = 3
    MaxPacks = 2
    MaxAcks = 1
    Size <- UnitSize
    ContractSize = 1
    ResendQueueMax = 12
    RetainRequests = {FALSE}
    ReceiveQueueMax = 2
    HoldPolicy = "committedPrefix"
    Unwrapped = {1}
    MaxExits = 1
INVARIANTS
    TypeOK
    AckedImpliesArrived
    NothingSkipped
    HeadMeansSettled
    CumulativeAcksTrue
PROPERTIES
    ImplementsService
CHECK_DEADLOCK FALSE
