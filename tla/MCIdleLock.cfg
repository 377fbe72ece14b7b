SPECIFICATION FairSpec
CONSTANTS
    p1 = p1
    p2 = p2
    Callers = {p1, p2}
    MaxSequences = 4
    Kinds = {"send"}
    BufferSize = 1
    ResendQueueMax = 1
    Unbounded = {p2}
    Gated = {}
    MaxCancels = 0
PROPERTY
    LockBounded
CHECK_DEADLOCK FALSE
