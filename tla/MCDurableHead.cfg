SPECIFICATION FairSpec
CONSTANTS
    MaxPublications = 4
    Storages <- AllStorages
INVARIANTS
    PreparedKept
    NameWhole
    RefusedIncomplete
PROPERTIES
    NeverBackwards
    CallsEnd
