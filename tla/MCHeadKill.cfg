SPECIFICATION Spec
CONSTANTS
    MaxPublications = 1
    Storages <- ProcessFaultsOnly
INVARIANTS
    KillReopens
