SPECIFICATION FairSpec
CONSTANTS
    Keys = {k1}
    Pods = {p1}
    Finalizer = fin
    Foreign = {}
    NoProfile = NoProfile
    NotCreated = NotCreated
    Deleted = Deleted
    NoKey = NoKey
    VapEnabled = TRUE
    MaxUid = 2
    MaxLag = 3
    MaxCrashes = 0
    MaxOrphans = 0
PROPERTIES
    DeletedOnlyAfterWitnesses
CHECK_DEADLOCK FALSE
