SPECIFICATION FairSpec
CONSTANTS
    Keys = {k1}
    Pods = {p1}
    Finalizer = fin
    Foreign = {g1}
    NoProfile = NoProfile
    NotCreated = NotCreated
    Deleted = Deleted
    NoKey = NoKey
    VapEnabled = FALSE
    MaxUid = 1
    MaxLag = 2
    MaxCrashes = 1
    MaxOrphans = 1
PROPERTIES
    EventuallyReleased
CHECK_DEADLOCK FALSE
