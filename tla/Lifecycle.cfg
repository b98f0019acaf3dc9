SPECIFICATION Spec
CONSTANTS
    Keys = {k1}
    Pods = {p1, p2}
    Finalizer = fin
    Foreign = {g1}
    NoProfile = NoProfile
    NotCreated = NotCreated
    Deleted = Deleted
    NoKey = NoKey
    VapEnabled = TRUE
    MaxUid = 2
    MaxLag = 2
    MaxCrashes = 1
    MaxOrphans = 1
SYMMETRY Symmetry
INVARIANTS
    TypeOK
    LiveProfilesProtected
    WitnessedPodsBlockRelease
    PatchKeepsForeignFinalizers
    PendingProfilesTracked
    UnusedProfilesPrompt
PROPERTIES
    DeletionIsTwoPhase
    ImplementsProtection
CHECK_DEADLOCK FALSE
