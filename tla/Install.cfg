SPECIFICATION FairSpec
CONSTANTS
    Binaries = 2
    Images = {old, new}
    Build <- SealBuild
    Blocks = 3
    Absent = Absent
    MaxFaults = 4
    old = old
    new = new
    seal1 = seal1
    seal2 = seal2
    hook1 = hook1
INVARIANTS
    TypeOK
    InstalledWhenRegistered
PROPERTIES
    IntactFilesKept
    EventuallyRegistered
