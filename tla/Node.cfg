SPECIFICATION FairSpec
CONSTANTS
    a = a
    b = b
    x = x
    y = y
    Pods = {p1}
    Names = {a, b}
    Binaries = {x, y}
    Inodes = {i1, i2}
    NoInode = NoInode
    NoSlot = NoSlot
    Entry <- MCEntry
    MaxVersion = 2
    MaxDead = 1
    MaxExits = 1
    MaxFaults = 1
INVARIANTS
    TypeOK
    SealedAsRead
    FilesGoneWithPod
PROPERTIES
    EventuallyCreated
CHECK_DEADLOCK FALSE
