SPECIFICATION FairSpec
CONSTANTS
    a = a
    b = b
    x = x
    y = y
    Pods = {p1}
    Names = {a, b}
    Binaries = {x, y}
    Inodes = {i1, i2, i3}
    NoInode = NoInode
    NoSlot = NoSlot
    Entry <- MCEntry
    MaxVersion = 2
    MaxDead = 2
    MaxExits = 1
    MaxFaults = 0
INVARIANTS
    PreparedFilesPresent
CHECK_DEADLOCK FALSE
