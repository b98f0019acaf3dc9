SPECIFICATION FairSpec
CONSTANTS
    p = p
    q = q
    r = r
    d = d
    e = e
    f = f
    own = own
    Paths = {p, q}
    Entries = {d, e, f}
    Images <- MCImages
    GrantSets <- MCGrantSets
    Invocations = {"any"}
    Seal = Seal
    Empty = Empty
    ProfileFile = ProfileFile
    SealPath = SealPath
    OwnFiles = {own}
    OwnRules <- MCOwnRules
    BareName = BareName
    SealName = SealName
    SealNames = {SealPath, SealName}
    NoPath = NoPath
    MaxLayers = 3
INVARIANTS
    TypeOK
    SwapComplete
    RunsUnderItsProfile
    ListedBinaryStarts
PROPERTIES
    SealEnds
CHECK_DEADLOCK FALSE
