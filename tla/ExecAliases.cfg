SPECIFICATION Spec
CONSTANTS
    p = p
    q = q
    r = r
    d = d
    e = e
    f = f
    own = own
    Paths = {p, q, r}
    Entries = {d, e, f}
    Images <- MCImages
    GrantSets <- MCGrantSets
    Invocations = {"path"}
    Seal = Seal
    Empty = Empty
    ProfileFile = ProfileFile
    SealPath = SealPath
    OwnFiles = {}
    OwnRules <- NoRules
    BareName = BareName
    SealName = SealName
    SealNames = {SealPath, SealName}
    NoPath = NoPath
    MaxLayers = 3
INVARIANTS
    BackupHoldsOriginal
CHECK_DEADLOCK FALSE
