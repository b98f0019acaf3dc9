SPECIFICATION FairSpec
CONSTANTS
    Abis = {0, 3}
    Others = {o1, o2}
    NoLabel = NoLabel
    DefaultRetry = 3
    MaxWrites = 7
    MaxFaults = 2
INVARIANTS
    TypeOK
    OtherLabelsKept
    LabelTrueWhenStarted
PROPERTIES
    EventuallyLabelled
CHECK_DEADLOCK FALSE
