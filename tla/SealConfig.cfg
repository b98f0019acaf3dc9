SPECIFICATION Spec
CONSTANTS
    inContainer = inContainer
    byHand = byHand
    None = None
    Specs <- MCSpecs
    BackupDir <- MCBackupDir
    Cwd <- MCCwd
    Handwritten <- MCHandwritten
    Container = "main"
    ContainerProfile = inContainer
    InPath <- MCInPath
    Links <- MCLinks
    Calls <- MCCalls
    MaxDepth = 2
INVARIANTS
    ReleaseAccepted
    GrantedAsListed
    BackupsApart
    WellFormedAdmitted
    ConfiguredAfresh
    FlagsAreTheProfile
    RunsWhatWasNamed
CHECK_DEADLOCK FALSE
