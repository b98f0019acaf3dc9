SPECIFICATION Spec
CONSTANTS
    Binaries <- MCBinaries
    Loaders <- MCLoaders
    About <- MCAbout
    Cache = "cache"
    Cached = {"libB"}
    Spaced <- MCSpaced
    Images <- MCImages
    Preloads = {"agent"}
    Profiles = {"cache"}
    None = None
INVARIANTS
    StartsAsUnsealed
    OnlyLibrariesGranted
CHECK_DEADLOCK FALSE
