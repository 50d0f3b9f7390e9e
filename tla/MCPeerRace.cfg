SPECIFICATION Spec
CONSTANTS
    Server <- TwoServers
    Joined <- JustMaster
    Registered <- CodeKinds
    Quiet = FALSE
    Keeps = TRUE
    CrashWindows <- Storing
    MaxMade <- JoinAndOne
    MadeKinds <- AllKinds
    MaxTime = 0
    MaxCrashes = 0
INVARIANT
    MakerIsResponsible
CHECK_DEADLOCK FALSE
