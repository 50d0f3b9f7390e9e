\* The messages between two servers, and the ids of submissions
SPECIFICATION LogSpec
CONSTANTS
    Server <- TwoServers
    Joined <- JustMaster
    Registered <- CodeKinds
    Quiet = FALSE
    Keeps = TRUE
    CrashWindows <- AllWindows
    MaxMade <- JoinAndOne
    MadeKinds <- AllKinds
    MaxTime = 0
    MaxCrashes = 1
    IdServer <- FirstAndThird
    Granularity = 4
    CleanRestarts = TRUE
    MaxId = 6
    MaxRestarts = 2
INVARIANTS
    UniqueIds
    NeverAgain
PROPERTIES
    IdsGrow
    LogsAreCopies
    ForgottenOnlyIfStored
CHECK_DEADLOCK FALSE
