\* Servers meet, messages arrive and submissions are marked
SPECIFICATION LiveSpec
CONSTANTS
    Server <- TwoServers
    Joined <- JustMaster
    Registered <- CodeKinds
    Quiet = TRUE
    Keeps = FALSE
    CrashWindows <- Storing
    MaxMade <- EachOne
    MadeKinds <- AllKinds
    MaxTime = 0
    MaxCrashes = 1
    c1 = c1
    s1 = s1
    NoSub = NoSub
INVARIANT
    MakerIsResponsible
PROPERTIES
    ServersMeet
    
    EverySubmissionMarked
CHECK_DEADLOCK FALSE
