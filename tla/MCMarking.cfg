\* A marker with faults and a restart; a marker, an administrator and a judge
SPECIFICATION MCSpec
CONSTANTS
    c1 = c1
    c2 = c2
    c3 = c3
    s1 = s1
    s2 = s2
    NoSub = NoSub
    Timeout = 1
    DbMayFail = TRUE
    Conn <- Three
    Admins <- Second
    Judges <- Third
    Sub <- TwoSubs
    MaxTime = 2
    MakeMayFail = TRUE
    MaxMessages = 4
    MaxCrashes = 1
SYMMETRY Symmetry
INVARIANTS
    SysConsistent
    NoSubmissionForgotten
PROPERTIES
    MarkerNotifiesItsJob
    
