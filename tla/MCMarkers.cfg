SPECIFICATION Spec
CONSTANTS
    c1 = c1
    c2 = c2
    s1 = s1
    s2 = s2
    Conn <- MCConn
    Sub <- MCSub
    NoSub = NoSub
    Timeout = 1
    MaxTime = 3
    DbMayFail = FALSE
SYMMETRY MCSymmetry
INVARIANTS
    PoolConsistent
    NothingLost
    WorkConserving
PROPERTIES
    NoPrematureTimeout
    NoOvertaking
