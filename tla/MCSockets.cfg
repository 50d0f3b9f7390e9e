CONSTANTS
    Conns = {"c", "d"}
    Users = {"team", "marker"}
    TypeOf <- TwoUsers
    Listener = "listener"
    CfgInit = 0
    CfgMax = 0
    CfgMaxIdle = 0
    CfgMinIdle = 0
    Room = 1
SPECIFICATION MCFairSpec
INVARIANTS RegistryConsistent OutputNotForgotten
PROPERTIES RequestsServed ShutdownEnds
CHECK_DEADLOCK FALSE
