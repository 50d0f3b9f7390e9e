\* Two servers process the same messages in any order, with restarts and faults
CONSTANTS
    Servers = {1, 2}
    Types = {"batch", "quiz"}
    Attrs = {"shortname", "limit", "data"}
    FileAttrs = {"data"}
    IntAttrs = {"limit"}
    Required <- MCRequired
    Optional <- MCOptional
    InitUsers <- MCUsers
    InitGroups <- MCGroups
    Names = {"anna"}
    MaxTime = 2
SPECIFICATION MCSpec

    
    
    
PROPERTIES
    RowsPermanent
CHECK_DEADLOCK FALSE
