SPECIFICATION MCSpec
CHECK_DEADLOCK FALSE
CONSTANTS
    Groups = {1, 2}
    InitGroups = {1}
    Duration = 2
    MaxTime = 4
    MaxEvents = 3
    MaxRestarts = 1
    Prompt = TRUE
    Users = {"a"}
    Problems = {"p"}
    Contestants = {"a"}
    GroupOf <- OneGroup
    Subs = {1, 2}
    UserOf <- ByA
    ProblemOf <- OneProblem
    Blinds = 2
    Penalty = 10
    Bonuses <- OneBonus
    MaxMarks = 2
INVARIANTS
    ContestTimeIsRunningTime
    StateIsStatus
    StandingsFollowRules
    
PROPERTIES
    RestartKeepsContestTime
