SPECIFICATION MCSpec
CONSTANTS
    Programs = {"markerd", "adduser", "addgroup", "addproblem", "replaceproblem", "addtime",
                "setpass", "getbonus", "setbonus", "getsource", "getlatestsource", "submit",
                "standings"}
    Jobs = {"j"}
    ListsSent <- MCLists
    SubsSent <- MCSubs
    MaxConns = 2
    MaxNews = 3
INVARIANTS ClientsConsistent AnswerIsMine ToolTruthful
PROPERTIES CallsEnd ProgramsProceed
CHECK_DEADLOCK FALSE
