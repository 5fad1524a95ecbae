CONSTANTS
    Clients = {c1, c2}
    MaxTokenPolls = 2
    MaxFaults = 3
    Configurations <- AnyConfiguration
SPECIFICATION ProcSpec
CHECK_DEADLOCK FALSE
INVARIANTS
    ProcTypeOK
    OnlyCompleteDriverAnswers
PROPERTY ServesInTheEnd
