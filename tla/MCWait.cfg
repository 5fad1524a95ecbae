CONSTANTS
    Clients = {c1}
    MaxTokenPolls = 2
    MaxFaults = 1
    Configurations <- Deployed
SPECIFICATION ProcSpec
CHECK_DEADLOCK FALSE
PROPERTY WaitSeesTheEnd
