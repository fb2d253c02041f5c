\* A viewer may leave while the camera is being called.
SPECIFICATION FairSpec
CONSTANTS
    Procs = {a, b}
    Ports <- MCPorts
    MaxCalls = 2
    MaxCids = 1
    MaxReqs = 1
    MaxCrashes = 0
    EarlyStop = TRUE
    EarlyRestart = FALSE
PROPERTIES EndedCallsHangUp
CHECK_DEADLOCK FALSE
