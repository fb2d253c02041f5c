\* A process that may die of a viewer who leaves early, and is restarted.
SPECIFICATION FairSpec
CONSTANTS
    Procs = {a}
    Workers = {v}
    Ports <- MCOnePort
    MaxCalls = 2
    MaxCids = 1
    MaxReqs = 2
    MaxCrashes = 1
    EarlyRestart = TRUE
    Patient = FALSE
    Timely = FALSE
    Apart = FALSE
PROPERTIES PlayReturns PortsOfTheDeadReturn
CHECK_DEADLOCK FALSE
