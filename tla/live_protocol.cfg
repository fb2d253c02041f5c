\* Patient viewers, timely answers, enough ports: the disciplined client.
SPECIFICATION Spec
CONSTANTS
    Procs = {a, b}
    Workers = {v, w}
    Ports <- MCPorts
    MaxCalls = 2
    MaxCids = 2
    MaxReqs = 2
    MaxCrashes = 0
    EarlyRestart = FALSE
    Patient = TRUE
    Timely = TRUE
    Apart = TRUE
SYMMETRY MCSymmetry
INVARIANTS ListensWhereCameraSends NoOrphanDialog RequestsListedWhileUsed
PROPERTIES KeepsTheProtocol
CHECK_DEADLOCK FALSE
