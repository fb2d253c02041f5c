\* Two disciplined processes, two ports, early stops, one crash.
SPECIFICATION Spec
CONSTANTS
    Procs = {a, b}
    Ports <- MCPorts
    MaxCalls = 3
    MaxCids = 1
    MaxReqs = 1
    MaxCrashes = 1
    EarlyStop = TRUE
    EarlyRestart = FALSE
SYMMETRY MCSymmetry
INVARIANTS PortsConserved RightToStop TablesPointToLiveCalls NoCallLeaks
PROPERTIES PoolRefined
CHECK_DEADLOCK FALSE
