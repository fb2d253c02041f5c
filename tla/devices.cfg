\* Two devices, three statuses, five positions, any number of reports and restarts.
SPECIFICATION DevicesSpec
CONSTANTS
    Devices = {d1, d2}
    Reports <- MCReports
    _useScript = TRUE
INVARIANTS RestartLosesNoStatus PositionsAreReports
