\* The platform registers off: its Expires is 0.
SPECIFICATION Spec
CONSTANTS
    Threads = {t}
    Space = 16
    Step = 2
    Grants = {0, 4}
    KeepAlive = 4
    Boot = 15
    Timely = TRUE
INVARIANTS SilentIsOffline
CHECK_DEADLOCK FALSE
