\* Two live servers with a viewer each and three events, two pages, one restart.
SPECIFICATION FairSpec
CONSTANTS
    Lives = {l1, l2}
    Viewers = {v}
    MaxVersion = 1
    MaxEvents = 3
    MaxRequests = 2
    MaxRestarts = 1
    LateClose = TRUE
INVARIANTS ListsLivingWorkers ListedWhileAwaited AnswerIsFresh
PROPERTIES EveryPageAnswered
CHECK_DEADLOCK FALSE
