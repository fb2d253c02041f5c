\* Two overlapping SubscribeThreads, a lease of one round.
SPECIFICATION FairSpec
CONSTANTS
    Threads = {t, u}
    Space = 4
    Step = 2
    Grants = {2}
    KeepAlive = 2
    Boot = 3
    Timely = TRUE
INVARIANTS SubscribesAfterFirstCatalogue
PROPERTIES FirstReportSubscribes CatalogueRenewed
CHECK_DEADLOCK FALSE
