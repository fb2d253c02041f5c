\* Two requests to two servers over two years of two months of two days; a year is kept, as config.txt has it, and the servers run as root.
SPECIFICATION FairSpec
CONSTANTS
    Captures = {c1, c2}
    MonthsPerYear = 2
    DaysPerMonth = 2
    CleanDays = 4
    LastDay = 8
    Root = TRUE
INVARIANT PromisedIsSaved
PROPERTIES EarlyOnlyIfMixed OnlyYoungRemain
