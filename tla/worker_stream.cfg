\* One viewer, four buffers, a ring of two.
SPECIFICATION FairSpec
CONSTANTS
    RingSize = 2
    MaxFrames = 4
INVARIANTS NothingLostOrReordered NoLostWakeup SessionOutlivesHandles WorkerOutlivesUse
PROPERTIES LeavingCleansUp
CHECK_DEADLOCK FALSE
