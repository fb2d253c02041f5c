\* Five frames of up to three bytes, a ring of two, reads of one or two bytes.
SPECIFICATION FairSpec
CONSTANTS
    Frames <- MCFrames
    RingSize = 2
    ReadSizes = {1, 2}
    FindFirstKey = TRUE
INVARIANTS FramesReadWhole SafeWhileWatched HandlesClosedFirst
PROPERTIES StopDeletes ReaderLeaves
CHECK_DEADLOCK FALSE
