\* Loss, delay and repetition around the wraps of the sequence
\* number and of the time stamp, in a stream longer than either.
SPECIFICATION RtpSpec
CONSTANTS
    Heads <- MCHeads
    MaxPackets = 21
    SeqSpace = 20
    FirstSeq = 14
    TsSpace = 7
    MaxAge = 1
    Window = 3
    MaxLost = 1
    MaxDups = 2
INVARIANTS RtpTypeOK FramesAreWhole FramesInOrder ListSorted LastIsPacket
CHECK_DEADLOCK FALSE
