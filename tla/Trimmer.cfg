SPECIFICATION FairSpec
CONSTANTS
    s1 = s1
    s2 = s2
    Streams = {s1, s2}
    Packets = {p1}
    NoPacket = NoPacket
    NoStream = NoStream
    NsPerSecond = 6
    SecondsPerDay = 1
    BatchSize = 2
    Scenarios <- Trimmed
INVARIANTS
    NoAssertionFails
    OutputIsLegal
    OutputIsTheRange
PROPERTY TrimmingEnds
CHECK_DEADLOCK FALSE
