SPECIFICATION FairSpec
CONSTANTS
    s1 = s1
    s2 = s2
    Streams = {s1, s2}
    Packets = {p1}
    NoPacket = NoPacket
    NoStream = NoStream
    BatchSize = 2
    Scenarios <- Conforming
INVARIANTS
    NoAssertionFails
    SeekDelivers
PROPERTY SeekReturns
CHECK_DEADLOCK FALSE
