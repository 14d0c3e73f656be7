SPECIFICATION FairSpec
CONSTANTS
    s1 = s1
    s2 = s2
    Streams <- MCStreams
    Packets = {}
    NoPacket = NoPacket
    NoStream = NoStream
    PacketLimit = 2
    Capacity = 2
    SinkScenarios <- MCSinkScenarios
    SourceScenarios <- MCSourceScenarios
INVARIANTS
    NoAssertionFails
    SinkAcceptsExactly
    WrittenIsReadBack
    PacketsReadOnce
    ReadIsLegal
    SeekRestarts
    QueryRangeIsTight
PROPERTY
    ReadingEnds
