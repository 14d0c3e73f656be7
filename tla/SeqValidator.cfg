SPECIFICATION Spec
CONSTANTS
    Streams = {s1, s2}
    Packets = {p1, p2}
    NoPacket = NoPacket
    NoStream = NoStream
    s1 = s1
    s2 = s2
    p1 = p1
    p2 = p2
SYMMETRY Symmetry
INVARIANTS
    ValidatorIsMip
CHECK_DEADLOCK FALSE
