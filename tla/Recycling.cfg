SPECIFICATION Spec
CONSTANTS
    Streams = {s1}
    Packets = {p1}
    Events = {e1}
    Snapshots = {c1, c2}
    EventMessages = {m1}
    BeginningMessages = {b1}
    EndMessages = {n1}
    OtherMessages = {o1}
    Referable <- MCReferable
    None = None
INVARIANTS
    BorrowedIsAlive
    ReferencesAreExact
CHECK_DEADLOCK FALSE
