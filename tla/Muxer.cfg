SPECIFICATION Spec
CONSTANTS
    a = a
    b = b
    c = c
    Upstreams = {a, b, c}
    NoTs = NoTs
    NoClock = NoClock
    UnknownOrigin = UnknownOrigin
    NoId = NoId
    Messages <- AllMessages
    Contents <- AllContents
    Capacity = 2
    UpstreamBatch = 2
    Scenarios <- AllScenarios
INVARIANTS
    NoAssertionFails
    ValidatorIsExact
    MergeIsDeterministic
PROPERTY MergerSpec
CHECK_DEADLOCK FALSE
