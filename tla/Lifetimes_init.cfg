SPECIFICATION Spec
CONSTANTS
    graph = graph
    src = src
    flt = flt
    snk = snk
    srcOut = srcOut
    fltIn = fltIn
    fltOut = fltOut
    snkIn = snkIn
    first = first
    second = second
    u1 = u1
    d1 = d1
    d2 = d2
    NULL = NULL
    Components <- McComponents
    Ports <- McPorts
    Connections <- McConnections
    Iterators <- McIterators
    ComponentOf <- McComponentOf
    UpstreamPort <- McUpstreamPort
    DownstreamPort <- McDownstreamPort
    On <- McOn
    By <- McBy
    MaxRefs = 2
    FailConnected = TRUE
INVARIANT ConnectionPortsExist
CHECK_DEADLOCK FALSE
