SPECIFICATION Spec
CONSTANTS
    Traces <- MCTraces
    WordBits = 15
    UuidSize = 2
INVARIANT ItemsAsDocumented
INVARIANT NoAssertionFails
PROPERTY DecodingEnds
