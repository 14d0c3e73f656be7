CONSTANTS
  g1 = g1
  g2 = g2
  t1 = t1
  t2 = t2
  a = a
  b = b
  None = None
  Sessions = {g1, g2}
  Traces = {t1, t2}
  Streams = {a, b}
  Scenarios <- MCScenarios
  MaxTs = 2
  Capacity = 2
SPECIFICATION FairSpec
INVARIANTS
  NoAssertionFails
  EndedUnlessClosed
PROPERTIES
  NeverBackInTime
  NextReturns
  EndsWhenOver
CHECK_DEADLOCK FALSE
