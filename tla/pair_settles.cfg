SPECIFICATION OverlapSpec
CONSTANTS
  p1 = p1
  p2 = p2
  p3 = p3
  w1 = w1
  w2 = w2
  k1 = k1
  k2 = k2
  NoPair = NoPair
  Pairs = {p1, p2, p3}
  Workers = {w1}
  Keys = {k1, k2}
  Sources <- OverlappingSources
  MaxInstant = 2
  MaxClock = 0
  MaxFaults = 1
INVARIANTS
  PlansHold
  FactFollowsPromoted
PROPERTIES
  PairsSettle
CHECK_DEADLOCK FALSE
