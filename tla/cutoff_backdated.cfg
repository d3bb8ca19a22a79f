SPECIFICATION Spec
CONSTANTS
  p1 = p1
  p2 = p2
  p3 = p3
  w1 = w1
  w2 = w2
  k1 = k1
  k2 = k2
  NoPair = NoPair
  Pairs = {p1}
  Workers = {w1, w2}
  Keys = {k1, k2}
  Sources <- FaultSources
  MaxInstant = 2
  MaxClock = 2
  MaxFaults = 0
SYMMETRY Alike
INVARIANTS
  PublishedWasPromotedBeforeCutoff
CHECK_DEADLOCK FALSE
