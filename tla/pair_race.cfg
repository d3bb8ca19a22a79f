SPECIFICATION Spec
CONSTANTS
  p1 = p1
  p2 = p2
  p3 = p3
  w1 = w1
  w2 = w2
  k1 = k1
  k2 = k2
  NoPair = NoPair
  Pairs = {p1, p2}
  Workers = {w1, w2}
  Keys = {k1, k2}
  Sources <- RaceSources
  MaxInstant = 1
  MaxClock = 0
  MaxFaults = 1
SYMMETRY Alike
INVARIANTS
  MembersAgree
  LegalHistory
  OneReadingPerInstant
CHECK_DEADLOCK FALSE
