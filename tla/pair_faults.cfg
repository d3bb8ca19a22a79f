SPECIFICATION Spec
CONSTANTS
  p1 = p1
  p2 = p2
  p3 = p3
  w1 = w1
  w2 = w2
  k1 = k1
  k2 = k2
  NoPair = NoPair
  Pairs = {p1}
  Workers = {w1, w2}
  Keys = {k1, k2}
  Sources <- FaultSources
  MaxInstant = 1
  MaxClock = 1
  MaxFaults = 3
SYMMETRY Alike
CONSTRAINT FaultsWithinBudget
INVARIANTS
  PairInvariant
  BundleIffUsableInTime
PROPERTIES
  EvidenceIsPermanent
  ReturnsSettled
  ImplementsLifecycle
CHECK_DEADLOCK FALSE
