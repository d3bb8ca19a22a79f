SPECIFICATION Spec
CONSTANTS
  c1 = c1
  c2 = c2
  c3 = c3
  c4 = c4
  home = home
  away = away
  Calls = {c1, c2, c3}
  Values = {home, away}
  MaxInstant = 3
  Starts = {0, 1}
SYMMETRY Alike
INVARIANTS
  ChainInvariant
  OneVersionAsOf
  SupersededOnce
PROPERTIES
  AnswersStand
CHECK_DEADLOCK FALSE
