SPECIFICATION Spec
CONSTANTS
  c1 = c1
  c2 = c2
  c3 = c3
  c4 = c4
  home = home
  away = away
  Calls = {c1, c2, c3}
  Values = {home, away}
  MaxInstant = 2
  Starts = {0}
SYMMETRY Alike
INVARIANTS
  OlderReplayNeverSupersedes
CHECK_DEADLOCK FALSE
