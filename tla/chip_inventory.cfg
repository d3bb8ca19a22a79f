SPECIFICATION Spec
CONSTANTS
  Tokens = {1, 2, 3}
  Bundles <- Bundles4
  MaxGameweek = 5
  MaxHistory = 4
INVARIANTS
  ExerciseInvariant
  OccupancyWithinLimit
  PendingIsCurrent
  RightsFollowTheirGrant
  HistoryInOrder
  AdvanceComposes
  SingleSelectionsValidate
CHECK_DEADLOCK FALSE
