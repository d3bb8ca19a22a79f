SPECIFICATION FairSpec
CONSTANTS
  Snapshots = {1, 2}
  Workers = {w1, w2}
  Sources <- Assigned
  StaleAfter = 1
  MaxClock = 2
  AsOfTimes = {1}
  MaxIncidents = 1
  MaxReads = 1
INVARIANTS
  PublicationInvariant
  NoLookAhead
  AnswersAgree
  ChosenStaysEligible
PROPERTIES
  ReadsSettle
  EveryBatchAttested
CHECK_DEADLOCK FALSE
