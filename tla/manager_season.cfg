SPECIFICATION Spec
CONSTANTS
  a = a
  b = b
  c = c
  d = d
  ChipRules <- Chips
  MaxTransfers = 2
  HitPoints <- MinusFour
  Players <- Pool
  LegalSquads <- TwoOfThree
  EventRules <- Events
  MaxFree = 2
  TransferLimit = 2
  HitCost = 4
  RetainedOf = 1
  RetainedIn = 2
  PriceLists <- TwoLists
  Openings <- OneOpening
  OpeningBank = 1
  MinConfirmed <- MinusOne
  MaxConfirmed = 2
  Banks = {0}
  Payments <- JustMinusOne
  MaxGameweek = 4
INVARIANTS
  StateIsCoherent
  RulesAndPlannerAgree
  ChipsKeepToTheirInventory
  FreeTransfersAreEarned
PROPERTIES
  FreeHitLeavesNoTrace
  TransfersConserveValue
CHECK_DEADLOCK FALSE
