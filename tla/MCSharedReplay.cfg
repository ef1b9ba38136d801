CONSTANTS
  Grid <- MCGrid
  Scenario <- MCScenario
  MaxQuoteAge = 1
  FirstTouchSessions = 1
  Contracts = {"H", "M"}
  SeedLists <- MCSeedLists
  Inputs <- MCInputs
  MaxDates = 1
SPECIFICATION Spec
CHECK_DEADLOCK FALSE
INVARIANTS
  OccupancyIsExact
  Restorable
  AgreesWithBarriers
  LabelsAreFirstTouch
  SeesExactlyThePast
  EntriesFollowTheRoute
  OneResultPerIdentity
