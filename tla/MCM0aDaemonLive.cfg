SPECIFICATION FairDaemonSpec
CONSTANTS
  r1 = r1
  n1 = n1
  p1 = p1
  p2 = p2
  o1 = o1
  o2 = o2
  NoOwner = NoOwner
  Real <- MCReal
  Null <- MCNull
  Parent <- MCParent
  Owners <- MCOwners
  RealBudget = 1
  NullBudget = 1
  Threshold = 2
  LeaseTicks = 1
  MaxWait = 0
  Workers <- MCWorkers
  OwnersOf <- MCOwnOwners
  Plan <- MCPlan
  KeepAlive = TRUE
  Outcomes = {"SCREENED_OUT", "silentError"}
PROPERTIES
  EpochEnds
