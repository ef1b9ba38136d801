SPECIFICATION Spec
CONSTANTS
  r1 = r1
  r2 = r2
  n1 = n1
  w1 = w1
  w2 = w2
  NoOwner = NoOwner
  Real <- MCReal
  Null <- MCNull
  Parent <- MCParent
  Owners <- MCOwners
  RealBudget = 2
  NullBudget = 1
  Threshold = 2
  LeaseTicks = 2
  MaxWait = 1
INVARIANTS
  LedgerAgrees
  CountsAgree
  NoOrphanWhileOpen
PROPERTIES
  TriggersNeverAbort
  KeepsContract
