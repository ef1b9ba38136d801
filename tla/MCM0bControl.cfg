SPECIFICATION Spec
CONSTANTS
  r1 = r1
  n1 = n1
  shift = shift
  t1 = t1
  t2 = t2
  t3 = t3
  t4 = t4
  Real <- MCReal
  Null <- MCNull
  Parent <- MCParent
  Ordinal <- MCOrdinal
  Controls <- MCControls
  ControlOf <- MCControlOf
  Admitted <- MCAdmitted
  Tokens <- MCTokens
  RealBudget = 1
  NullBudget = 1
  MaxAttempts = 2
  Shards = 2
  LeaseTicks = 2
  CheckpointTicks = 1
  MaxWait = 1
SYMMETRY MCSymmetry
INVARIANTS
  TablesAgree
  CompleteWorkKept
PROPERTIES
  TriggersNeverAbort
  LiveLeaseNotTaken
  KeepsContract
CHECK_DEADLOCK FALSE
