SPECIFICATION RunnerSpec
CONSTANTS
  r1 = r1
  t1 = t1
  t2 = t2
  t3 = t3
  t4 = t4
  w1 = w1
  w2 = w2
  NoToken = NoToken
  Real <- MCReal
  Null <- MCNull
  Parent <- MCParent
  Ordinal <- MCOrdinal
  Controls <- MCControls
  ControlOf <- MCControlOf
  Admitted <- MCReal
  Tokens <- MCTokens
  Workers <- MCWorkers
  RealBudget = 1
  NullBudget = 1
  MaxAttempts = 2
  Shards = 2
  LeaseTicks = 2
  CheckpointTicks = 1
  MaxWait = 1
  Faults = {"kill", "torn", "lost", "error", "stall"}
  MaxFaults = 2
SYMMETRY MCWorkerSymmetry
INVARIANTS
  FilesAgree
  RunnerTypeOK
PROPERTIES
  FilesOutliveKills
CHECK_DEADLOCK FALSE
