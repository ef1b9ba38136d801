\* Two processes, 2 chunks a store, 2 faults, links written back between invocations.
CONSTANTS
  p1 = p1
  p2 = p2
  Procs = {p1, p2}
  Chunks = 2
  MaxFaults = 2
  LateWriteback = FALSE
SPECIFICATION FairSpec
INVARIANTS
  HoldoutIsOneShot
  
  
  
  
PROPERTIES
  AuditsAreSound
  RunsEnd
