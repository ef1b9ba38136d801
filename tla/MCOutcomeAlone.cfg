\* Two drivers of one query: 3 source dates, 2 faults, fair.
CONSTANTS
  p5 = p5
  p4_01 = p4_01
  p4_02 = p4_02
  d1 = d1
  d2 = d2
  Queries <- OneQuery
  Pair = {}
  Lineages <- DateSequences
  NoLineage = NoLineage
  Messages = {"timeout", "drift"}
  NoError = NoError
  SourceDates = 3
  MaxAttempts = 4
  Drivers = {d1, d2}
  Unit <- Alone
  MaxFaults = 2
SPECIFICATION FairSpec
INVARIANTS
  EveryDateOnce
  DriversNeverDrift
PROPERTIES
  PublishedEventually
