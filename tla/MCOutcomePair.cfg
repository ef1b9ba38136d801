\* Two drivers of the P4 pair: 1 source date, 1 fault.
CONSTANTS
  p5 = p5
  p4_01 = p4_01
  p4_02 = p4_02
  d1 = d1
  d2 = d2
  Queries <- ThePair
  Pair <- ThePair
  Lineages <- DateSequences
  NoLineage = NoLineage
  Messages = {"timeout", "drift"}
  NoError = NoError
  SourceDates = 1
  MaxAttempts = 4
  Drivers = {d1, d2}
  Unit <- Together
  MaxFaults = 1
SPECIFICATION Spec
SYMMETRY AnyDriver
INVARIANTS
  RegistryAgrees
  PipelineTypeOK
PROPERTIES
  ReportsStayTrue
  KeepsContract
