SPECIFICATION FairSpec
CONSTANTS
  Content = {x}
  MaxRows = 2
  TailBatch = 1
  Changes = {"delete"}
  MaxChanges = 1
  OperatorRuns = TRUE
  MaxTrouble = 1
PROPERTIES
  CoverageReached
  BreakHalts
  HaltEnds
