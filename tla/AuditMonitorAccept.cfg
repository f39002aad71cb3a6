SPECIFICATION FairSpec
CONSTANTS
  Content = {x, y}
  MaxRows = 2
  TailBatch = 2
  Changes = {"edit"}
  MaxChanges = 1
  OperatorRuns = TRUE
  MaxTrouble = 0
PROPERTIES
  AcceptanceRestoresCoverage
