SPECIFICATION Spec
CONSTANTS
  Content = {x, y}
  MaxRows = 2
  TailBatch = 2
  Changes = {"edit", "delete", "restore"}
  MaxChanges = 1
  OperatorRuns = TRUE
  MaxTrouble = 1
SYMMETRY ContentSymmetry
INVARIANTS
  ExportPrecedesAnchor
  WitnessIsGenuine
PROPERTIES
  HaltClearsWhenAccounted
  AnchorsAreKept
