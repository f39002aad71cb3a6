SPECIFICATION Spec
CONSTANTS
  Writer = {k, g}
  Event = {x, y}
  None = None
  MaxId = 3
  Digest <- MCDigest
  Genesis <- MCGenesis
  RowHash <- MCRowHash
INVARIANTS
  ChainVerifies
  ReaderMissesNothing
PROPERTIES
  AppendOnlyLog
