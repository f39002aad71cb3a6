\* Two clients, on one slot and on two: every race of the accept loop, the handlers and
\* the drainer.
SPECIFICATION PairFairSpec
CONSTANTS
  Conn = {c1, c2}
  MaxConnections = 2
  SlowServe = FALSE
INVARIANTS
  SlotsAccounted
  NoStrandedRead
  CleanDrainIsComplete
PROPERTY StartReturns
CHECK_DEADLOCK FALSE
