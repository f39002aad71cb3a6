SPECIFICATION Spec
CONSTANTS
  a1 = a1
  c1 = c1
  Approver <- Approvers
  Canceller <- Cancellers
  MaxStatements = 2
  MaxRevision = 2
  MaxDecisions = 2
  MaxStops = 0
  MaxFaults = 0
INVARIANT CanceledQueryStops
CHECK_DEADLOCK FALSE
