SPECIFICATION FairSpec
CONSTANTS
  a1 = a1
  c1 = c1
  Approver <- Approvers
  Canceller <- Cancellers
  MaxStatements = 3
  MaxRevision = 2
  MaxDecisions = 2
  MaxStops = 2
  MaxFaults = 1
INVARIANTS RunsWhatWasApproved RunsInOrder CancelFollowsQuery  AnnouncedAsEnded
PROPERTY RunSettles
CHECK_DEADLOCK FALSE
