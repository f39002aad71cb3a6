SPECIFICATION FairSpec
CONSTANTS
  s1 = s1
  Session <- Openings1
  Held <- Openings1
  OneShot <- Openings1
  MaxStreams = 2
  EventBuffer = 1
INVARIANTS
  NothingAbandoned
  CleanExitIsComplete
PROPERTIES
  OpeningsEnd
  ConnectionsReleased
  HubEmpties
CHECK_DEADLOCK FALSE
