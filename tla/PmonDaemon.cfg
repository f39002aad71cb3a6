SPECIFICATION Spec
CONSTANTS
  l1 = l1
  l2 = l2
  c1 = c1
  Nobody = Nobody
  ControlPlane <- Urls2
  Listener <- Listeners
  Conn <- Conns
  MaxSessions = 2
  MaxCommands = 3
INVARIANTS LoginIsWhole BrokersLoggedIn NothingOutlivesItsBroker RefusedIsCurrent EndedIssuesNothing SessionsAccounted
CONSTRAINTS Overlap OneUpset
SYMMETRY ListenerSymmetry
CHECK_DEADLOCK FALSE
