\* Three deployments of the catalog side by side.
SPECIFICATION DeploymentSpec
CONSTANTS
  c1 = c1
  c2 = c2
  c3 = c3
  c4 = c4
  d1 = d1
  d2 = d2
  d3 = d3
  None = None
  Adopts = TRUE
  TxDdl = FALSE
  Env = {"outside", "recover", "slow"}
  Staleness = 0
  MaxTime = 1
  MaxDdl = 1
  MaxRecover = 1
  Conn = {c1, c2, c3, c4}
  Datasource = {d1, d2, d3}
  DsOf <- Bindings
  Schema = {"app"}
  System = {"app"}
SYMMETRY Twins
INVARIANT HeldIsPooled
INVARIANT DecidedOnEvidence
INVARIANT CommitRefreshes
 
CHECK_DEADLOCK FALSE
