SPECIFICATION Spec
CONSTANTS
  c1 = c1
  d1 = d1
  None = None
  Adopts = FALSE
  TxDdl = TRUE
  Env = {"rollback"}
  Staleness = 1
  MaxTime = 0
  MaxDdl = 1
  MaxRecover = 1
  Conn = {c1}
  Datasource = {d1}
  DsOf <- OneDatasource
  Schema = {"app"}
  System = {}
INVARIANT CurrentWhenSettled
CHECK_DEADLOCK FALSE
