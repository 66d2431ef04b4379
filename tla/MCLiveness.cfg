CONSTANTS
  a = a
  c1 = c1
  Ids = {a}
  StoreIds = {a}
  GenModulus = 1
  Callers = {c1}
  Policies = {"always"}
  Targets = {FALSE}
  MaxRetries = 1
  QueueCap = 1
  MaxInc = 8
  MaxOps = 5
  Ops = {"create", "exit", "claim", "stop", "dispose", "remove", "terminate", "store_fault"}
SPECIFICATION FairSpec
CHECK_DEADLOCK FALSE
PROPERTIES RestartResolved ShutdownCompletes
