CONSTANTS
  a = a
  c1 = c1
  Ids = {a}
  StoreIds = {a}
  GenModulus = 1
  Callers = {c1}
  Policies = {"always", "on_failure", "never"}
  Targets = {TRUE, FALSE}
  MaxRetries = 1
  QueueCap = 1
  MaxInc = 6
  MaxOps = 4
  Ops = {"create", "kill", "remove", "terminate", "exit", "claim", "dispose", "output", "stop", "sweep", "spawn_fault", "thread_fault", "wait_fault", "unavailable", "target_fault", "store_fault"}
SPECIFICATION Spec
CHECK_DEADLOCK FALSE
INVARIANTS TypeOK DisposalIsExclusive OneIdentity  SessionsAgree
PROPERTIES ImplementsSlots NeverResurrect EventsMonotone HandoffFreezesFleet
