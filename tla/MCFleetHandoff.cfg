CONSTANTS
  a = a
  Ids = {a}
  IncSet = {1, 2}
  GenModulus = 3
SPECIFICATION Spec
INVARIANTS WatchedIsCurrent
PROPERTIES ClaimOnObserved
