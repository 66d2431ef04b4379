CONSTANTS
    p1 = p1
    i1 = i1
    i2 = i2
    Pages = {p1}
    Identities = {i1, i2}
    Only = i1
    MaxAttempts = 3
    MaxRecords = 2
    MaxGeneration = 2
    Reloads = 1
    LateRequests = TRUE
    StorageFails = TRUE
SPECIFICATION MCSpec
CHECK_DEADLOCK FALSE
  
PROPERTIES LaunchSettles
