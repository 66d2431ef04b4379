SPECIFICATION FairSpec
CONSTANTS
    MaxRetry = 1
    MaxChunk = 2
    BadIsLast = TRUE
    MaxRev = 2
    MaxEpoch = 2
CHECK_DEADLOCK FALSE
  
PROPERTIES StreamProgress
