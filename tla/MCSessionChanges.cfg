SPECIFICATION MCSpec
CONSTANTS
    file1 = file1
    file2 = file2
    File1 = file1
    File2 = file2
    Paths = {file1, file2}
    MaxPaths = 2
    s0 = s0
    s1 = s1
    s2 = s2
    Sessions = {s1, s2}
    c0 = c0
    c1 = c1
    c2 = c2
    Calls = {c1, c2}
    Kinds <- OneFile
    None = None
    MaxQueue = 2
    MaxPasses = 1
    MaxGen = 3
    MaxIds = 2
    MaxToggles = 0
    LoneSession = s0
    LoneCall = c0
    ShortQueue = 1
    ChunkGen = 2
    ChunkToggles = 2
    a1 = a1
    a2 = a2
    a3 = a3
    Subs = {a1, a2, a3}
    Main = Main
    i1 = i1
    CallIds = {i1}
    MaxChild = 2
    MaxRevoked = 9
    MaxRoots = 1
    MaxPending = 2
    MaxDepth = 4
    ReusesIds = FALSE
    Agentless = {FALSE}
    MaxCalls = 2
CHECK_DEADLOCK FALSE
INVARIANTS  OriginalsExplained 
