SPECIFICATION MCSpec
CONSTANTS
    c1 = c1
    c2 = c2
    NoConflict = NoConflict
    Conflicts = {c1, c2}
    Single = c1
    SideOnly = {c2}
    MaxText = 2
    MaxHist = 1
    MaxSkew = 1
    MaxAttempts = 2
    SourceBytes = 1
    MaxDraftBytes = 20
    MaxTotalBytes = 60
    MaxVersion = 2
    MaxGen = 2
    MaxOutside = 1
    MaxDirty = 3
    TightSource = 2
    TightDraft = 8
    TightTotal = 7
    TightDirty = 2
INVARIANTS ApplyIsSafe RecoveryKeepsText
PROPERTIES EvictsOnlyClean
