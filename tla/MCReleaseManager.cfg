CONSTANTS
    Releases <- MCReleases
    None = None
    Roles <- MCRoles
    MaxSaveFails = 1
    Disciplined = TRUE
SPECIFICATION Spec
INVARIANTS CommittedIsInstalled 
PROPERTIES CommitIsServed
