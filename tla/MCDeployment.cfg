SPECIFICATION FairSpec
CONSTANTS
    NumGroups = 2
    GoldenGroups = {1, 2}
    Overlap = FALSE
    MaxDeploys = 2
    MaxForeign = 1
    MaxRivals = 1
INVARIANTS
    DeploymentInv
    ReplacedIsLeftAlone
PROPERTIES
    
    SealedIsKept
    RetriesFinish
