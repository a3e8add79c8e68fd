SPECIFICATION FairSpec
CONSTANTS
    NumSessions = 2
    SampleOf <- MCSampleOf
    Configs <- MCConfigs
    Parallel = 2
    JudgeParallel = 2
    Tries = 2
    MaxPending = 1
    MaxTrouble = 2

    
    
    
PROPERTIES
    RowsAreKept
    EventuallyReported
