SPECIFICATION FairSpec
CONSTANTS
    Targets <- MCTargets
    Profiled = {"ingest", "drain", "recall"}
    RecordPhases = {"ingest"}
    NumAdds = 2
    NumSearches = 2
    AddWorkers = 2
    SearchWorkers = 2
    MaxTrouble = 2

    
    
PROPERTIES
    EventuallyOver
