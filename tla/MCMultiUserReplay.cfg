SPECIFICATION FairSpec
CONSTANTS
    NumUsers = 4
    NumInstances = 3
    InstanceOf <- MCInstanceOf
    Adds <- MCAdds
    Searches <- MCSearches
    Paced = {1}
    MaxWorkers = 2
    MaxInflight <- MCMaxInflight
    Drains = TRUE
    MaxUsersFailed = 2
INVARIANTS
    SlotsInv
    
    
PROPERTIES
    EveryoneServed
