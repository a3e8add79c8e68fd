SPECIFICATION Spec
CONSTANTS
    Runs = {r1, r2}
    NoRun = NoRun
    Instances <- MCInstances
SYMMETRY Symmetry
INVARIANTS
    MemoriesAreClean
    
    PluginInv
CHECK_DEADLOCK FALSE
