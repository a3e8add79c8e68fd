SPECIFICATION InstanceSpec
CONSTANTS
    NumInstances = 2
    Managed <- MCManaged
    OpenClaw = TRUE
    MaxSignals = 2
INVARIANTS
    InstanceInv
    NothingLeftBehind
    CompletedIsComplete
