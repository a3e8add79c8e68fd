SPECIFICATION FairSpec
CONSTANTS
    Channels    <- MCChannels
    Conns       <- MCConns
    Requests    <- MCRequests
    ChannelOf   <- MCChannelOf
    ConnOf      <- MCConnOf
    IdOf        <- MCIdOf
    KeyOf       <- MCKeyOf
    Recorded    <- MCRecorded
    concurrency <- MCConcurrency
    copies      = 1
INVARIANTS
    PublishedInv
PROPERTIES
    ImplementsOutcome
    MainReturns
CHECK_DEADLOCK FALSE
