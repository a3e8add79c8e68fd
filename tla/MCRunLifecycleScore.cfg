SPECIFICATION Spec
CONSTANTS
    Channels    <- MCChannels
    Conns       <- MCConns
    Requests    <- MCRequests
    ChannelOf   <- MCChannelOf
    ConnOf      <- MCConnOf
    IdOf        <- MCIdOf
    KeyOf       <- MCKeyOf
    Recorded    <- MCRecorded
    concurrency <- MCConcurrency
    copies      = 1
INVARIANTS
    ScoreOnlyOfValidRuns
CHECK_DEADLOCK FALSE
