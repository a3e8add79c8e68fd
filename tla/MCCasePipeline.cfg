SPECIFICATION FairSpec
CONSTANTS
    s1 = s1
    s2 = s2
    e1 = e1
    e2 = e2
    e3 = e3
    e4 = e4
    q1 = q1
    q2 = q2
    Samples = {s1, s2}
    NoSample = NoSample
    Events = {e1, e2, e3, e4}
    Questions = {q1, q2}
    NumCheckpoints = 3
    SampleOf <- MCSampleOf
    Pending <- MCPending
    QaConcurrency = 2
    MaxRetries = 1
    Thresholds <- MCThresholds
INVARIANTS
    AnswersSeeTheHistory
    MemoryInv
    
PROPERTIES
    EveryCaseSettles
