SPECIFICATION LeaseFairSpec
CONSTANTS
    None = None
    a = a
    b = b
    i1 = i1
    i2 = i2
    q1 = q1
    q2 = q2
    Runs = {a, b}
    Ingests = {i1, i2}
    Questions = {q1, q2}
    RunOf <- MCRunOf
    MaxAttempts = 2
INVARIANTS
    QaMemoryIsExactlyTheCaptures
    LeaseKeepsApart

    
