SPECIFICATION FairSpec
CONSTANTS
    NumCases = 7
    NoKey = "none"
    Key <- MCKey
    DependsOn <- MCDependsOn
    Judged <- MCJudged
    QaConcurrency = 2
    JudgeConcurrency = 1
INVARIANTS
    CoordinatorInv
    GroupBarrier
PROPERTIES
    ImplementsLedger
    EventuallyEnds
