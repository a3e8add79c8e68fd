SPECIFICATION LedgerSpec
CONSTANTS
    Runs = {r1, r2}
    NoRun = NoRun
    Prompts = {q1, q2}
    Missing = Missing
    NumAttempts = 2
    NumCalls = 2
    NumPolls = 3
    MaxTrouble <- MCMaxTrouble
SYMMETRY PromptSymmetry
INVARIANTS
    LedgerInv

    
    
CHECK_DEADLOCK FALSE
