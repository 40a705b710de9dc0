SPECIFICATION Spec
CONSTANTS
    worker = worker
    p1 = p1
    Worker = worker
    Prune <- OnePrune
    NoFile = NoFile
    MaxCandidates = 3
    MaxExecutions = 3
    Output <- Outputs
    MaxLogSize = 2
    Marker = 1
    LogBudget = 3
    Limit <- OnlyFaults
INVARIANT ReasonSurvives
