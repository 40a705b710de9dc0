SPECIFICATION Spec
CONSTANTS
    a = a
    b = b
    c = c
    d = d
    p = p
    w1 = w1
    w2 = w2
    Request <- ABCD
    Push <- OnlyP
    Conflicts <- OnlyD
    Worker <- OnlyW1
    Checkout <- BothWorkers
    CheckoutOf <- OwnCheckout
    NoLease = NoLease
    NoCommit = NoCommit
    MaxEntries = 4
    MaxCandidates = 16
    MaxBatch = 3
    MaxAttempts = 2
    Broken <- CAndPairs
    Flaky <- Nothing
    PidReuse = TRUE
    OneMishap = FALSE
    Limit <- Pushes
INVARIANTS
    AttemptsAreVerdicts
    RetryBudget
    EvictionIsJust
PROPERTIES
    CandidateLifecycle
    KeepsItsPromise
