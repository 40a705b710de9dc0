SPECIFICATION FairSpec
CONSTANTS
    a = a
    b = b
    c = c
    d = d
    p = p
    w1 = w1
    w2 = w2
    Request <- AB
    Push <- Nothing
    Conflicts <- Nothing
    Worker <- BothWorkers
    Checkout <- BothWorkers
    CheckoutOf <- OwnCheckout
    NoLease = NoLease
    NoCommit = NoCommit
    MaxEntries = 2
    MaxCandidates = 4
    MaxBatch = 1
    MaxAttempts = 1
    Broken <- Nothing
    Flaky <- Nothing
    PidReuse = TRUE
    OneMishap = FALSE
    Limit <- Overruns
PROPERTY LandsOnlyUnderLease
