SPECIFICATION ListingSpec
CONSTANTS
    a = a
    b = b
    c = c
    d = d
    p = p
    w1 = w1
    w2 = w2
    Request <- AB
    Push <- Nothing
    Conflicts <- Nothing
    Worker <- BothWorkers
    Checkout <- BothWorkers
    CheckoutOf <- OwnCheckout
    NoLease = NoLease
    NoCommit = NoCommit
    MaxEntries = 2
    MaxCandidates = 13
    MaxBatch = 2
    MaxAttempts = 1
    Broken <- ABTogether
    Flaky <- Nothing
    PidReuse = TRUE
    OneMishap = FALSE
    Limit <- Overruns
SYMMETRY Symmetry
INVARIANTS
    BaseStaysGreen
    MergedIsOnBase
    ListsAllThatStayed
PROPERTY
    NothingOnBaseIsLost
