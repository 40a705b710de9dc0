SPECIFICATION FairSpec
CONSTANTS
    a = a
    b = b
    c = c
    d = d
    p = p
    w1 = w1
    w2 = w2
    Request <- AB
    Push <- Nothing
    Conflicts <- Nothing
    Worker <- BothWorkers
    Checkout <- BothWorkers
    CheckoutOf <- OwnCheckout
    NoLease = NoLease
    NoCommit = NoCommit
    MaxEntries = 2
    MaxCandidates = 9
    MaxBatch = 2
    MaxAttempts = 1
    Broken <- Nothing
    Flaky <- OnlyA
    PidReuse = TRUE
    OneMishap = TRUE
    Limit <- Mishaps
PROPERTIES
    OnlyCutMergesCharge
    SettledIsTold
    EveryEntrySettles
    LeaseComesBack
