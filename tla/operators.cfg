SPECIFICATION Spec
CONSTANTS
    a = a
    b = b
    c = c
    d = d
    p = p
    w1 = w1
    w2 = w2
    Request <- ABC
    Push <- Nothing
    Conflicts <- OnlyC
    Worker <- OnlyW1
    Checkout <- BothWorkers
    CheckoutOf <- OwnCheckout
    NoLease = NoLease
    NoCommit = NoCommit
    MaxEntries = 3
    MaxCandidates = 12
    MaxBatch = 2
    MaxAttempts = 2
    Broken <- ABreaks
    Flaky <- Nothing
    PidReuse = TRUE
    OneMishap = FALSE
    Limit <- CommandsAndCheckout
INVARIANTS
    MergedIsOnBase
    RetriesGoAlone
PROPERTIES
    NobodyOvertakes
    KeepsItsPromise
