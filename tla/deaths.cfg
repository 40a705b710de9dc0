SPECIFICATION Spec
CONSTANTS
    a = a
    b = b
    c = c
    d = d
    p = p
    w1 = w1
    w2 = w2
    Request <- AB
    Push <- OnlyP
    Conflicts <- Nothing
    Worker <- BothWorkers
    Checkout <- BothWorkers
    CheckoutOf <- OwnCheckout
    NoLease = NoLease
    NoCommit = NoCommit
    MaxEntries = 2
    MaxCandidates = 10
    MaxBatch = 2
    MaxAttempts = 2
    Broken <- Nothing
    Flaky <- OnlyA
    PidReuse = TRUE
    OneMishap = FALSE
    Limit <- Deaths
SYMMETRY Symmetry
INVARIANTS
    TypeOK
    OneIntegrator
    AtMostOneUnfinished
    BatchedIsInFlight
    ToldTheTruth
PROPERTIES
    OnlyGatedLands
    EntryLifecycle
    KeepsItsPromise
