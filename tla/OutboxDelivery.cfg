SPECIFICATION Spec
CONSTANTS
    w1 = w1
    w2 = w2
    e1 = e1
    e2 = e2
    mainId = mainId
    None = None
    Workers <- MCWorkers
    Entries <- MCEntries
    WorkerIds <- MCWorkerIds
    WorkerIdOf <- MCSharedId
    BatchSize = 2
    LeaseSeconds = 1
    MaxRetries = 2
    MaxFaults = 1
    MaxRequeues = 1
SYMMETRY MCSymmetry
INVARIANTS
    DeliveredWasPublished
    GivenUpOnlyAfterMaxRetries
    UnsettledIsClaimable
PROPERTY ImplementsChannel
CHECK_DEADLOCK FALSE
