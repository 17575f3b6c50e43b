SPECIFICATION FairSpec
CONSTANTS
    w1 = w1
    w2 = w2
    e1 = e1
    e2 = e2
    mainId = mainId
    None = None
    Workers <- MCWorkers
    Entries <- MCOneEntry
    WorkerIds <- MCWorkerIds
    WorkerIdOf <- MCSharedId
    BatchSize = 1
    LeaseSeconds = 1
    MaxRetries = 2
    MaxFaults = 2
    MaxRequeues = 1
PROPERTY EveryEntrySettles
CHECK_DEADLOCK FALSE
