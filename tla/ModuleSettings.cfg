SPECIFICATION FairSpec
CONSTANTS
    WorkerDefault <- MCWorkerDefault
    ApiDefault <- MCApiDefault
    InsertDefault <- MCInsertDefault
    Seed <- MCSeed
    ThresholdStep = 100
    RatioStep = 10
    One = 1000
    NoRow = NoRow
    Clients = {c1, c2}
    Requests <- MCRequests
    MaxRequests = 3
    MaxFaults = 1
INVARIANT TypeOK
PROPERTY ConcurrentFieldsKept
PROPERTY SettingsReachWorker
