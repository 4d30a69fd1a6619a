SPECIFICATION FairSpec
CONSTANTS
    WorkerDefault <- MCWorkerDefault
    ApiDefault <- MCApiDefault
    InsertDefault <- MCInsertDefault
    Seed <- MCSeed
    ThresholdStep = 100
    RatioStep = 10
    One = 1000
    NoRow = NoRow
    Clients = {c1}
    Requests <- MCPauses
    MaxRequests = 2
    MaxFaults = 0
INVARIANT OnlyAskedThresholds
