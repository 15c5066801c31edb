CONSTANTS
    j1 = j1
    j2 = j2
    e1 = e1
    e2 = e2
    NoExecutor = NoExecutor
    Jobs <- MCJobs
    Executors <- MCOneExecutor
    Priority <- MCPriority
    MaxRetriesBound = 1
    RetryBatch = 1
    MaxLapses = 0
    MaxJobs = 1
    MaxNetFaults = 0
    MaxStops = 0
    RejectedOutput <- MCRejectJ2
SPECIFICATION SysSpec
PROPERTY RetriesHappen
