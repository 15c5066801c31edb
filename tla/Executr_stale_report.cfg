CONSTANTS
    j1 = j1
    j2 = j2
    e1 = e1
    e2 = e2
    NoExecutor = NoExecutor
    Jobs <- MCOneJob
    Executors <- MCExecutors
    Priority <- MCPriority
    MaxRetriesBound = 1
    RetryBatch = 1
    MaxLapses = 1
    MaxJobs = 1
    MaxNetFaults = 1
    MaxStops = 1
    RejectedOutput = {}
SPECIFICATION SysSpec
INVARIANT StaleReportDropped
