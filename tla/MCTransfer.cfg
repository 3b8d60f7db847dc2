CONSTANTS
    NumPages = 3
    LastPartial = TRUE
    MaxRuns = 3
    MaxFaults = 3
    NumAccounts = 3
    Suspended = {2}
    BatchSize = 1
    Threshold = 50
    Worker = {w1, w2}
    Pauser = {p}
    Completer = {p}
    DryRuns = {TRUE, FALSE}
    MaxLoadFaults = 1
    NumRows = 3
    RowsPerBatch = 2
    Rejected = {2}
    MaxRetries = 2
    MaxPct = 50
    Operations = {"insert", "upsert"}
    MaxBulkFaults = 2
    Retries = 1
    MaxPipelineRuns = 2
    MaxTaskFaults = 2
SPECIFICATION MCSpec
INVARIANTS
    EverythingCountedOnce
    
PROPERTIES
    
    TransfersEnd
