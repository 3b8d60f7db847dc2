CONSTANTS
    Requests = {r1, r2, r3}
    Threshold = 2
    MaxAttempts = 2
    YoungHost = FALSE
    MaxUpsets = 1
    Window = 2
    MaxRequests = 2
    ToolThreshold = 2
    Recovery = 2
    MaxRetries = 2
    Factor = 2
    MaxDelay = 4
    MaxTime = 6
    Tasks = {"paginate", "none", "page_number", "offset", "cursor", "link_header", "query",
             "ingest", "bulk_query"}
    Keys = {1, 2, 3}
    Starts = {{}, {1, 3}, {1, 2, 3}}
    Size = 2
    Caps = {1, 2}
    MaxPolls = 2
    MaxChanges = 2
    MaxFaults = 2
SPECIFICATION MCSpec
INVARIANTS
    AnswersAreHeeded
    TrafficIsBounded
    
PROPERTY
    AllRequestsEnd
