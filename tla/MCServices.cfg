CONSTANTS
    Tenant = {"t1", "t2"}
    Roles = {"migration_admin", "readonly"}
    Ttl = 1
    MaxEntries = 1
    IndexTtl = 1
    Migrations = {"m"}
    Booted = 2
    MaxTime = 2
    MaxVersion = 2
    ChunkSize = 5
    Overlap = 1
    MaxBytes = 10
    MaxRequests = 2
    MaxChanges = 1
    MaxFaults = 1
    Absent = Absent
    Threads = {"t1", "t2"}
    Agents = {"a"}
    MaxEvents = 3
    MaxCalls = 2
    MaxRuns = 3
    Tag = {"v1", "v2"}
    MaxScripts = 3
    MaxIterations = 2
    Records = {0, 49999, 50000, 499999, 500000, 1999999, 2000000, 2000001}
    Minutes = {5, 10}
    MaxOnce = 1
    MaxItems = 4
SPECIFICATION MCSpec
CHECK_DEADLOCK FALSE
INVARIANTS
    
    WatchersAreExact
    PassingMeansArrival
    DeploymentsHold
    AnswersAreFounded
PROPERTY
    ServicesEnd
