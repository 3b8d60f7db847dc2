CONSTANTS
    Client = {"c"}
    Window = 2
    Limit = 2
    BurstWindow = 1
    Burst = 1
    KeyLife = 1
    MaxRuns = 1
    MaxTime = 4
    MaxKeys = 2
    MaxFetching = 1
    Reader = {"r1", "r2"}
    NumBackends = 2
    CacheTtl = 2
    MaxRetries = 2
    Timeout = 1
    SecretTime = 3
    MaxVersion = 2
    MaxFaults = 1
    NumEvents = 3
    QueueSize = 2
    BufferSize = 2
    MaxStarts = 2
    Logger = {"a"}
    NumEntries = 5
    MaxTears = 2
    User = {"u"}
    Role = {"migration-admin", "migration-viewer"}
    Hour = 2
    RoleTime = 4
SPECIFICATION MCSpec
INVARIANTS
    AccessFades
    AuditIsComplete
PROPERTIES
    StaleThingsFade
    GuardsGetOn
