CONSTANTS
    NumMessages = 3
    HandlerCounts = {0, 2}
    Dlq = {TRUE, FALSE}
    MaxStarts = 3
    MaxFaults = 3
    NumEvents = 3
    Stores = {"redis", "memory"}
    MaxReconnect = 1
    Transports = {"kafka", "service_bus"}
    MaxAttempts = 2
    QueueSize = 1
    MaxBridgeStarts = 2
    MaxBridgeFaults = 1
SPECIFICATION MCSpec
INVARIANTS
    NothingIsPassedOver
    SecondSightNeedsLoss

    
