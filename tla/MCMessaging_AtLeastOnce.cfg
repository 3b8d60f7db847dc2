CONSTANTS
    e1 = e1
    e2 = e2
    e3 = e3
    e4 = e4
    accounts = accounts
    contacts = contacts
    Event <- MCEvent
    TopicOf <- MCTopicOf
    Adapter = "ServiceBus"
    BatchSize = 2
    ChunkSize = 1
    MaxRetries = 3
    MaxFaults = 2
    Call = {c1, c2, c3}
    Message = {m1, m2}
    c3 = c3
    m1 = m1
    m2 = m2
    NumHandlers = 2
    MaxHandlerRetries = 1
    MaxConcurrent = 2
    MaxRedisFaults = 2
    MaxMemoryFaults = 1
    MaxExpiries = 1
SPECIFICATION BusSpec
PROPERTY
    AtLeastOnce
