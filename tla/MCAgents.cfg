CONSTANTS
    MaxIterations = 2
    MaxBlocks = 2
    AutoApprove = TRUE
    Invocations = {1, 2}
    MaxRetries = 2
    MaxAgentIterations = 4
    MaxFaults = 2
    Obedient = TRUE
    Specialists <- TwoRuns
    Slot = {1}
    MaxRounds = 1
    MaxSteps = 2
    MaxModelFaults = 1
    Execution = {1, 2, 3}
    Threshold = 2
    MaxLoopIterations = 2
    MaxLoops = 2
    Entity = {"a", "b"}
    MaxTrouble = 1
    MaxGateIterations = 1
SPECIFICATION MCSpec
INVARIANTS
    CompletionIsEarned
    StatusesAreHonest
    
    ClosedBelowThreshold
PROPERTY
    LoopsEnd
