CONSTANTS
    extract = extract
    load = load
    Phase <- MCPhase
    NoPhase = NoPhase
    Result <- MCResult
    Totals <- MCTotals
    Threshold = 50
    MaxPhases = 3
    MaxEvents = 4
    Sessions = {s1, s2}
    MaxEdits = 3
    MaxSaves = 2
    Starter = {j1, j2}
    Pauser = {p}
    Completer = {c}
    Loader = {l}
    MaxFaults = 1
SPECIFICATION MCSpec
SYMMETRY Symmetry
INVARIANTS
    Types
    LiveJobWithinThreshold
    HistoryIsCounted
    LogTellsStatus
    Admission
PROPERTIES
    VersionMovesWithState
    ImplementsLifecycle
    CheckCountsEdits
    UneditedSaveIsHarmless
    
