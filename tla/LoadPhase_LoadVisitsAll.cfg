CONSTANTS
    NumAccounts = 3
    Suspended = {2}
    BatchSize = 1
    Threshold = 50
    Worker = {w1}
    Pauser = {p}
    Completer = {c}
    DryRuns = {TRUE, FALSE}
    MaxFaults = 1
SPECIFICATION Spec
INVARIANT
    LoadVisitsAll
