CONSTANTS
    MaxIterations = 2
    MaxBlocks = 2
    AutoApprove = TRUE
SPECIFICATION Spec
INVARIANT
    ApprovalUnblocks
