SPECIFICATION AutodevSpec
CONSTANTS
    Unset = Unset
    Pipeline <- MCPipeline
    RemoteSteps <- MCRemoteSteps
    Backlogs <- MCBacklogs
    Ledgers <- MCLedgers
    MaxCandidates = 2
    MaxAttempts = 5
    MaxFaults = 2
    MaxResets = 1
CHECK_DEADLOCK FALSE
INVARIANTS
    LedgerIsTrue
    WorkflowAccepted
PROPERTIES
    WorkIsMonotone
