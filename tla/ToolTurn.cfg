SPECIFICATION Spec
CONSTANTS
    ReviewerAttempts = 2
    Verdicts <- MCVerdicts
    MaxModeChanges = 1
    RunKinds = {"interactive", "formal", "headless"}
    Batches <- MCBatches
    MaxTurns = 4
CHECK_DEADLOCK FALSE
INVARIANTS CallsRunInOrder CompletionIsEarned
PROPERTIES NothingRunsUnapproved PlanGatesWork CancelledRunEnds
