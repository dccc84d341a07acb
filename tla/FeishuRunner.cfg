SPECIFICATION Spec
CONSTANTS
    t1 = t1
    t2 = t2
    t3 = t3
    k1 = k1
    k2 = k2
    None = None
    Limits = {1, 2}
    Buffer = 1
    Tasks <- MCTasks
    Keys <- MCKeys
    SessionOf <- MCSessionOf
INVARIANTS
    SchedulerIsExact
PROPERTIES
    ImplementsExecutor
    AcceptedIsSettled
CHECK_DEADLOCK FALSE
