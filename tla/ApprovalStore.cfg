SPECIFICATION MCSpec
CONSTANTS
    w1 = w1
    w2 = w2
    w3 = w3
    c1 = c1
    c2 = c2
    c3 = c3
    c4 = c4
    i1 = i1
    i2 = i2
    i3 = i3
    t1 = t1
    t2 = t2
    t3 = t3
    k1 = k1
    k2 = k2
    l1 = l1
    l2 = l2
    l3 = l3
    None = None
    Nothing = Nothing
    Tasks <- MCTasks
    Keys <- MCKeys
    LockIds <- MCLockIds
    Waits <- MCWaits
    Callbacks <- MCCallbacks
    Ids <- MCIds
    RequestId <- MCRequestId
    CallbackId <- MCCallbackId
    Verdict <- MCVerdict
    Commands <- MCCommands
    Supervised <- MCSupervised
    ReadOnly <- MCReadOnly
    MaxSurprises = 2
INVARIANTS
    LockIsSafe
    VerdictsAreHonoured
    ProcessesAreContained
PROPERTIES
    WaitsEnd
CHECK_DEADLOCK FALSE
