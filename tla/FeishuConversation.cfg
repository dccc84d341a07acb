SPECIFICATION MCSpec
CONSTANTS
    Sessions <- MCSessions
    Ids <- MCSessions
    IdOf <- MCIdOf
    Runs <- MCRuns
    Recoverers = {}
    Capacity = 2
    None = None
    Factory = Factory
    Delegations <- MCDelegations
    ChildSession <- MCChildSession
    ChildCall <- MCChildCall
    ExternalTools <- MCExternal
    TrustedReaders <- MCReaders
    ParentSurfaces <- MCSurfaces
    s1 = s1 s2 = s2 s3 = s3 t1 = t1 t2 = t2 t3 = t3
INVARIANTS LiveSessionIsExact ChildIsContained
PROPERTIES TasksEnd ChildrenEnd
CHECK_DEADLOCK FALSE
