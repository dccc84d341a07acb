SPECIFICATION MCSpec
CONSTANTS
    Servers <- MCServers
    Callers <- MCCallers
    Managers <- MCManagers
    Allowed <- MCAllowed
    Catalogs <- MCCatalogs
    Transports <- MCTransports
    Documents <- MCDocuments
    EditedScopes = {"project"}
    MaxCalls = 2
    MaxReconnects = 1
    MaxEdits = 1
    None = None
    browser = browser run = run child = child m1 = m1
    Processes <- MCProcesses
    Identities <- MCIdentities
    Names <- MCNames
    MaxOps = 2
    Nobody = Nobody
    p1 = p1 p2 = p2 i1 = i1 i2 = i2
INVARIANTS GenerationsAreExact 
PROPERTIES HostSettles WritesAreTheirOwn
CHECK_DEADLOCK FALSE
