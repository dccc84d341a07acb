SPECIFICATION MCSpec
CONSTANTS
    Calls = 2
    MaxMessages = 6
    c1 = c1
    c2 = c2
    CallIds <- MCCallIds
    MaxTurns = 2
    Batches <- MCBatches
    NoTool = NoTool
    ToolCalls = {c1, c2}
    Histories <- MCHistories
    MaxAttempts = 2
    MaxFailures = 3
    MaxInvokes = 3
    NoCall = NoCall
    Disks <- MCDisks
    GitLevel = 1
    FilePaths = {"p", "q"}
    ParentTools = {"read_file", "bash", "ask_user_question", "skill"}
    ToolAliases <- MCAliases
    MaxSteps = 5
    Screens = {"s1", "s2"}
    Wizard = "w"
    Texts <- MCTexts
    InitialFiles <- MCFiles
    Profiles <- MCProfiles
    Layers <- MCLayers
    EnvSet = {"E1"}
    Themes <- MCThemes
    Statuslines <- MCStatuslines
    MaxChanges = 2
    MaxSessions = 3
    MaxRuns = 2
    MaxSwitches = 1
    FirstModel = "m0"
    OtherModels = {"m1"}
INVARIANTS
    StoredStateIsExact
    ProjectionIsWhole
    JournalIsExact
    
    
    SettingsAreExact
    EntriesAreExact
CHECK_DEADLOCK FALSE
