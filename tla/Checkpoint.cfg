SPECIFICATION MCSpec
CONSTANTS
    f1 = f1 absent = absent a = a b = b
    Files <- MCFiles
    Contents <- MCContents
    Absent = absent
    Retained = 2
    MaxSeq = 4
    MaxVersion = 4
    MaxEvents = 3
    NumSlugs = 1
    MaxTurns = 1
    MaxIndex = 1
    MaxRuns = 2
    MaxWrites = 2
    MaxRequests = 2
    MaxText = 1
    Efforts <- MCEfforts
    QuestionInputs <- MCQuestionInputs
SYMMETRY MCSymmetry
INVARIANTS  MemoryIsSafe 
CHECK_DEADLOCK FALSE
