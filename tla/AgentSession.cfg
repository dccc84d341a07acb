SPECIFICATION Spec
CONSTANTS
    Sessions <- MCSessions
    Ids <- MCIds
    IdOf <- MCIdOf
    Runs <- MCRuns
    Recoverers <- MCRecoverers
    Capacity = 1
    None = None
    s1 = s1 s2 = s2 s3 = s3 i1 = i1 i2 = i2 r1 = r1 r2 = r2 r3 = r3 c1 = c1 c2 = c2
SYMMETRY MCSymmetry
INVARIANTS
    AdmissionIsExact
PROPERTIES ServicesOutliveRuns
CHECK_DEADLOCK FALSE
