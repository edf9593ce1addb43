CONSTANTS
    k1 = k1
    k2 = k2
    Keys <- MCKeys
    NoObject = NoObject
    NoFile = NoFile
    NoAnnotation = NoAnnotation
    FilePaths <- MCFilePaths
    SpecsOf <- MCSpecsOf
    ServiceFaults = {"update", "delete", "get"}
    dbmode = "postgres"
    ClassName = "kong"
    Annotations = {NoAnnotation, "kong", "other"}
    ForeignFinalizers = TRUE
    StatusFaults = TRUE
    MaxEdits = 3
    MaxRestarts = 1
    MaxResyncs = 0
    CRDInitially = {TRUE}
    ClockSkew = FALSE
    InformerLag = TRUE
SPECIFICATION Spec
INVARIANT TypeOK
PROPERTY ImplementsKongFileSync
PROPERTY EventuallyConverged
INVARIANT ValidatedFileIntact
CHECK_DEADLOCK FALSE
