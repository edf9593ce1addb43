CONSTANTS
    k1 = k1
    k2 = k2
    Keys <- MCKeys
    NoObject = NoObject
    NoFile = NoFile
    NoAnnotation = NoAnnotation
    FilePaths <- MCFilePaths
    SpecsOf <- MCFixedPathSpecsOf
    ServiceFaults = {}
    dbmode = "postgres"
    ClassName = "kong"
    Annotations = {"kong"}
    ForeignFinalizers = FALSE
    StatusFaults = FALSE
    MaxEdits = 3
    MaxRestarts = 0
    MaxResyncs = 1
    CRDInitially = {TRUE}
    ClockSkew = FALSE
    InformerLag = FALSE
SPECIFICATION Spec
INVARIANT BackendMatchesDesired
CHECK_DEADLOCK FALSE
