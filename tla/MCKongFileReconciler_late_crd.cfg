CONSTANTS
    k1 = k1
    k2 = k2
    Keys <- MCKeys
    NoObject = NoObject
    NoFile = NoFile
    NoAnnotation = NoAnnotation
    FilePaths <- MCFilePaths
    SpecsOf <- MCFixedPathSpecsOf
    ServiceFaults = {}
    dbmode = "postgres"
    ClassName = "kong"
    Annotations = {"kong"}
    ForeignFinalizers = FALSE
    StatusFaults = FALSE
    MaxEdits = 2
    MaxRestarts = 1
    MaxResyncs = 1
    CRDInitially = {FALSE}
    ClockSkew = FALSE
    InformerLag = FALSE
SPECIFICATION Spec
PROPERTY EventuallyConverged
CHECK_DEADLOCK FALSE
