CONSTANTS
    NoAnnotation = NoAnnotation
    ClassName = "kong"
SPECIFICATION Spec
INVARIANT AdmittedSpecHasBackendPath
