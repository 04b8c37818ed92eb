SPECIFICATION Spec
CONSTANTS
    Connections = {"a"}
    Singles = {"a"}
    NoDir = NoDir
    MaxUploads = 2
INVARIANT
    UploadHasDirectory
CHECK_DEADLOCK FALSE
