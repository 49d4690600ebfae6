CONSTANTS
    MaxFileSize = 2
    MaxFile = 3
    Garbage = Garbage
    NoTable = NoTable
    Tables <- OneTable
    Prunable <- OnlyBodies
    Versions = {"v1", "v2"}
    Blob <- OneBlob
    MaxItems = 2
    MaxBatch = 2
    MaxCrashes = 1
    MaxSyncErrors = 0
    MaxWriteErrors = 0
    ConcurrentSync = TRUE
SPECIFICATION Spec
INVARIANTS
    FlushedIsDurable
