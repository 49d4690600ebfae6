CONSTANTS
    MaxFileSize = 2
    MaxFile = 3
    Garbage = Garbage
    NoTable = NoTable
    Tables <- TwoTables
    Prunable <- OnlyBodies
    Versions = {"v1", "v2"}
    Blob <- TwoBlobs
    MaxItems = 2
    MaxBatch = 2
    MaxCrashes = 1
    MaxSyncErrors = 1
    MaxWriteErrors = 1
    ConcurrentSync = FALSE
SPECIFICATION Spec
INVARIANTS
    TablesAligned
    FlushedIsDurable
    OpensAgain
    ContentCorrect
PROPERTY
    ImplementsStore
CONSTRAINT
    OneError
