CONSTANTS
    Genesis = "g"
    NoBlock = NoBlock
    Blocks <- Line
    Parent <- LineParent
    TriesInMemory = 2
    TrieRetention = FALSE
    ArchiveMode = TRUE
    MaxSkip = 1
    SkipByGas = TRUE
    HeadRewindBlocksLimit = 2
    FullImmutabilityThreshold = 2
    Allowed = {"rewindFinal"}
    Pipeline = FALSE
    MaxOps = 4
    MaxCrashes = 0
    MaxOutages = 1
    FreezerBatchLimit = 2
SPECIFICATION FairSpec
CHECK_DEADLOCK FALSE
INVARIANTS
    OpensAgain
    SparseKept
    ReloadFindsHead
PROPERTIES
    EventuallyFrozen
