CONSTANTS
    Genesis = "g"
    NoBlock = NoBlock
    Blocks <- Forked
    Parent <- ForkedParent
    TriesInMemory = 2
    TrieRetention = FALSE
    ArchiveMode = FALSE
    MaxSkip = 0
    SkipByGas = FALSE
    HeadRewindBlocksLimit = 0
    FullImmutabilityThreshold = 2
    Allowed = {}
    Pipeline = FALSE
    MaxOps = 5
    MaxCrashes = 1
    MaxOutages = 0
    FreezerBatchLimit = 2
SPECIFICATION Spec
CHECK_DEADLOCK FALSE
INVARIANTS
    AlwaysOpens
