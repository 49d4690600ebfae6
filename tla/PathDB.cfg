CONSTANTS
    Root <- States
    Genesis = "g"
    Parent <- Tree
    Key = {"x", "y"}
    Changed <- Changes
    None = None
    MaxDiffLayers = 2
    StateHistory = 2
    Budgets <- Bounds
SPECIFICATION FairSpec
CHECK_DEADLOCK FALSE
INVARIANTS
    ReadsRight
    DiskContent
    IdsAligned
    PersistentHasHistory
    StatesRecoverable
    OpensAgain
PROPERTIES
    UsesAncientStore
    EverythingEnds
