CONSTANTS
    Root <- States
    Genesis = "g"
    Parent <- Tree
    Key = {"x", "y"}
    Changed <- Changes
    None = None
    MaxDiffLayers = 2
    StateHistory = 2
    Budgets <- PruneBounds
SPECIFICATION Spec
CHECK_DEADLOCK FALSE
INVARIANT PersistedAboveFirst
