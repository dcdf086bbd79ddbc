SPECIFICATION Spec
CONSTANTS
    Paths <- SomePaths
    Ids = {i, j, k, l}
    Root = Root
    None = None
    InitialTrees <- SmallTrees
    MaxCalls = 2
    MaxOthers = 0
SYMMETRY Alike
CHECK_DEADLOCK FALSE
INVARIANTS
    DestroysOnlyTheReplaced
