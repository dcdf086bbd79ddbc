SPECIFICATION Spec
CONSTANTS
    Paths <- SomePaths
    Ids = {i, j, k}
    Root = Root
    None = None
    InitialTrees <- SmallTrees
    MaxCalls = 3
    MaxOthers = 1
SYMMETRY Alike
CHECK_DEADLOCK FALSE
INVARIANTS
    TypeOK
    CacheFollows
    LoneMoveKeepsBoth
    LoneCallsKeepToTheirPaths
    NoDuplicatesMade
    RemoveFileTellsTruth
