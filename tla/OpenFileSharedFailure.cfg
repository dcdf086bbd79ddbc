SPECIFICATION Spec
CONSTANTS
    Threads = {t1, t2}
    Names = {n}
    Ids = {f, g}
    None = None
    Immutable = {}
    MaxEntries = 1
    Unscoped = {}
    MaxQueries = 2
    MaxChanges = 2
INVARIANTS
    ResolvedOpenSurvives
SYMMETRY
    Alike
CHECK_DEADLOCK FALSE
