SPECIFICATION Spec
CONSTANTS
    Threads = {t1, t2}
    Names = {n, m}
    Ids = {f, g}
    None = None
    Immutable = {m}
    MaxEntries = 1
    Unscoped = {}
    MaxQueries = 2
    MaxChanges = 2
INVARIANTS
    TypeOK
    OpenedWithinQuery
    NeverGuesses
    SharedFetchServesAll
SYMMETRY
    Alike
CHECK_DEADLOCK FALSE
