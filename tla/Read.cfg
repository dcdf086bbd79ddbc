SPECIFICATION Spec
CONSTANTS
    Threads = {t1, t2}
    Indices = {i, j}
    None = None
    MaxIds = 2
    MaxChanges = 3
INVARIANTS
    TypeOK
    BlocksNeverOlder
    ReadsHandleFile
    LoneReadRecovers
SYMMETRY
    Alike
CHECK_DEADLOCK FALSE
