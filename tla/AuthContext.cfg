SPECIFICATION Spec
CONSTANTS
    Threads = {t1, t2}
    Databases = {d1}
    Users = {u, v}
    None = None
    Providers = {"service_account", "credential_chain", "config", "authorization_code"}
    MaxFiles = 2
    MaxRecreations = 1
    MaxResolutions = 3
    MaxConsents = 2
    MaxLapses = 1
INVARIANTS
    TypeOK
    UsersApart
    ConsentIsFound
SYMMETRY
    Alike
CHECK_DEADLOCK FALSE
