SPECIFICATION Spec
CONSTANTS
    Threads = {t1}
    Databases = {d1}
    Users = {u, v}
    None = None
    Providers = {"authorization_code"}
    MaxFiles = 1
    MaxRecreations = 1
    MaxResolutions = 2
    MaxConsents = 2
    MaxLapses = 0
INVARIANTS
    ConsentedIdentityNamesUser
CHECK_DEADLOCK FALSE
