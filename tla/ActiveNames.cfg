SPECIFICATION Spec
CONSTANTS
    acme = acme
    c = c
    core = core
    f = f
    t = t
    term = term
    vocab = vocab
    Tenant = {t}
    Namespace = {acme}
    Unkept = {}
    TenantOf <- OneTenant
    Name = {core, term, vocab}
    LongName = {}
    Months = 2
    Flusher = {f}
    Counter = {c}
    CacheFiles = TRUE
    MAX_BUFFERED_NAMES = 2
    MAX_SEEN_NAMES = 2
    MaxLate = 1
    MaxDropped = 0
    MaxFailures = 0
    MaxCrashes = 1
SYMMETRY Symmetry
INVARIANTS
    StoredIsBounded
    MissedIsStored
    UnreportedIsListed
    CachedIsCounted
    CachedCountIsStored
