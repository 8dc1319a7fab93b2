SPECIFICATION FairSpec
CONSTANTS
    acme = acme
    core = core
    f = f
    g = g
    odd = odd
    t = t
    vocab = vocab
    Tenant = {t}
    Namespace = {acme, odd}
    Unkept = {odd}
    TenantOf <- OneTenant
    Name = {core, vocab}
    LongName = {}
    Months = 1
    Flusher = {f, g}
    Counter = {}
    CacheFiles = FALSE
    MAX_BUFFERED_NAMES = 2
    MAX_SEEN_NAMES = 2
    MaxLate = 0
    MaxDropped = 0
    MaxFailures = 2
    MaxCrashes = 1
INVARIANTS
    TypeOK
    HeldIsExact
    StoredIsListed
PROPERTIES
    StoreOnlyGrows
    LeavesOnlyStored
    BufferedIsStored
