SPECIFICATION Spec
CONSTANTS
    acme = acme
    c = c
    core = core
    f = f
    t = t
    vocab = vocab
    Tenant = {t}
    Namespace = {acme}
    Unkept = {}
    TenantOf <- OneTenant
    Name = {core, vocab}
    LongName = {}
    Months = 1
    Flusher = {f}
    Counter = {c}
    CacheFiles = FALSE
    MAX_BUFFERED_NAMES = 2
    MAX_SEEN_NAMES = 2
    MaxLate = 0
    MaxDropped = 1
    MaxFailures = 1
    MaxCrashes = 1
SYMMETRY Symmetry
INVARIANTS
    CountSeesBuffered
