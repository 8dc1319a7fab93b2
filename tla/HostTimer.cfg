SPECIFICATION FairSpec
CONSTANTS
    None = None
    Broken = Broken
    Feature = TRUE
    Plain <- MCPlain
    Coded <- MCCoded
    Month <- MCMonth
    HostName <- MCTwo
    Root <- srv
    Real <- MCReal
    Commands <- MCSites
    Prefix <- MCTimed
    Repository <- MCRepository
    Key = {k1}
    k1 = k1
    k2 = k2
    FirstKey <- MCOneKey
    FirstBound <- MCTimedBound
    Bindings <- MCBindings
    Client = {c}
    Requests <- MCPushes
    MaxEdits = 2
    MaxStops = 1
CHECK_DEADLOCK FALSE
PROPERTY RefreshedForEver
