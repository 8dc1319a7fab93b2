SPECIFICATION Spec
CONSTANTS
    None = None
    Broken = Broken
    Feature = TRUE
    Plain <- MCPlain
    Coded <- MCCoded
    Month <- MCMonth
    HostName <- MCHostName
    Root <- srv
    Real <- MCReal
    Commands <- MCCommands
    Prefix <- MCPrefix
    Repository <- MCRepository
    Key = {k1, k2}
    k1 = k1
    k2 = k2
    FirstKey <- MCFirstKey
    FirstBound <- MCFirstBound
    Bindings <- MCBindings
    Client = {c}
    Requests <- MCRequests
    MaxEdits = 1
    MaxStops = 1
CHECK_DEADLOCK FALSE
INVARIANTS
    TypeOK
    SitesApart
    OwnFilesOnly
    PushedByKeyHolder
PROPERTIES
    FilesKeepTheirOwner
