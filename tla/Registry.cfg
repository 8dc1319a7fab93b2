SPECIFICATION Spec
CONSTANTS
    Segment <- MCSegment
    Dashed = {"-"}
    Client = {"provisioner", "administrator"}
    Prefix <- MCPrefix
    Target = {"git", "elsewhere"}
    GitSource = "git"
    Asked <- MCAsked
    Repository = {"none", "good"}
    Owner <- MCOwner
    DenyShaped <- MCOwner
    Grants <- MCGrants
    InitialFile <- MCInitial
    Files <- MCFiles
    Wanted <- MCWanted
    MaxEdits = 1
INVARIANTS
    TypeOK
    PendingSound
    OneAnswer
PROPERTIES
    EditsStayLoadable
    NoHijack
    ImplementsClaims
\* A file with an overlap stops every claim and edit until the operator mends it,
\* and the operator's edits are bounded.
CHECK_DEADLOCK FALSE
