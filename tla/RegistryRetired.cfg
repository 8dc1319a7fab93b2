SPECIFICATION Spec
CONSTANTS
    Segment <- MCSegment
    Dashed = {"-"}
    Client = {"provisioner", "administrator"}
    Prefix <- MCPrefix
    Target = {"git", "elsewhere"}
    GitSource = "git"
    Asked <- MCAsked
    Repository = {"none", "good"}
    Owner <- MCOwner
    DenyShaped <- MCOwner
    Grants <- MCGrants
    InitialFile <- MCInitial
    Files = {}
    Wanted <- MCWanted
    MaxEdits = 0
PROPERTIES
    RetiredNeverDecreases
CHECK_DEADLOCK FALSE
