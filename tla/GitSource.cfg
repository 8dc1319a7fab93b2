SPECIFICATION FairSpec
CONSTANTS
    core1 = core1
    core2 = core2
    html = html
    push = push
    reader = reader
    wrong = wrong
    Version = {core1, core2, wrong, html}
    Unservable = {html}
    Conforming = {core1, core2}
    Strategies = {"hosted", "mirror"}
    Private = TRUE
    Timer = timer
    Hook = {push}
    Reader = {reader}
    MaxPushes = 2
    MaxFailures = 1
    MaxCrashes = 1
INVARIANTS
    TypeOK
    OnlyCheckedServed
    ServingWasStored
    MirrorKeepsServing
PROPERTIES
    NoFindingLost
    Converges
