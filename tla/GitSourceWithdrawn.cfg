SPECIFICATION Spec
CONSTANTS
    core1 = core1
    core2 = core2
    html = html
    wrong = wrong
    Version = {core1, core2, wrong, html}
    Unservable = {html}
    Conforming = {core1, core2}
    Strategies = {"hosted", "mirror"}
    Private = TRUE
    Timer = timer
    Hook = {}
    Reader = {}
    MaxPushes = 2
    MaxFailures = 1
    MaxCrashes = 0
PROPERTIES
    StaysWithdrawn
