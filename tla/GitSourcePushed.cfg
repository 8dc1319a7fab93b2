SPECIFICATION Spec
CONSTANTS
    core1 = core1
    core2 = core2
    html = html
    push = push
    wrong = wrong
    Version = {core1, core2, wrong, html}
    Unservable = {html}
    Conforming = {core1, core2}
    Strategies = {"hosted", "mirror"}
    Private = FALSE
    Timer = timer
    Hook = {push}
    Reader = {}
    MaxPushes = 2
    MaxFailures = 1
    MaxCrashes = 1
PROPERTIES
    PushedStaysStored
