SPECIFICATION Spec
CONSTANTS
    Segment = {"a", "b", "old", ".."}
    Dashed = {}
    Dots = {".."}
    Name = {"x", "y"}
    Prefix <- MCPrefix
    Registries <- MCRegistries
    Texts = {"v1"}
    Years <- MCYears
    FirstCommits <- MCCommits
    Starts <- MCStarts
    LastDay = 2
    Seconds = {0, 86399}
    Offsets <- MCOffsets
    Questions <- MCQuestions
    LogLimit = 2
    MaxCommits = 2
INVARIANTS
    TypeOK
    PastIsExact
    OnlyFalseDatesRefused
    DaysAreCounted
    CapturesStayPut
\* The commits and the days are bounded, and a request is answered at any time.
CHECK_DEADLOCK FALSE
