SPECIFICATION Spec
CONSTANTS
    Segment = {"a", "b", "c"}
    Dashed = {}
    None = None
    Turtle = "turtle"
    Html = "html"
    Source = {"s1", "s2"}
    Registries <- MCRegistries
    Texts <- MCTexts
    Converts <- MCConverts
    Questions <- MCQuestions
    Pasts <- MCPasts
    MaxEdits = 2
INVARIANTS
    TypeOK
    TodaysCeiling
    PastStaysPut
    ServedByItsNamespace
    OwnTermsOnly
    CountedWhenAnswered
\* The edits are bounded, and a request is answered at any time.
CHECK_DEADLOCK FALSE
