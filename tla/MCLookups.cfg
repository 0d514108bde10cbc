SPECIFICATION FairSpec
CONSTANTS
    LookupIds = {l1, l2, l3}
    Handlers = {h1, h2}
    Extractors = {x1}
    Nothing = Nothing
    Prices = {p1}
    Failure = Failure
    MaxPending = 1
    PendingTtl = 1
    DoneTtl = 2
INVARIANTS
    PendingNearLimit
PROPERTIES
    AnswerIsFinal
    FoundIsKept
    LimitClears
CHECK_DEADLOCK TRUE
