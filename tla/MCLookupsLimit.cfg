SPECIFICATION Spec
CONSTANTS
    LookupIds = {l1, l2}
    Handlers = {h1, h2}
    Extractors = {x1}
    Nothing = Nothing
    Prices = {p1}
    Failure = Failure
    MaxPending = 1
    PendingTtl = 1
    DoneTtl = 1
INVARIANTS
    PendingWithinLimit
CHECK_DEADLOCK TRUE
