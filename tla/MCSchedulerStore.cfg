SPECIFICATION MCSpec
CONSTANTS
    Products = {p1, p2, p3}
    URLs = {a, b, c}
    NoURL = NoURL
    ForceIds = {f1}
    Replicas = {w1, w2}
    DueBatchSize = 2
    MaxElapsed = 2
    Versions = {0, 1, 2, 3}
SYMMETRY Interchangeable
INVARIANTS
    OneTaskPerInterval
    AddressesAreUnique
PROPERTIES
    ScheduleMovesForward
CHECK_DEADLOCK FALSE
