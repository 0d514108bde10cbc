SPECIFICATION FairSpec
CONSTANTS
    Calls = {a, b}
    Nobody = Nobody
    MaxDials = 3
INVARIANTS
    NoConnectionLeaks
    WaitsOnOwnStream
PROPERTIES
    KeepsPromise
    EveryCallEnds
CHECK_DEADLOCK FALSE
