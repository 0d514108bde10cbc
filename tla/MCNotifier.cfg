SPECIFICATION FairSpec
CONSTANTS
    Tasks = {t1}
    NoTask = NoTask
    Copies = {1, 2, 3}
    NoCopy = 0
    Delays <- TwoAttempts
    RetryDelay = 2
    Afters = {0, 2, 3}
INVARIANTS
    NothingLost
    RetryAfterRespected
PROPERTIES
    EventuallySettled
CHECK_DEADLOCK TRUE
