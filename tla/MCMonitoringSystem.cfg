SPECIFICATION FairSpec
CONSTANTS
    Users = {u1}
    NoUser = NoUser
    Products = {1, 2}
    URLs = {a}
    NoURL = NoURL
    Txs = {t1}
    ForceIds = {f1}
    MaxVersion = 3
    Replicas = {w1}
    DueBatchSize = 1
    MaxElapsed = 2
INVARIANTS
    NothingRejected
PROPERTIES
    FollowsHistory
    ChecksOnlyWhatIsWatched
    CatchesUp
    ForcedChecksHappen
CHECK_DEADLOCK TRUE
