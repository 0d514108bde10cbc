SPECIFICATION GatewaySpec
CONSTANTS
    Users = {u1, u2}
    Products = {1, 2}
    URLs = {a, b}
    NoUser = NoUser
    NoURL = NoURL
    Txs = {t1, t2}
    ForceIds = {}
    MaxVersion = 3
SYMMETRY Interchangeable
INVARIANTS
    CurrentSnapshotIsDesired
    OneSnapshotPerVersion
    NoWaitCycle
PROPERTIES
    ActivityMovesVersion
CHECK_DEADLOCK TRUE
