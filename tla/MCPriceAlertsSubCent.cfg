SPECIFICATION Spec
CONSTANTS
    Users = {u1}
    Products = {p1}
    Tasks = {t1, t2, t3}
    Amounts = {14, 20, 30}
    Times = {0, 1, 2}
    NoRequest = NoRequest
    MaxAlertVersion = 2
PROPERTIES
    IdenticalCreateKeepsAlertState
CHECK_DEADLOCK FALSE
