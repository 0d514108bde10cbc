SPECIFICATION Spec
CONSTANTS
    Users = {u1}
    Products = {p1, p2}
    Tasks = {t1, t2, t3}
    Amounts = {0, 10, 20}
    Times = {0, 1, 2}
    NoRequest = NoRequest
    MaxAlertVersion = 2
SYMMETRY Interchangeable
INVARIANTS
    AlertStateBacked
    NoRepeatedAlert
    AlertsInScrapeOrder
    RequesterAnswered
CHECK_DEADLOCK FALSE
