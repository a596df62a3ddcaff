\* Refreshes race with each other and with what ends sessions.
CONSTANTS
    u1 = u1
    Users = {u1}
    n1 = n1
    Phones = {n1}
    Members = {u1}
    r1 = r1
    r2 = r2
    Requests = {r1, r2}
    None = None
    Enabled = {"login", "refresh", "logout", "logoutAll", "change"}
    MaxCalls = 5
SPECIFICATION FairSpec
INVARIANT TradedOnce
PROPERTIES
    ImplementsSessions
    ReplayEndsSession
CHECK_DEADLOCK FALSE
