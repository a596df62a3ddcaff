\* Edits with and without columns of their own, orders.
CONSTANTS
    a1 = a1
    a2 = a2
    Articles = {a1, a2}
    Ordered = a1
    Prices = {5, 6}
    f1 = f1
    f2 = f2
    FeatureSets = {{f1}, {f2}}
    r1 = r1
    r2 = r2
    Requests = {r1, r2}
    None = None
    MaxCalls = 3
    MaxClock = 1
    MaxOrders = 1
SPECIFICATION Spec
SYMMETRY Symmetry
ACTION_CONSTRAINT OneScenario
INVARIANTS
    EveryOrderHasPrice
    ListsMixOnlyInOverlap
    HistoryHasNoRepeats
PROPERTIES
    OrderPriceStands
    ImplementsShelf
CHECK_DEADLOCK FALSE
