\* One customer, two calls at a time.
CONSTANTS
    Users = {u1}
    u1 = u1
    Articles = {a1}
    a1 = a1
    Requests = {r1, r2}
    r1 = r1
    r2 = r2
    Amounts = {0, 1}
    Statuses = {PENDING}
    Pending = PENDING
    PENDING = PENDING
    None = None
    MaxQuantity = 2
    MaxCalls = 5
    Serial = FALSE
SPECIFICATION Spec
SYMMETRY Symmetry
INVARIANTS
    TypeOK
    OneOrderPerCart
    OneMailPerOrder
PROPERTY OrdersAreClosed
CHECK_DEADLOCK FALSE
