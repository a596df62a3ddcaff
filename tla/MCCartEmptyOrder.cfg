\* One customer, two calls at a time: makeOrder overtaken by changeQuantity.
CONSTANTS
    Users = {u1}
    u1 = u1
    Articles = {a1}
    a1 = a1
    Requests = {r1, r2}
    r1 = r1
    r2 = r2
    Amounts = {0, 1}
    Statuses = {PENDING}
    Pending = PENDING
    PENDING = PENDING
    None = None
    MaxQuantity = 1
    MaxCalls = 3
    Serial = FALSE
SPECIFICATION Spec
INVARIANT OrderHasGoods
CHECK_DEADLOCK FALSE
