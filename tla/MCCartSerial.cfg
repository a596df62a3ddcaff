\* Two customers at once, each making one call at a time.
CONSTANTS
    Users = {u1, u2}
    u1 = u1
    u2 = u2
    Articles = {a1, a2}
    a1 = a1
    a2 = a2
    Requests = {r1, r2}
    r1 = r1
    r2 = r2
    Amounts = {0, 1}
    Statuses = {PENDING, SHIPPED}
    Pending = PENDING
    PENDING = PENDING
    SHIPPED = SHIPPED
    None = None
    MaxQuantity = 2
    MaxCalls = 4
    Serial = TRUE
SPECIFICATION Spec
SYMMETRY Symmetry
INVARIANTS
    OrderHasGoods
    MailTellsTheOrder
    OneOpenCart
PROPERTY ImplementsShop
CHECK_DEADLOCK FALSE
