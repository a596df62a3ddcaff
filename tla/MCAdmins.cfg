\* Administrators log in, refresh, change and edit each other at once.
CONSTANTS
    n1 = n1
    n2 = n2
    Names = {n1, n2}
    Root = n1
    r1 = r1
    r2 = r2
    Requests = {r1, r2}
    None = None
    MaxCalls = 4
SPECIFICATION Spec
SYMMETRY Symmetry
INVARIANTS
    TypeOK
    OneOfAName
    NobodyActsLate
PROPERTIES
    ChangeIsProven
    ChangeEndsOthers
    ImplementsSessions
CHECK_DEADLOCK FALSE
