\* A reset token sent in twice at once.
CONSTANTS
    u1 = u1
    Users = {u1}
    n1 = n1
    Phones = {n1}
    Members = {u1}
    r1 = r1
    r2 = r2
    Requests = {r1, r2}
    None = None
    Enabled = {"forgot", "reset"}
    MaxCalls = 3
SPECIFICATION Spec
SYMMETRY Symmetry
INVARIANT TokenServesOnce
CHECK_DEADLOCK FALSE
