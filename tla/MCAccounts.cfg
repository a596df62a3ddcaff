\* Registrations and verification mails race, and so do password resets with
\* logins and each other.
CONSTANTS
    u1 = u1
    u2 = u2
    u3 = u3
    Users = {u1, u2, u3}
    n1 = n1
    n2 = n2
    Phones = {n1, n2}
    Members = {u3}
    r1 = r1
    r2 = r2
    Requests = {r1, r2}
    None = None
    Enabled = {"register", "resend", "verify", "expire",
               "forgot", "reset", "login", "change", "refresh", "abort", "deactivate"}
    MaxCalls = 5
SPECIFICATION Spec
SYMMETRY Symmetry
ACTION_CONSTRAINT OneScenario
INVARIANTS
    TypeOK
    PhonesAreUnique
    VerifiedByToken
    NewestTokenStands
PROPERTIES
    RegisteredOnce
    ChangeEndsSessions
    ChangeIsProven
CHECK_DEADLOCK FALSE
