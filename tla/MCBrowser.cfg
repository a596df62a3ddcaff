\* A browser signed in as user and as administrator, one call at a time or two
\* at once, answers out of order or lost.
CONSTANTS
    Kinds = {"user", "admin"}
    r1 = r1
    r2 = r2
    Requests = {r1, r2}
    Faults = {{"lose", "fail", "doubt", "elsewhere"}, {"lose", "expire", "timeUp"},
              {"fail", "expire"}, {"elsewhere", "timeUp"}}
    LongAgent = FALSE
    MaxCalls = 4
    TabCalls = 3
    First = r1
SPECIFICATION MCSpec
ACTION_CONSTRAINT OneScenario
INVARIANT JarHolds
PROPERTIES
    SignedInIsServed
    RetryNeedsLogin
    RefusedIsForgotten
CHECK_DEADLOCK FALSE
