\* An administrator's browser with a long User-Agent.
CONSTANTS
    Kinds = {"admin"}
    r1 = r1
    Requests = {r1}
    Faults = {{}}
    LongAgent = TRUE
    MaxCalls = 3
    TabCalls = 3
    First = r1
SPECIFICATION Spec
ACTION_CONSTRAINT OneScenario
INVARIANT AgentFits
CHECK_DEADLOCK FALSE
