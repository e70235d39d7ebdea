CONSTANTS
    Tenant = {t1, t2}
    Caller = {k1, k2}
    ToolName = {"exec"}
    Burst = 2
    MaxRefills = 1
    Client = {c1}
    Requests <- AppendRequests
    MaxCalls = 2
    NetBurst = 1
    MaxFaults = 1
    MaxChildren = 1
    N = 3
    StepName = {"a", "b"}
SPECIFICATION Spec
CHECK_DEADLOCK FALSE
INVARIANT ReadAfterWrite
