CONSTANTS
    N = 3
    c1 = c1
    c2 = c2
    Call = {c1, c2}
    Setups <- MCQueued
SPECIFICATION Spec
CHECK_DEADLOCK FALSE
INVARIANT FinalRecordSaved
