CONSTANTS
    N = 3
    max_concurrency = 2
    Flows <- MCFlows
SPECIFICATION FairSpec
CHECK_DEADLOCK FALSE
INVARIANTS Inv
PROPERTIES RunEnds RefinesContract
