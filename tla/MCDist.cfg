CONSTANTS
    N = 3
    USIZE_MAX = 9
    n1 = n1
    n2 = n2
    Node = {n1, n2}
    Fleets <- MCFleets
    leftover = 0
    Flows <- MCFlows
SPECIFICATION FairSpec
CHECK_DEADLOCK FALSE
INVARIANTS Inv OneResultForEachStep
PROPERTIES Termination RefinesContract
