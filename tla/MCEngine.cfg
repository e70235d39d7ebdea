CONSTANTS
    N = 3
    c1 = c1
    c2 = c2
    Call = {c1, c2}
    Setups <- MCSetups
SPECIFICATION FairSpec
CHECK_DEADLOCK FALSE
INVARIANTS Inv RollbackOrder OutputsAgree Durable
PROPERTIES DbForward CallsEnd
