CONSTANTS
    N = 4
    Trees <- MCTrees
SPECIFICATION Spec
CHECK_DEADLOCK FALSE
INVARIANTS Inv ConditionsSeeSiblings
PROPERTIES StopIsFinal RefinesContract
