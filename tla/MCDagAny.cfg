CONSTANTS
    N = 3
    USIZE_MAX = 9
    max_concurrency = 2
    Flows <- PlainFlows
SPECIFICATION Spec
CHECK_DEADLOCK FALSE
INVARIANT AnyNeedsOneCompleted
