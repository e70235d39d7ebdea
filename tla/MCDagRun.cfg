CONSTANTS
    N = 3
    USIZE_MAX = 9
    max_concurrency = 2
    Flows <- MCFlows
SPECIFICATION FairSpec
CHECK_DEADLOCK FALSE
INVARIANTS
    Inv OneResultPerStep DependencyOrder FailureCascades ConditionSeesDependency
PROPERTIES Termination RefinesContract
