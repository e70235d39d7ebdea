CONSTANTS
    Run = {r1, r2}
    MaxSteps = 3
    max_concurrent = 1
SPECIFICATION FairSpec
CHECK_DEADLOCK FALSE
INVARIANTS Inv ShortOnlyIfFinished
PROPERTY RunsEnd
