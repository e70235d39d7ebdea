CONSTANTS
    U32_MAX = 4
    U64_MAX = 3
    U64_BITS = 2
    Client = {c1}
    MaxReports = 3
SPECIFICATION StreamSpec
CHECK_DEADLOCK FALSE
INVARIANTS Inv EventsMatchResult DelaysGrow ProgressBetweenEvents
PROPERTY StepEnds
