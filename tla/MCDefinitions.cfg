CONSTANTS
    N = 3
    MaxVersion = 4
    MaxDevices = 2
    Flows <- MCFlows
    Conditions <- MCConditions
    Texts <- MCTexts
    Contexts <- MCContexts
SPECIFICATION FairSpec
CHECK_DEADLOCK FALSE
INVARIANTS MigrationSound AdmissionDecides ConditionMeansGrammar
PROPERTY JobsEnd
