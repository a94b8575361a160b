SPECIFICATION FairSpec
CONSTANTS
    Scenarios <- MCScenarios
    MaxTries = 2
INVARIANTS
    SchemeAgreed
    NoFalseRefusal
PROPERTIES
    DialResolves
CHECK_DEADLOCK FALSE
