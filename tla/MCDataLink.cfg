CONSTANTS
    Modulus = 4
    K = 4
    N2 = 2
    Scenarios <- MCScenarios
SPECIFICATION Spec
INVARIANTS NothingStuck
PROPERTIES
    ImplementsService
    GivesUpAfterRetries
CHECK_DEADLOCK FALSE
