\* Keep one of the properties at a time; each with the scenarios named beside it.
SPECIFICATION FairSpec
CONSTANTS
    Scenarios <- MCHasty
    MaxTries = 2
INVARIANT
    DialReaches
\*  SchemeAgreed  with MCEager
\*  LearnedTruly  with MCScenarios
\* PROPERTY
\*  DialResolves  with MCCompany
CHECK_DEADLOCK FALSE
