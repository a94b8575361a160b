\* Run by hand: two losses with three retries.  Violated with selective reject;
\* it holds for MCGoBack.
CONSTANTS
    Modulus = 4
    K = 4
    N2 = 3
    Scenarios <- MCSelective
SPECIFICATION Spec
INVARIANTS FewLossesHarmless
CHECK_DEADLOCK FALSE
