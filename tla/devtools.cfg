SPECIFICATION FairSpec
CHECK_DEADLOCK FALSE
CONSTANTS
    r1 = r1
    r2 = r2
    r3 = r3
    e1 = e1
    Responses <- MCThree
    Events <- MCOne
    BatchSize = 2
INVARIANTS
    HeldOnce
    NeverDroppedSilently
PROPERTY
    StopEndsThread
