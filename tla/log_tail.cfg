SPECIFICATION FairSpec
CHECK_DEADLOCK FALSE
CONSTANTS
    MaxLines = 5
    MaxRotations = 2
    QuickRegrowth = FALSE
INVARIANTS
    LinesInOrder
    CaughtUpIsComplete
PROPERTY
    WrittenIsRecorded
