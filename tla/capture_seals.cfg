SPECIFICATION FairSpec
CONSTANTS
    c1 = c1
    c2 = c2
    o1 = o1
    Others <- MCOther
    Captures <- MCOne
    MaxFrames = 3
    MaxBatch = 2
    MaxCrashes = 2
    LiveLabels = FALSE
    IoFaults = TRUE
INVARIANTS
    SafetyInv
    CaptureSeqUnique
    RecordBeforeEvidence
PROPERTIES
    NothingAfterStop
    NothingAckedOnceEnded
    StopReturns
