SPECIFICATION Spec
CONSTANTS
    c1 = c1
    c2 = c2
    o1 = o1
    Others = {}
    Captures <- MCBoth
    MaxFrames = 2
    MaxBatch = 2
    MaxCrashes = 2
    LiveLabels = TRUE
    IoFaults = FALSE
SYMMETRY MCSymmetry
INVARIANTS
    KbNeverAhead
    AckedReadable
