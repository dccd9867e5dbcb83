SPECIFICATION Spec
CONSTANTS
    s1 = s1
    s2 = s2
    s3 = s3
    u1 = u1
    u2 = u2
    u3 = u3
    Sessions <- MCThree
    ka = ka
    kb = kb
    Updates <- MCUpdates
    Salts <- MCSalts
    MaxCrashes = 2
    Overlap = FALSE
    KbExists = TRUE
CHECK_DEADLOCK FALSE
SYMMETRY MCSymmetryThree
INVARIANTS
    ExclusiveInv
    BackupIsLatest
    OneSalt
PROPERTY
    KeepsPromise
