SPECIFICATION Spec
CONSTANTS
    s1 = s1
    s2 = s2
    s3 = s3
    u1 = u1
    u2 = u2
    u3 = u3
    Sessions <- MCSessions
    ka = ka
    kb = kb
    Updates <- MCUpdates
    Salts <- MCSalts
    MaxCrashes = 0
    Overlap = FALSE
    KbExists = FALSE
CHECK_DEADLOCK FALSE
INVARIANT
    NoLostWrites
