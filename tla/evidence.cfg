SPECIFICATION EvidenceSpec
CHECK_DEADLOCK FALSE
CONSTANTS
    k1 = k1
    x1 = x1
    x2 = x2
    n1 = n1
    n2 = n2
    Keys <- MCOneKey
    Captures <- MCCapture
    CaptureName <- MCCaptureName
    Labels = {}
    Payloads <- MCNumber
    MaxSorted = 8
    MaxSightings = 2
    MaxFrames = 2
    ClaimIds <- MCClaims
    Subjects <- MCOneKey
    Names <- MCNames
    Classes = {"captured_traffic", "temporal_correlation"}
    Afters = {0}
    Confidences = {50, 60}
    MaxRevisions = 2
    Faults = TRUE
SYMMETRY MCSymmetry
INVARIANT
    RivalsLinked
PROPERTY
    NeverSilentlyRewritten
