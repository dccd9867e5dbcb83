SPECIFICATION EvidenceSpec
CHECK_DEADLOCK FALSE
CONSTANTS
    k1 = k1
    x1 = x1
    x2 = x2
    n1 = n1
    n2 = n2
    Keys <- MCOneKey
    Captures <- MCCapture
    CaptureName <- MCCaptureName
    Labels = {"A"}
    Payloads <- MCPayloads
    MaxSorted = 8
    MaxSightings = 2
    MaxFrames = 3
    ClaimIds <- MCOneClaim
    Subjects <- MCSubjects
    Names <- MCOneName
    Classes = {"captured_traffic", "differential_exclusive", "temporal_correlation", "schema_induction"}
    Afters = {0}
    Confidences = {50}
    MaxRevisions = 1
    Faults = FALSE
INVARIANT
    FirmEvidenceHolds
PROPERTY
    SharedStaysShared
