SPECIFICATION MigrationSpec
CHECK_DEADLOCK FALSE
CONSTANTS
    Requests <- MCRequests
    Responses <- MCResponses
    Names <- MCNames
    Confidences = {40, 80}
    Floors = {0, 1, 3}
    MaxFrames = 3
    MaxClaims = 2
    AnyHost = "any"
    Legacies <- MCLegacies
    MaxFaults = 2
    MoreFrames = FALSE
    Limits = {1, 3, 5}
    UnknownsCut = 9
    Unlabelled = 1
INVARIANTS
    McpKeepsEveryObservation
    MigrationKeepsClaims
    NothingFallsThrough
PROPERTY
    MoreEvidenceNeverDemotes
