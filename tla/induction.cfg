SPECIFICATION Spec
CHECK_DEADLOCK FALSE
CONSTANTS
    SensitiveKeys = {"token"}
    HeaderKeys = {"authorization"}
    Fields = {"name", "token"}
    FieldValues <- MCFieldValues
    Sent <- MCSent
    MaxDistinct = 2
    MaxBodies = 3
INVARIANTS
    
    EqualitySurvives
    LearnsOnly
