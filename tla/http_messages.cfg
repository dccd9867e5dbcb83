SPECIFICATION FairSpec
CHECK_DEADLOCK FALSE
CONSTANTS
    Messages <- MCMessages
    SizeOf <- MCSizeOf
    HeadLimit = 3
    SampleLimit = 2
    MaxEvents = 3
    BatchSize = 2
INVARIANTS
    NothingLostOrDoubled
    ReadsTheMessage
    RecordsWhatWasSaid
    RelaysToTheEnd
PROPERTIES
    ReadingEnds
    StopEndsRelay
