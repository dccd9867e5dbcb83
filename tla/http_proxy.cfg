SPECIFICATION FairSpec
CHECK_DEADLOCK FALSE
CONSTANTS
    a = a
    b = b
    c3 = c3
    Clients <- MCClients
INVARIANTS
    ForwardedIsRecorded
    ResponseFollowsRequest

    
    
