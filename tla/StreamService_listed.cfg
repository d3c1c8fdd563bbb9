CONSTANTS
    ann = ann
    bob = bob
    r1 = r1
    r2 = r2
    None = None
    Broadcaster <- MCOneBroadcaster
    Call <- MCOneCall
    Mode <- MCStub
    Retry = 1
    DatabaseFails = FALSE
    ControllerFails = FALSE
    AckLate = FALSE
    Users = "waiting"
    MaxCalls = 2
    MaxCrashes = 0
    MaxInbox = 2
SPECIFICATION Spec
CHECK_DEADLOCK FALSE
INVARIANTS
    StartedStreamListed
