CONSTANTS
    ann = ann
    bob = bob
    r1 = r1
    r2 = r2
    None = None
    Broadcaster <- MCOneBroadcaster
    Call <- MCTwoCalls
    Mode <- MCBoth
    Retry = 2
    DatabaseFails = TRUE
    ControllerFails = TRUE
    AckLate = TRUE
    Users = "free"
    MaxCalls = 2
    MaxCrashes = 2
    MaxInbox = 2
SPECIFICATION FairSpec
CHECK_DEADLOCK FALSE
INVARIANTS
    TypeOK
    EgressesHaveStream
    DeployedWithEgresses
    AckedWhenCleared
PROPERTIES
    DestroyedConsumed
    RequestsAnswered
