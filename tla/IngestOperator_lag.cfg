CONSTANTS
    ann = ann
    bob = bob
    r1 = r1
    r2 = r2
    gateway = gateway
    None = None
    WordSize = 6
    MinPortBorder = 2
    MaxPortBorder = 4
    portMin = 2
    portMax = 3
    App <- MCOneApp
    OtherKind <- MCOther
    Call <- MCOneCall
    Serial <- MCSerial
    ApiFails = TRUE
    CacheLags = TRUE
    PublishFails = TRUE
    MaxCalls = 3
    MaxCrashes = 0
SPECIFICATION FairSpec
CHECK_DEADLOCK FALSE
INVARIANTS
    StoppedIsGone
    StartedIsWhole
PROPERTIES
    CallsAnswered
