CONSTANTS
    ann = ann
    bob = bob
    r1 = r1
    r2 = r2
    t1 = t1
    t2 = t2
    gateway = gateway
    None = None
    WordSize = 6
    MinPortBorder = 2
    MaxPortBorder = 4
    portMin = 2
    portMax = 3
    App <- MCTwoApps
    OtherKind <- MCOther
    Call <- MCSlots
    Task <- MCTasks
    Serial <- MCSerial
    ApiFails = TRUE
    CacheLags = TRUE
    PublishFails = TRUE
    MaxCalls = 2
    MaxCrashes = 1
SPECIFICATION ProcessSpec
SYMMETRY MCSymmetry
CONSTRAINT MCBound
CHECK_DEADLOCK FALSE
INVARIANTS
    PortsKnown
    EndsAnnounced
PROPERTIES
    NothingLeft
