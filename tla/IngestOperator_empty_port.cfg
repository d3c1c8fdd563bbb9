CONSTANTS
    ann = ann
    bob = bob
    r1 = r1
    r2 = r2
    gateway = gateway
    None = None
    WordSize = 6
    MinPortBorder = 2
    MaxPortBorder = 4
    portMin = 2
    portMax = 3
    App <- MCTwoApps
    OtherKind <- MCOther
    Call <- MCTwoCalls
    Serial <- MCConcurrent
    ApiFails = FALSE
    CacheLags = FALSE
    PublishFails = FALSE
    MaxCalls = 3
    MaxCrashes = 0
SPECIFICATION Spec
CHECK_DEADLOCK FALSE
INVARIANTS
    PortsExclusive
