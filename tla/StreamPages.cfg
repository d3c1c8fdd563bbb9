CONSTANTS
    ann = ann
    bob = bob
    r1 = r1
    r2 = r2
    p1 = p1
    None = None
    Broadcaster <- MCTwoBroadcasters
    Call <- MCTwoCalls
    Peer <- MCOnePeer
    Mode <- MCBoth
    Retry = 1
    DatabaseFails = TRUE
    ControllerFails = FALSE
    AckLate = TRUE
    Users = "following"
    MaxCalls = 3
    MaxCrashes = 1
    MaxInbox = 2
    MaxPages = 1
SYMMETRY MCSymmetry
SPECIFICATION PagesSpec
CONSTRAINT MCBound
CHECK_DEADLOCK FALSE
INVARIANTS
    StreamsMatchIngests
    AnswersHold
    ShownIsSo
    WritesApart
    LinkWorks
