CONSTANTS
    b1 = b1
    b2 = b2
    w1 = w1
    None = None
    Stream <- MCTwoStreams
    Watcher <- MCOneWatcher
SPECIFICATION FairSpec
CONSTRAINT MCBound
CHECK_DEADLOCK FALSE
INVARIANTS
    TypeOK
    Undisturbed
    FinishedIsGone
PROPERTIES
    DirectoryRemoved
    PacketsFlow
