CONSTANTS
    Mode = {TRUE, FALSE}
    MaxIngests = 2
    MaxOutages = 2
    MaxEnds = 3
SPECIFICATION FairSpec
CONSTRAINT MCBound
INVARIANTS
    HandlersHaveDatabase
PROPERTIES
    AnnouncementsKept
    KeptAreHandled
