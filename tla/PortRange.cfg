CONSTANTS
    c1 = c1
    c2 = c2
    c3 = c3
    NoPort = NoPort
    Nobody = Nobody
    Client <- MCClient
    WordSize = 5
    MinPortBorder = 2
    MaxPortBorder = 3
SPECIFICATION FairSpec
INVARIANTS
    TypeOK
    Exclusive
    BusyAreHeld
    RangeServable
PROPERTIES
    ImplementsPool
    CallsReturn
