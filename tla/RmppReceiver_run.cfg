\* One message of any of five shapes, two contexts; one packet comes again, or a
\* control packet comes in between.
SPECIFICATION FairSpec
CONSTANTS
    c1 = c1
    c2 = c2
    k1 = k1
    Contexts = {c1, c2}
    Keys = {k1}
    Shapes <- Messages
    WindowSize = 2
    LowWater = 2
    MaxExtra = 1
    None = None
INVARIANTS
    TypeOK
    RefsCounted
    HeldLives
    TimerRuns
    DeliveredWhole
    AckedIsDelivered
    OnePerKey
    DatagramsKept
PROPERTIES ContextsGo UnloadReturns
\* An unloaded GSA stops.
CHECK_DEADLOCK FALSE
