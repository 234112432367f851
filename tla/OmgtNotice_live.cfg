SPECIFICATION FairSpec
CONSTANTS
    Traps = {t1}
    Regs = {r1}
    Msgs = {m1, m2, m3}
    MaxRetries = 1
    SendBufs = 1
    RoomIn = 1
    RoomOut = 1
    MaxEvents = 1
    None = None
PROPERTIES RegistrationEnds CloseReturns
\* A closed port stops, and so does a blocked one.
CHECK_DEADLOCK FALSE
