SPECIFICATION Spec
CONSTANTS
    Traps = {t1}
    Regs = {r1, r2}
    Msgs = {m1, m2, m3}
    MaxRetries = 2
    SendBufs = 1
    RoomIn = 5
    RoomOut = 1
    MaxEvents = 1
    None = None
INVARIANT OwnersLive
CHECK_DEADLOCK FALSE
