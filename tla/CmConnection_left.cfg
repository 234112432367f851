\* One call: the REJ with which the server gives up reaches a client that has
\* not accepted the REP yet.
\* MaxInFlight bounds nothing here.
CONSTANTS
    Calls = {k1}
    Answers = {a1}
    ClientQPs = {c1}
    ServerQPs = {s1}
    Backlog = 1
    MaxRetries = 1
    None = None
    MaxInFlight = 0
SPECIFICATION Spec
INVARIANT NotLeftConnected
CHECK_DEADLOCK FALSE
