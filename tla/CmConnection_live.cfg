\* One call, whatever is lost: the waits of both sides and of the CEPs their
\* users have destroyed.  MaxInFlight bounds nothing here.
CONSTANTS
    Calls = {k1}
    Answers = {a1}
    ClientQPs = {c1}
    ServerQPs = {s1}
    Backlog = 1
    MaxRetries = 1
    None = None
    MaxInFlight = 0
SPECIFICATION FairSpec
PROPERTIES WaitsEnd DestroyedGoes
CHECK_DEADLOCK FALSE
