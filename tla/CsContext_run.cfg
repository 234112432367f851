\* Two contexts, four requests: one for the poller, three for a user who waits
\* and for the call-backs.  Two attempts each.  Users build the mad in place.
CONSTANTS
    c1 = c1
    q1 = q1
    Entries = {e1, e2}
    Requests = {c1, c2, c3, q1}
    Polled = {q1}
    Users = {u1}
    Early = {}
    Depth = 2
    BucketOf <- Buckets
    MaxRetries = 2
    Timeout = 1
    TimeoutAdder = 0
    MaxLag = 1
    None = None
SPECIFICATION Spec
INVARIANTS TypeOK OneOwner WaitersServed
PROPERTIES CompletesOnce EveryRequestEnds
\* The users may ask for nothing more.
CHECK_DEADLOCK FALSE
