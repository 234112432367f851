\* Two calls from two queue pairs, or one after the other from the same one while
\* the server still has a CEP of the first; one place on the list.
CONSTANTS
    Calls = {k1, k2}
    Answers = {a1, a2}
    ClientQPs = {c1, c2}
    ServerQPs = {s1}
    Backlog = 1
    MaxRetries = 1
    None = None
    MaxInFlight = 2
SPECIFICATION Spec
SYMMETRY Symmetry
INVARIANTS
    TypeOK
    TimersRun
    PendingIsRinging
    EndPointsUnique
    PartnersAgree
PROPERTY ImplementsRendezvous
CONSTRAINT FewInFlight
CHECK_DEADLOCK FALSE
