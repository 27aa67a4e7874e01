\* Two routers; the adjacency forms, breaks and forms again.
\* The owner may flush the LSA, or has restarted and b holds an instance from before.
CONSTANTS
    a = a
    b = b
    c = c
    Router = {a, b}
    Link <- Pair
    Owner = a
    Start = "Below"
    Scenarios <- FlushOrReturn
    MaxBreaks = 1
    MaxLosses = 0
    MaxSeq = 2
SPECIFICATION FairSpec
INVARIANTS
    TypeOK
    GapIsCovered
PROPERTIES
    Converges
    PriorIsReplaced
\* A network that agrees is at rest; Converges excludes any other standstill.
CHECK_DEADLOCK FALSE
