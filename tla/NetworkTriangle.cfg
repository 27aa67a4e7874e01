\* Three routers, all adjacent; messages are lost.
CONSTANTS
    a = a
    b = b
    c = c
    Router = {a, b, c}
    Link <- Triangle
    Owner = a
    Start = "Full"
    Scenarios <- Originates
    MaxBreaks = 0
    MaxLosses = 1
    MaxSeq = 1
SPECIFICATION FairSpec
INVARIANTS
    GapIsCovered
PROPERTIES
    Converges
\* A network that agrees is at rest; Converges excludes any other standstill.
CHECK_DEADLOCK FALSE
