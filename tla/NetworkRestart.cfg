\* The owner has restarted; b holds an instance from before.
CONSTANTS
    a = a
    b = b
    c = c
    Router = {a, b}
    Link <- Pair
    Owner = a
    Start = "Below"
    Scenarios <- Returns
    MaxBreaks = 1
    MaxLosses = 0
    MaxSeq = 4
SPECIFICATION Spec
INVARIANTS
    RetransCountNonNegative
\* A network that agrees is at rest; Converges excludes any other standstill.
CHECK_DEADLOCK FALSE
