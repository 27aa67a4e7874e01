\* The router's own LSA; two neighbors.
CONSTANTS
    Nbr = {n1, n2}
    MaxSeq = 3
    Own = TRUE
    Restarted = FALSE
    NearExpiry = FALSE
SPECIFICATION Spec
SYMMETRY NbrSymmetry
INVARIANTS
    IInv
    RetransCountCovers
    RetransCountNonNegative
    RetransmissionScheduled
PROPERTIES
    DatabaseMovesForward
