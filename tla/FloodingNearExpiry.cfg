\* A copy is sent shortly before its original reaches MaxAge.
CONSTANTS
    Nbr = {n1, n2}
    MaxSeq = 2
    Own = FALSE
    Restarted = FALSE
    NearExpiry = TRUE
SPECIFICATION Spec
INVARIANTS
    RetransCountNonNegative
