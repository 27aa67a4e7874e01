\* An LSA of another router; two neighbors.
CONSTANTS
    Nbr = {n1, n2}
    MaxSeq = 2
    Own = FALSE
    Restarted = FALSE
    NearExpiry = FALSE
SPECIFICATION Spec
SYMMETRY NbrSymmetry
INVARIANTS
    ThreadsFollowDatabase
    RetransCountExact
    RetransIsDatabaseCopy
    ListsFollowState
    RetransmissionScheduled
PROPERTIES
    DatabaseMovesForward
    RemovedWhenUnneeded
