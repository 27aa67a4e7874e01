SPECIFICATION Spec
CONSTANTS
 Node = {1,2,3,4,5}
 Self = 3
 Priority <- Equal
 MDRConstraint = 3
 AdjConnectivity = 1
INVARIANTS BackupsMatchDisjointPaths SubtreesAreDisjoint
\* The call is made once.
CHECK_DEADLOCK FALSE
