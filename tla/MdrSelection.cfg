SPECIFICATION FairSpec
CONSTANTS
  Node = {1, 2, 3, 4}
  Topologies <- Sparse
  MaxFaults = 1
  Priority <- Equal
  MDRConstraint = 3
  AdjConnectivity = 1
INVARIANTS TypeOK MdrsDominate AdjacenciesAgree AdjacenciesConnect
PROPERTY Settles
