SPECIFICATION Spec
CONSTANTS
  Node = {1, 2, 3, 4, 5}
  Topologies <- Dense
  MaxFaults = 0
  Priority <- Equal
  MDRConstraint = 3
  AdjConnectivity = 2
INVARIANTS BackupsDominate FloodersDominate AdjacenciesBiconnect
