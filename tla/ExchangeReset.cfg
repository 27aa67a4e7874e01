SPECIFICATION FairSpec
CONSTANTS
  a = a
  b = b
  c = c
  Key = {a, b, c}
  DbOf <- Overlap
  PerPacket = 1
  FastRestart = TRUE
  MaxOneway = 1
  MaxLosses = 0
  MaxFlushes = 0
  MaxTransit = 1
INVARIANTS TypeOK FullIsSynchronized SomethingPending
PROPERTY AdjacencyForms
\* Two routers that are Full have nothing more to exchange.
CHECK_DEADLOCK FALSE
