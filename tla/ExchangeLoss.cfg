SPECIFICATION FairSpec
CONSTANTS
  a = a
  b = b
  c = c
  Key = {a, b, c}
  DbOf <- Two
  PerPacket = 1
  FastRestart = FALSE
  MaxOneway = 0
  MaxLosses = 1
  MaxFlushes = 1
  MaxTransit = 1
INVARIANTS FullIsSynchronized LoadingDoneAssertion
PROPERTY AdjacencyForms
\* Two routers that are Full have nothing more to exchange.
CHECK_DEADLOCK FALSE
