SPECIFICATION Spec
CONSTANTS
  a = a
  b = b
  c = c
  Key = {a, b, c}
  DbOf <- Two
  PerPacket = 1
  FastRestart = FALSE
  MaxOneway = 0
  MaxLosses = 0
  MaxFlushes = 0
  MaxTransit = 2
INVARIANT DuplicatesAreIdentical
\* Two routers that are Full have nothing more to exchange.
CHECK_DEADLOCK FALSE
