\* RTS ring, htd_max 1: is every object of a returned enqueue call
\* dequeueable?  One object per producer is enough for two producers to be
\* in flight at once.
CONSTANTS
  p1 = p1
  p2 = p2
  c1 = c1
  c2 = c2
  Producers <- MCProducers
  Consumers <- MCSingleConsumer
  Size = 4
  Capacity = 2
  IndexBits = 3
  InitIndex = {6}
  InitCount = {7}
  InitHtd = {1}
  HtdValues = {}
  MaxObjs = 1
  MaxBurst = 2

SPECIFICATION Spec

INVARIANT ReturnedVisible
