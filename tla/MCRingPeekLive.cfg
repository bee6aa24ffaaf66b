\* Peek API: two producers on an HTS end and one consumer on an ST end, without
\* symmetry reduction: safety of both sync types and progress of every call.
CONSTANTS
  p1 = p1
  p2 = p2
  c1 = c1
  c2 = c2
  Producers <- MCProducers
  Consumers <- MCSingleConsumer
  ProdSync = "HTS"
  ConsSync = "ST"
  Size = 4
  Capacity = 2
  IndexBits = 3
  InitIndex = {6}
  MaxObjs = 2
  MaxBurst = 2

SPECIFICATION Spec

INVARIANT TypeOK
INVARIANT PeekExclusive
INVARIANT NoSlotRace
PROPERTY RingQueueSpec
PROPERTY CallsReturnUnlessCancelling
