\* Two MP producers and two MC consumers racing on both CAS paths, without
\* symmetry reduction (unsound for liveness): CAS contention at both ends,
\* out-of-order copy completion, full and empty rings, FIXED and VARIABLE
\* calls and an index wrap, and every call returning.
CONSTANTS
  p1 = p1
  p2 = p2
  c1 = c1
  c2 = c2
  Producers <- MCProducers
  Consumers <- MCConsumers
  Size = 4
  Capacity = 2
  IndexBits = 3
  ProdST = FALSE
  ConsST = FALSE
  InitIndex = {6}
  MaxObjs = 2
  MaxBurst = 2

SPECIFICATION Spec

INVARIANT TypeOK
INVARIANT NoSlotRace
INVARIANT ReturnedVisible
PROPERTY RingQueueSpec
PROPERTY CallsReturn
