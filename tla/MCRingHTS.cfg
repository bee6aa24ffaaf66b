\* HTS ring: rte_ring_mp_hts_* / rte_ring_mc_hts_* wrappers.  Two producers
\* race on the producer end (the consumer end runs the same actions), two
\* objects each, so the ring fills and the indices wrap; no symmetry
\* reduction, which is unsound for CallsReturn.
CONSTANTS
  p1 = p1
  p2 = p2
  c1 = c1
  c2 = c2
  Producers <- MCProducers
  Consumers <- MCSingleConsumer
  Size = 4
  Capacity = 2
  IndexBits = 3
  InitIndex = {6}
  MaxObjs = 2
  MaxBurst = 2

SPECIFICATION CountSpec

INVARIANT TypeOK
INVARIANT SerialEnds
INVARIANT NoSlotRace
INVARIANT ReturnedVisible
PROPERTY RingQueueSpec
PROPERTY CallsReturn
PROPERTY CountBounds
