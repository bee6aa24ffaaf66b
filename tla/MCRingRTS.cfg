\* RTS ring: rte_ring_mp_rts_* / rte_ring_mc_rts_* wrappers.  htd_max starts
\* at 1 on both ends, so two calls of one end can be in flight and the last
\* to finish publishes for both, and rte_ring_set_*_htd_max moves it between
\* 1 and 0 under the running calls.  Two producers race on one end; the
\* consumer end runs the same actions.  No symmetry: unsound for liveness.
CONSTANTS
  p1 = p1
  p2 = p2
  c1 = c1
  c2 = c2
  Producers <- MCProducers
  Consumers <- MCSingleConsumer
  Size = 4
  Capacity = 2
  IndexBits = 3
  InitIndex = {6}
  InitCount = {7}
  InitHtd = {1}
  HtdValues = {0}
  MaxObjs = 2
  MaxBurst = 2

SPECIFICATION Spec

INVARIANT TypeOK
INVARIANT TailCounts
INVARIANT NoSlotRace
PROPERTY RingQueueSpec
PROPERTY CallsReturn
