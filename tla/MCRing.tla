------------------------------- MODULE MCRing -------------------------------
(***************************************************************************)
(* Ring instantiated for TLC.  In MCRingLive indices are 3 bits wide (8   *)
(* values) over a ring of 4 slots holding at most 2 objects, and a run may *)
(* start with the indices at 6, so index arithmetic wraps past 7 within a  *)
(* few calls, as the 32-bit indices of rte_ring wrap past 2^32 - 1.  With  *)
(* at most 2 objects per producer, fewer than 8 objects pass through the   *)
(* ring in a run, so a head never laps a whole index period while a thread *)
(* holds an old copy of it (see MCRingABA for what happens when it does).  *)
(***************************************************************************)
EXTENDS Ring, TLC

CONSTANTS p1, p2, c1, c2

MCProducers == {p1, p2}
MCConsumers == {c1, c2}
MCSingleProducer == {p1}
MCSingleConsumer == {c1}

\* Producers are interchangeable, and so are consumers: a permutation maps
\* a behaviour to a behaviour and preserves every safety property checked.
MCSymmetry == Permutations(MCProducers) \cup Permutations(MCConsumers)

=============================================================================
