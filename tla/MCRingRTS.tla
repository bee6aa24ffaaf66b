------------------------------ MODULE MCRingRTS ------------------------------
(***************************************************************************)
(* RingRTS instantiated for TLC: two producers and two consumers on a     *)
(* ring of 4 slots holding at most 2 objects, 3-bit pos and cnt values    *)
(* starting near the wrap point.                                           *)
(***************************************************************************)
EXTENDS RingRTS, TLC

CONSTANTS p1, p2, c1, c2

MCProducers == {p1, p2}
MCConsumers == {c1, c2}
MCSingleConsumer == {c1}

\* Producers are interchangeable, and so are consumers (safety runs only).
MCSymmetry == Permutations(MCProducers) \cup Permutations(MCConsumers)

=============================================================================
