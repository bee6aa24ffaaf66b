------------------------------ MODULE MCRingPeek ------------------------------
(***************************************************************************)
(* RingPeek instantiated for TLC: HTS ends with two producers and two     *)
(* consumers, or ST ends with one of each.                                 *)
(***************************************************************************)
EXTENDS RingPeek, TLC

CONSTANTS p1, p2, c1, c2

MCProducers == {p1, p2}
MCConsumers == {c1, c2}
MCSingleProducer == {p1}
MCSingleConsumer == {c1}

\* Producers are interchangeable, and so are consumers (safety runs only).
MCSymmetry == Permutations(MCProducers) \cup Permutations(MCConsumers)

=============================================================================
