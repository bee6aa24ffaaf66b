----------------------------- MODULE RingQueue -----------------------------
(***************************************************************************)
(* What an rte_ring promises its callers, the contract every enqueue and   *)
(* dequeue wrapper of dpdk_wrapper.h forwards to: a bounded FIFO queue of  *)
(* at most Capacity object pointers.  An enqueue of n objects puts all n   *)
(* at the tail in one indivisible step; a dequeue of n objects takes the   *)
(* n oldest ones in one indivisible step and hands them to its caller.     *)
(* A call that moves nothing (a failed bulk call, an empty burst) is a     *)
(* stuttering step.                                                        *)
(*                                                                         *)
(* The object the k-th enqueued object of producer p stands for is <<p,k>>,*)
(* so a lost, duplicated or reordered object is visible in q and got.      *)
(***************************************************************************)
EXTENDS Integers, Sequences

CONSTANTS
  Producers,   \* threads calling enqueue wrappers
  Consumers,   \* threads calling dequeue wrappers
  Capacity     \* rte_ring_get_capacity(r)

VARIABLES
  q,      \* objects in the ring, oldest first
  sent,   \* sent[p]: number of objects p has enqueued so far
  got     \* got[c]: every object c has dequeued, in the order it got them

vars == <<q, sent, got>>

Init ==
  /\ q = <<>>
  /\ sent = [p \in Producers |-> 0]
  /\ got = [c \in Consumers |-> <<>>]

\* The objects of producer p's next enqueue of n objects.
Batch(p, n) == [i \in 1..n |-> <<p, sent[p] + i>>]

Enqueue(p, n) ==
  /\ n >= 1
  /\ Len(q) + n <= Capacity
  /\ q' = q \o Batch(p, n)
  /\ sent' = [sent EXCEPT ![p] = @ + n]
  /\ UNCHANGED got

Dequeue(c, n) ==
  /\ 1 <= n /\ n <= Len(q)
  /\ got' = [got EXCEPT ![c] = @ \o SubSeq(q, 1, n)]
  /\ q' = SubSeq(q, n + 1, Len(q))
  /\ UNCHANGED sent

Next ==
  \/ \E p \in Producers, n \in 1..Capacity : Enqueue(p, n)
  \/ \E c \in Consumers, n \in 1..Capacity : Dequeue(c, n)

Spec == Init /\ [][Next]_vars

=============================================================================
