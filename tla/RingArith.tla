----------------------------- MODULE RingArith -----------------------------
(***************************************************************************)
(* Index arithmetic shared by every rte_ring sync mode: head and tail      *)
(* indices are unsigned integers of IndexBits bits (uint32_t in the code,  *)
(* so they wrap), a slot is index & mask, and every head move computes     *)
(* the free entries (enqueue) or the entries (dequeue) and cuts the        *)
(* requested n by the call's queue behaviour.                              *)
(***************************************************************************)
EXTENDS Integers

CONSTANTS
  Size,        \* rte_ring_get_size(r): a power of two
  Capacity,    \* rte_ring_get_capacity(r): Size - 1, or less (RING_F_EXACT_SZ)
  IndexBits    \* width of the head and tail indices

ASSUME /\ IndexBits \in Nat \ {0}
       /\ Size \in {2^k : k \in 1..IndexBits}
       /\ Capacity \in (Size \div 2)..(Size - 1)   \* rte_ring_create(_elem)

Modulus == 2^IndexBits
Index == 0..(Modulus - 1)

\* enum rte_ring_queue_behavior
Fixed == "RTE_RING_QUEUE_FIXED"
Variable == "RTE_RING_QUEUE_VARIABLE"

\* The behaviours a call of n objects can have: a burst of one object
\* behaves as a bulk call of one object, so n = 1 is taken as FIXED only.
Behaviours(n) == IF n = 1 THEN {Fixed} ELSE {Fixed, Variable}

\* (b - a) in IndexBits-bit unsigned arithmetic.
Dist(a, b) == (b - a) % Modulus
\* The slot of index i: i & r->mask.
SlotOf(i) == i % Size
\* The slots from index a up to, not including, index b.
Span(a, b) == {SlotOf(a + k) : k \in 0..(Dist(a, b) - 1)}

\* Mutant: free entries counted against the ring size instead of its capacity.
FreeEntriesSize(oh, ct) == (Size + ct - oh) % Modulus
\* Mutant: entries computed as old_head - prod_tail (operands swapped).
EntriesSwapped(oh, pt) == Dist(pt, oh)

\* free_entries = capacity + cons_tail - old_head
FreeEntries(oh, ct) == (Capacity + ct - oh) % Modulus
\* entries = prod_tail - old_head
Entries(oh, pt) == Dist(oh, pt)

\* n cut to what is there: 0 for a FIXED call that does not fit.
CutN(n, b, avail) ==
  IF n <= avail THEN n ELSE IF b = Fixed THEN 0 ELSE avail

=============================================================================
