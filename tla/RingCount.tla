----------------------------- MODULE RingCount -----------------------------
(***************************************************************************)
(* rte_ring_count, rte_ring_free_count, rte_ring_full and rte_ring_empty  *)
(* while enqueue and dequeue calls run:                                    *)
(*   prod_tail = r->prod.tail; cons_tail = r->cons.tail;                   *)
(*   count = (prod_tail - cons_tail) & r->mask;                            *)
(*   return count > r->capacity ? r->capacity : count;                     *)
(*   free_count = r->capacity - rte_ring_count(r);                         *)
(*   full = rte_ring_free_count(r) == 0;                                   *)
(*   empty: the same two loads, return cons_tail == prod_tail.             *)
(* prod.tail overlays hts_prod.ht.pos.tail, so on an HTS ring the queries *)
(* read prodTail and consTail of RingHTS.  Each query loads prod.tail,    *)
(* then cons.tail; free_count and full compute from one count, so one     *)
(* query, by an observer thread that is not a ring thread, stands for all *)
(* four.                                                                   *)
(***************************************************************************)
EXTENDS RingHTS

VARIABLES
  qProd,   \* the prod_tail the query loaded, NoLoad before its first load
  qSeen    \* the objects in the ring at that load

qvars == <<qProd, qSeen>>
NoLoad == Modulus   \* not an index

\* The objects between cons.tail and prod.tail: enqueued, not yet dequeued.
Published == {slots[SlotOf(consTail + k)] : k \in 0..(Dist(consTail, prodTail) - 1)}

\* Mutant: the count is not clamped to the capacity.
RingCountNoClamp(pt, ct) == (pt - ct) % Size

\* rte_ring_count from its two loads; & mask is % Size, the size a power of 2.
RingCount(pt, ct) == LET c == (pt - ct) % Size IN IF c > Capacity THEN Capacity ELSE c

\* rte_ring_free_count, in unsigned arithmetic; rte_ring_full; rte_ring_empty.
RingFreeCount(pt, ct) == (Capacity - RingCount(pt, ct)) % Modulus
RingFull(pt, ct) == RingFreeCount(pt, ct) = 0
RingEmpty(pt, ct) == ct = pt

\* prod_tail = r->prod.tail.
QueryLoadProd ==
  /\ qProd = NoLoad
  /\ qProd' = prodTail /\ qSeen' = Published
  /\ UNCHANGED vars

\* cons_tail = r->cons.tail; the query returns.
QueryReturn ==
  /\ qProd # NoLoad
  /\ qProd' = NoLoad /\ qSeen' = {}
  /\ UNCHANGED vars

CountInit == Init /\ qProd = NoLoad /\ qSeen = {}

CountNext ==
  \/ Next /\ UNCHANGED qvars
  \/ QueryLoadProd \/ QueryReturn

\* The ring threads' fairness of RingHTS; the observer gets none.
CountSpec ==
  CountInit /\ [][CountNext]_<<vars, qvars>> /\ \A t \in Threads : WF_vars(Step(t))

-----------------------------------------------------------------------------
(* A query is exact about the objects that stay in the ring for the whole *)
(* call and bounded by the capacity, however enqueues and dequeues move    *)
(* the two tails between its loads: count is at least the number of       *)
(* objects present at both loads and at most the capacity, free_count     *)
(* leaves room for no more than the capacity minus those objects (the      *)
(* clamp keeps the unsigned subtraction from wrapping when cons.tail has  *)
(* passed the loaded prod.tail), and empty is true only if none stayed.   *)
CountBounds ==
  [][QueryReturn =>
       LET stayed == Cardinality(qSeen \cap Published)
           c == RingCount(qProd, consTail)
       IN /\ stayed <= c /\ c <= Capacity
          /\ RingFreeCount(qProd, consTail) <= Capacity - stayed
          /\ RingEmpty(qProd, consTail) => stayed = 0]_qvars
=============================================================================
