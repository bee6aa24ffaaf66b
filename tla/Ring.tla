-------------------------------- MODULE Ring --------------------------------
(***************************************************************************)
(* The rte_ring head/tail algorithm behind the default-mode enqueue and    *)
(* dequeue wrappers of dpdk_wrapper.h (rte_ring_{mp,sp,}_enqueue_*_w,      *)
(* rte_ring_{mc,sc,}_dequeue_*_w).  Each wrapper forwards unchanged to     *)
(* __rte_ring_do_enqueue_elem / __rte_ring_do_dequeue_elem, which run:     *)
(*                                                                         *)
(*   1. move the head: load own head, then in a loop load the opposite     *)
(*      tail, compute free entries (or entries), cut n (FIXED: all or      *)
(*      nothing, VARIABLE: as many as fit), return 0 if n = 0, and         *)
(*      claim [old_head, old_head+n) by CAS on the head (a plain store     *)
(*      for a single-thread end);                                          *)
(*   2. copy the objects into (or out of) the claimed slots;               *)
(*   3. update the tail: a multi-thread end first waits until the tail     *)
(*      equals its old head, then stores its new head into the tail.      *)
(*                                                                         *)
(* Indices are unsigned integers of IndexBits bits (32 in the code) and    *)
(* wrap; a slot is index & mask.  Each step of a thread below is one of    *)
(* the shared-memory accesses of the code, so threads interleave between  *)
(* them exactly where the code lets them.                                  *)
(***************************************************************************)
EXTENDS Integers, Sequences, FiniteSets, Functions, RingArith

CONSTANTS
  Producers,   \* threads calling enqueue wrappers
  Consumers,   \* threads calling dequeue wrappers
  ProdST,      \* TRUE: producer end is RTE_RING_SYNC_ST (sp_ calls / RING_F_SP_ENQ)
  ConsST,      \* TRUE: consumer end is RTE_RING_SYNC_ST (sc_ calls / RING_F_SC_DEQ)
  InitIndex,   \* head/tail values the ring may hold when the checked run starts
  MaxObjs,     \* bound: objects each producer enqueues
  MaxBurst     \* bound: n of one call

Threads == Producers \cup Consumers

ASSUME /\ Producers \cap Consumers = {}
       /\ InitIndex \subseteq 0..(Modulus - 1)
       /\ ProdST => Cardinality(Producers) = 1
       /\ ConsST => Cardinality(Consumers) = 1
       /\ MaxObjs \in Nat /\ MaxBurst \in 1..Capacity

Object == (Producers \X (1..MaxObjs)) \cup {<<"garbage", 0>>}

VARIABLES
  prodHead, prodTail,   \* r->prod.head, r->prod.tail
  consHead, consTail,   \* r->cons.head, r->cons.tail
  slots,                \* the ring's object table, Size slots
  pc,                   \* where each thread is in its current call
  oldHead,              \* the thread's *old_head
  want,                 \* n the caller asked for
  behav,                \* FIXED (bulk, single object) or VARIABLE (burst)
  cnt,                  \* n the head move settled on
  buf,                  \* objects a consumer copied out of the ring
  sent,                 \* objects each producer's calls have enqueued
  got                   \* objects each consumer's calls have dequeued, in order

vars == <<prodHead, prodTail, consHead, consTail, slots, pc, oldHead, want,
          behav, cnt, buf, sent, got>>

NewHead(t) == (oldHead[t] + cnt[t]) % Modulus

\* The locals of thread t once its call has returned (dead in the code).
Returned(t) ==
  /\ pc' = [pc EXCEPT ![t] = "idle"]
  /\ oldHead' = [oldHead EXCEPT ![t] = 0]
  /\ want' = [want EXCEPT ![t] = 0]
  /\ behav' = [behav EXCEPT ![t] = Fixed]
  /\ cnt' = [cnt EXCEPT ![t] = 0]

Init ==
  /\ \E i \in InitIndex :
       /\ prodHead = i /\ prodTail = i /\ consHead = i /\ consTail = i
  /\ slots = [s \in 0..(Size - 1) |-> <<"garbage", 0>>]
  /\ pc = [t \in Threads |-> "idle"]
  /\ oldHead = [t \in Threads |-> 0]
  /\ want = [t \in Threads |-> 0]
  /\ behav = [t \in Threads |-> Fixed]
  /\ cnt = [t \in Threads |-> 0]
  /\ buf = [c \in Consumers |-> <<>>]
  /\ sent = [p \in Producers |-> 0]
  /\ got = [c \in Consumers |-> <<>>]

-----------------------------------------------------------------------------
(* Producer: __rte_ring_do_enqueue_elem                                    *)

\* Call entry and the first load of the head: *old_head = d->head.
EnqueueCall(p, n, b) ==
  /\ pc[p] = "idle"
  /\ sent[p] + n <= MaxObjs
  /\ pc' = [pc EXCEPT ![p] = "load_tail"]
  /\ oldHead' = [oldHead EXCEPT ![p] = prodHead]
  /\ want' = [want EXCEPT ![p] = n]
  /\ behav' = [behav EXCEPT ![p] = b]
  /\ UNCHANGED <<prodHead, prodTail, consHead, consTail, slots, cnt, buf,
                 sent, got>>

\* Mutant: free entries computed from cons.head instead of cons.tail.
ProdLoadTailConsHead(p) ==
  LET n == CutN(want[p], behav[p], FreeEntries(oldHead[p], consHead))
  IN  /\ pc[p] = "load_tail"
      /\ IF n = 0
           THEN Returned(p)
           ELSE /\ cnt' = [cnt EXCEPT ![p] = n]
                /\ pc' = [pc EXCEPT ![p] = "cas"]
                /\ UNCHANGED <<oldHead, want, behav>>
      /\ UNCHANGED <<prodHead, prodTail, consHead, consTail, slots, buf, sent, got>>

\* Loop body up to the CAS: load cons.tail, compute free entries, cut n;
\* n = 0 returns 0 from the call.
ProdLoadTail(p) ==
  LET n == CutN(want[p], behav[p], FreeEntries(oldHead[p], consTail))
  IN  /\ pc[p] = "load_tail"
      /\ IF n = 0
           THEN Returned(p)
           ELSE /\ cnt' = [cnt EXCEPT ![p] = n]
                /\ pc' = [pc EXCEPT ![p] = "cas"]
                /\ UNCHANGED <<oldHead, want, behav>>
      /\ UNCHANGED <<prodHead, prodTail, consHead, consTail, slots, buf, sent, got>>

\* Mutant: a failed CAS retries with the stale *old_head.
ProdClaimNoReload(p) ==
  /\ pc[p] = "cas"
  /\ IF ProdST \/ prodHead = oldHead[p]
       THEN /\ prodHead' = NewHead(p)
            /\ pc' = [pc EXCEPT ![p] = "copy"]
       ELSE /\ pc' = [pc EXCEPT ![p] = "load_tail"]
            /\ UNCHANGED prodHead
  /\ UNCHANGED <<oldHead, prodTail, consHead, consTail, slots, want, behav,
                 cnt, buf, sent, got>>

\* Claim: a plain store for ST; for MT a CAS that on failure reloads
\* *old_head and goes round the loop again.
ProdClaim(p) ==
  /\ pc[p] = "cas"
  /\ IF ProdST \/ prodHead = oldHead[p]
       THEN /\ prodHead' = NewHead(p)
            /\ pc' = [pc EXCEPT ![p] = "copy"]
            /\ UNCHANGED oldHead
       ELSE /\ oldHead' = [oldHead EXCEPT ![p] = prodHead]
            /\ pc' = [pc EXCEPT ![p] = "load_tail"]
            /\ UNCHANGED prodHead
  /\ UNCHANGED <<prodTail, consHead, consTail, slots, want, behav, cnt, buf,
                 sent, got>>

\* __rte_ring_enqueue_elems: the caller's next cnt objects into the slots.
ProdCopy(p) ==
  /\ pc[p] = "copy"
  /\ slots' = [s \in DOMAIN slots |->
                 LET k == (s - oldHead[p]) % Size   \* s = (old_head + k) & mask
                 IN  IF k < cnt[p] THEN <<p, sent[p] + k + 1>> ELSE slots[s]]
  /\ pc' = [pc EXCEPT ![p] = "tail"]
  /\ UNCHANGED <<prodHead, prodTail, consHead, consTail, oldHead, want, behav,
                 cnt, buf, sent, got>>

\* Mutant: the tail is published without waiting for earlier producers.
ProdUpdateTailNoWait(p) ==
  /\ pc[p] = "tail"
  /\ prodTail' = NewHead(p)
  /\ sent' = [sent EXCEPT ![p] = @ + cnt[p]]
  /\ Returned(p)
  /\ UNCHANGED <<prodHead, consHead, consTail, slots, buf, got>>

\* __rte_ring_update_tail: MT waits for earlier producers, then publishes;
\* the call returns cnt and the caller's objects are sent.
ProdUpdateTail(p) ==
  /\ pc[p] = "tail"
  /\ ProdST \/ prodTail = oldHead[p]
  /\ prodTail' = NewHead(p)
  /\ sent' = [sent EXCEPT ![p] = @ + cnt[p]]
  /\ Returned(p)
  /\ UNCHANGED <<prodHead, consHead, consTail, slots, buf, got>>

-----------------------------------------------------------------------------
(* Consumer: __rte_ring_do_dequeue_elem                                    *)

DequeueCall(c, n, b) ==
  /\ pc[c] = "idle"
  /\ pc' = [pc EXCEPT ![c] = "load_tail"]
  /\ oldHead' = [oldHead EXCEPT ![c] = consHead]
  /\ want' = [want EXCEPT ![c] = n]
  /\ behav' = [behav EXCEPT ![c] = b]
  /\ UNCHANGED <<prodHead, prodTail, consHead, consTail, slots, cnt, buf,
                 sent, got>>

\* Mutant: the consumer counts entries against prod.head, not prod.tail.
ConsLoadTailProdHead(c) ==
  LET n == CutN(want[c], behav[c], Entries(oldHead[c], prodHead))
  IN  /\ pc[c] = "load_tail"
      /\ IF n = 0
           THEN Returned(c)
           ELSE /\ cnt' = [cnt EXCEPT ![c] = n]
                /\ pc' = [pc EXCEPT ![c] = "cas"]
                /\ UNCHANGED <<oldHead, want, behav>>
      /\ UNCHANGED <<prodHead, prodTail, consHead, consTail, slots, buf, sent, got>>

ConsLoadTail(c) ==
  LET n == CutN(want[c], behav[c], Entries(oldHead[c], prodTail))
  IN  /\ pc[c] = "load_tail"
      /\ IF n = 0
           THEN Returned(c)
           ELSE /\ cnt' = [cnt EXCEPT ![c] = n]
                /\ pc' = [pc EXCEPT ![c] = "cas"]
                /\ UNCHANGED <<oldHead, want, behav>>
      /\ UNCHANGED <<prodHead, prodTail, consHead, consTail, slots, buf, sent, got>>

ConsClaim(c) ==
  /\ pc[c] = "cas"
  /\ IF ConsST \/ consHead = oldHead[c]
       THEN /\ consHead' = NewHead(c)
            /\ pc' = [pc EXCEPT ![c] = "copy"]
            /\ UNCHANGED oldHead
       ELSE /\ oldHead' = [oldHead EXCEPT ![c] = consHead]
            /\ pc' = [pc EXCEPT ![c] = "load_tail"]
            /\ UNCHANGED consHead
  /\ UNCHANGED <<prodHead, prodTail, consTail, slots, want, behav, cnt, buf,
                 sent, got>>

\* __rte_ring_dequeue_elems: cnt objects out of the claimed slots.
ConsCopy(c) ==
  /\ pc[c] = "copy"
  /\ buf' = [buf EXCEPT ![c] =
               [i \in 1..cnt[c] |-> slots[SlotOf(oldHead[c] + i - 1)]]]
  /\ pc' = [pc EXCEPT ![c] = "tail"]
  /\ UNCHANGED <<prodHead, prodTail, consHead, consTail, slots, oldHead, want,
                 behav, cnt, sent, got>>

ConsUpdateTail(c) ==
  /\ pc[c] = "tail"
  /\ ConsST \/ consTail = oldHead[c]
  /\ consTail' = NewHead(c)
  /\ got' = [got EXCEPT ![c] = @ \o buf[c]]
  /\ buf' = [buf EXCEPT ![c] = <<>>]
  /\ Returned(c)
  /\ UNCHANGED <<prodHead, prodTail, consHead, slots, sent>>

-----------------------------------------------------------------------------
Calls ==
  \/ \E p \in Producers, n \in 1..MaxBurst : \E b \in Behaviours(n) :
       EnqueueCall(p, n, b)
  \/ \E c \in Consumers, n \in 1..MaxBurst : \E b \in Behaviours(n) :
       DequeueCall(c, n, b)

Step(t) ==
  IF t \in Producers
    THEN ProdLoadTail(t) \/ ProdClaim(t) \/ ProdCopy(t) \/ ProdUpdateTail(t)
    ELSE ConsLoadTail(t) \/ ConsClaim(t) \/ ConsCopy(t) \/ ConsUpdateTail(t)

Next == Calls \/ \E t \in Threads : Step(t)

\* A thread inside a call keeps running (lcores are not descheduled for
\* good); whether a caller makes another call is its own business.
Spec == Init /\ [][Next]_vars /\ \A t \in Threads : WF_vars(Step(t))

-----------------------------------------------------------------------------
(* Properties                                                              *)

(* Types; a consumer only ever holds objects some producer enqueued, never *)
(* the stale contents of a slot (what __rte_ring_dequeue_elems would copy *)
(* out if cons.head ran past prod.tail).                                  *)
TypeOK ==
  /\ {prodHead, prodTail, consHead, consTail} \subseteq Index
  /\ slots \in [0..(Size - 1) -> Object]
  /\ pc \in [Threads -> {"idle", "load_tail", "cas", "copy", "tail"}]
  /\ oldHead \in [Threads -> Index]
  /\ want \in [Threads -> 0..MaxBurst]
  /\ behav \in [Threads -> {Fixed, Variable}]
  /\ cnt \in [Threads -> 0..MaxBurst]
  /\ buf \in [Consumers -> Seq(Producers \X (1..MaxObjs))]
  /\ sent \in [Producers -> 0..MaxObjs]
  /\ got \in [Consumers -> Seq(Producers \X (1..MaxObjs))]

\* The slots a thread has claimed and not yet copied.
Region(t) == IF pc[t] = "copy" THEN Span(oldHead[t], NewHead(t)) ELSE {}

(* No slot is copied by two threads at once, and no producer copies into a *)
(* slot that holds an object consumers have not finished with: the head    *)
(* CAS hands out disjoint regions and the free-entry count of              *)
(* __rte_ring_move_prod_head keeps producers behind cons.tail.  A         *)
(* violation is a data race on the object table.                          *)
NoSlotRace ==
  \A p \in Producers :
    /\ Region(p) \cap Span(consTail, prodTail) = {}
    /\ \A t \in Threads \ {p} : Region(p) \cap Region(t) = {}

(* The ring as the abstract queue sees it: what consumers can still claim, *)
(* from cons.head to prod.tail; a consumer owns its claimed objects from   *)
(* the moment its head CAS succeeds.                                       *)
QBar == [i \in 1..Dist(consHead, prodTail) |-> slots[SlotOf(consHead + i - 1)]]

GotBar ==
  [c \in Consumers |->
     got[c] \o (CASE pc[c] = "copy" ->
                       [i \in 1..cnt[c] |-> slots[SlotOf(oldHead[c] + i - 1)]]
                  [] pc[c] = "tail" -> buf[c]
                  [] OTHER -> <<>>)]

Abs == INSTANCE RingQueue WITH q <- QBar, got <- GotBar

(* The head/tail algorithm implements the bounded FIFO contract of the     *)
(* enqueue/dequeue wrappers: every enqueued object is dequeued at most     *)
(* once, in enqueue order, never more than Capacity are held, and an      *)
(* object a consumer copies out is the one its head CAS claimed.           *)
RingQueueSpec == Abs!Spec

\* Objects a consumer can still dequeue or has dequeued.
Visible ==
  {slots[SlotOf(consTail + i)] : i \in 0..(Dist(consTail, prodTail) - 1)}
  \cup UNION {Range(got[c]) \cup Range(buf[c]) : c \in Consumers}

(* An enqueue call that has returned has made its objects dequeueable:   *)
(* __rte_ring_update_tail waits for the earlier claimants and then        *)
(* stores prod.tail past the call's own objects before the call returns.  *)
ReturnedVisible ==
  \A p \in Producers :
    pc[p] = "idle" => \A k \in 1..sent[p] : <<p, k>> \in Visible

(* Every call of an enqueue or dequeue wrapper returns: a multi-producer   *)
(* (consumer) waiting in __rte_ring_update_tail for an earlier one is     *)
(* released, and a failed head CAS is retried to success or return 0.     *)
CallsReturn == \A t \in Threads : pc[t] # "idle" ~> pc[t] = "idle"

=============================================================================
