------------------------------- MODULE RingRTS -------------------------------
(***************************************************************************)
(* The relaxed tail sync (RTS) ring behind rte_ring_mp_rts_* and           *)
(* rte_ring_mc_rts_* of dpdk_wrapper.h, with rte_ring_{get,set}_*_htd_max. *)
(* Each end has a head and a tail, each a 64-bit word {cnt, pos}: pos is  *)
(* the ring index, cnt counts the head moves (head) or the finished calls *)
(* (tail).  The head move (__rte_ring_rts_move_{prod,cons}_head):         *)
(*                                                                         *)
(*   oh = atomic load of head                                              *)
(*   do { while (oh.pos - tail.pos > htd_max) reload oh;                   *)
(*        compute free entries (entries) from the other end's tail;        *)
(*        cut n; if n = 0 break;                                           *)
(*        nh = {oh.cnt + 1, oh.pos + n}                                    *)
(*   } while (!CAS(head, &oh, nh))      -- a failed CAS reloads oh         *)
(*                                                                         *)
(* then the objects are copied and __rte_ring_rts_update_tail runs:       *)
(*                                                                         *)
(*   ot = atomic load of tail                                              *)
(*   do { h = atomic load of head; nt = ot; nt.cnt++;                      *)
(*        if (nt.cnt == h.cnt) nt.pos = h.pos;                             *)
(*   } while (!CAS(tail, &ot, nt))      -- a failed CAS reloads ot         *)
(*                                                                         *)
(* Only the call that finishes last moves tail.pos, over every object     *)
(* claimed so far.                                                         *)
(***************************************************************************)
EXTENDS Integers, Sequences, FiniteSets, Functions, RingArith

CONSTANTS
  Producers,   \* threads calling enqueue wrappers
  Consumers,   \* threads calling dequeue wrappers
  InitIndex,   \* pos values the ring may hold when the checked run starts
  InitCount,   \* cnt values the ring may hold when the checked run starts
  InitHtd,     \* htd_max values the ring may hold when the checked run starts
  HtdValues,   \* values rte_ring_set_{prod,cons}_htd_max may be called with
  MaxObjs,     \* bound: objects each producer enqueues
  MaxBurst     \* bound: n of one call

Threads == Producers \cup Consumers
Ends == {"prod", "cons"}

ASSUME /\ Producers \cap Consumers = {}
       /\ InitIndex \subseteq Index /\ InitCount \subseteq Index
       /\ InitHtd \subseteq Index /\ HtdValues \subseteq Index
       /\ MaxObjs \in Nat /\ MaxBurst \in 1..Capacity

Object == (Producers \X (1..MaxObjs)) \cup {<<"garbage", 0>>}
PosCnt == [pos : Index, cnt : Index]   \* union __rte_ring_rts_poscnt
Zero == [pos |-> 0, cnt |-> 0]

VARIABLES
  head, tail,   \* r->rts_{prod,cons}.head / .tail, per end
  htd,          \* r->rts_{prod,cons}.htd_max, per end
  slots,        \* the ring's object table
  pc,           \* where each thread is in its current call
  oh,           \* the thread's copy of its end's head (head move)
  ot, h,        \* its copies of its end's tail and head (tail update)
  want,         \* n the caller asked for
  behav,        \* FIXED (bulk) or VARIABLE (burst)
  cnt,          \* n the head move settled on
  buf,          \* objects a consumer copied out of the ring
  sent,         \* objects each producer's calls have enqueued
  got           \* objects each consumer's calls have dequeued, in order

vars == <<head, tail, htd, slots, pc, oh, ot, h, want, behav, cnt, buf, sent,
          got>>

End(t) == IF t \in Producers THEN "prod" ELSE "cons"
NewHead(t) == [pos |-> (oh[t].pos + cnt[t]) % Modulus,
               cnt |-> (oh[t].cnt + 1) % Modulus]

\* The locals of thread t once its call has returned.
Returned(t) ==
  /\ pc' = [pc EXCEPT ![t] = "idle"]
  /\ oh' = [oh EXCEPT ![t] = Zero]
  /\ ot' = [ot EXCEPT ![t] = Zero]
  /\ h' = [h EXCEPT ![t] = Zero]
  /\ want' = [want EXCEPT ![t] = 0]
  /\ behav' = [behav EXCEPT ![t] = Fixed]
  /\ cnt' = [cnt EXCEPT ![t] = 0]

\* rte_ring_init on an RTS ring sets htd_max = capacity / HTD_MAX_DEF (8);
\* the application may have set it since (InitHtd).
Init ==
  /\ \E i \in InitIndex, c \in InitCount :
       /\ head = [e \in Ends |-> [pos |-> i, cnt |-> c]]
       /\ tail = head
  /\ htd \in [Ends -> InitHtd]
  /\ slots = [s \in 0..(Size - 1) |-> <<"garbage", 0>>]
  /\ pc = [t \in Threads |-> "idle"]
  /\ oh = [t \in Threads |-> Zero]
  /\ ot = [t \in Threads |-> Zero]
  /\ h = [t \in Threads |-> Zero]
  /\ want = [t \in Threads |-> 0]
  /\ behav = [t \in Threads |-> Fixed]
  /\ cnt = [t \in Threads |-> 0]
  /\ buf = [c \in Consumers |-> <<>>]
  /\ sent = [p \in Producers |-> 0]
  /\ got = [c \in Consumers |-> <<>>]

-----------------------------------------------------------------------------
(* rte_ring_set_{prod,cons}_htd_max: a plain store on an RTS ring.         *)

SetHtdMax(e, v) ==
  /\ htd' = [htd EXCEPT ![e] = v]
  /\ UNCHANGED <<head, tail, slots, pc, oh, ot, h, want, behav, cnt, buf,
                 sent, got>>

-----------------------------------------------------------------------------
(* Head move                                                               *)

\* Call entry: oh = atomic load of the end's head.
Call(t, n, b) ==
  /\ pc[t] = "idle"
  /\ t \in Producers => sent[t] + n <= MaxObjs
  /\ oh' = [oh EXCEPT ![t] = head[End(t)]]
  /\ pc' = [pc EXCEPT ![t] = "wait"]
  /\ want' = [want EXCEPT ![t] = n]
  /\ behav' = [behav EXCEPT ![t] = b]
  /\ UNCHANGED <<head, tail, htd, slots, ot, h, cnt, buf, sent, got>>

\* Mutant: the head wait spins on its stale oh without reloading it.
HeadWaitNoReload(t) ==
  /\ pc[t] = "wait"
  /\ IF Dist(tail[End(t)].pos, oh[t].pos) > htd[End(t)]
       THEN UNCHANGED <<oh, pc>>
       ELSE /\ pc' = [pc EXCEPT ![t] = "load_tail"]
            /\ UNCHANGED oh
  /\ UNCHANGED <<head, tail, htd, slots, ot, h, want, behav, cnt, buf, sent,
                 got>>

\* __rte_ring_rts_head_wait: while oh.pos - tail.pos > htd_max (unsigned),
\* pause and reload oh.
HeadWait(t) ==
  /\ pc[t] = "wait"
  /\ IF Dist(tail[End(t)].pos, oh[t].pos) > htd[End(t)]
       THEN /\ oh' = [oh EXCEPT ![t] = head[End(t)]]
            /\ UNCHANGED pc
       ELSE /\ pc' = [pc EXCEPT ![t] = "load_tail"]
            /\ UNCHANGED oh
  /\ UNCHANGED <<head, tail, htd, slots, ot, h, want, behav, cnt, buf, sent,
                 got>>

\* Free entries (enqueue) or entries (dequeue) against the other end's
\* tail.pos (r->cons.tail / r->prod.tail); n cut; n = 0 returns 0.
LoadTail(t) ==
  LET avail == IF t \in Producers THEN FreeEntries(oh[t].pos, tail["cons"].pos)
                                  ELSE Entries(oh[t].pos, tail["prod"].pos)
      n == CutN(want[t], behav[t], avail)
  IN  /\ pc[t] = "load_tail"
      /\ IF n = 0
           THEN Returned(t)
           ELSE /\ cnt' = [cnt EXCEPT ![t] = n]
                /\ pc' = [pc EXCEPT ![t] = "cas"]
                /\ UNCHANGED <<oh, ot, h, want, behav>>
      /\ UNCHANGED <<head, tail, htd, slots, buf, sent, got>>

\* CAS of the head from oh to {oh.cnt + 1, oh.pos + n}; on failure oh is
\* the head's current value and the loop starts over at the head wait.
Claim(t) ==
  /\ pc[t] = "cas"
  /\ IF head[End(t)] = oh[t]
       THEN /\ head' = [head EXCEPT ![End(t)] = NewHead(t)]
            /\ pc' = [pc EXCEPT ![t] = "copy"]
            /\ UNCHANGED oh
       ELSE /\ oh' = [oh EXCEPT ![t] = head[End(t)]]
            /\ pc' = [pc EXCEPT ![t] = "wait"]
            /\ UNCHANGED head
  /\ UNCHANGED <<tail, htd, slots, ot, h, want, behav, cnt, buf, sent, got>>

-----------------------------------------------------------------------------
(* Copy                                                                    *)

ProdCopy(p) ==
  /\ pc[p] = "copy"
  /\ slots' = [s \in DOMAIN slots |->
                 LET k == (s - oh[p].pos) % Size
                 IN  IF k < cnt[p] THEN <<p, sent[p] + k + 1>> ELSE slots[s]]
  /\ pc' = [pc EXCEPT ![p] = "load_ot"]
  /\ UNCHANGED <<head, tail, htd, oh, ot, h, want, behav, cnt, buf, sent, got>>

ConsCopy(c) ==
  /\ pc[c] = "copy"
  /\ buf' = [buf EXCEPT ![c] =
               [i \in 1..cnt[c] |-> slots[SlotOf(oh[c].pos + i - 1)]]]
  /\ pc' = [pc EXCEPT ![c] = "load_ot"]
  /\ UNCHANGED <<head, tail, htd, slots, oh, ot, h, want, behav, cnt, sent,
                 got>>

-----------------------------------------------------------------------------
(* __rte_ring_rts_update_tail                                              *)

\* ot = atomic load of the end's tail.
LoadOldTail(t) ==
  /\ pc[t] = "load_ot"
  /\ ot' = [ot EXCEPT ![t] = tail[End(t)]]
  /\ pc' = [pc EXCEPT ![t] = "load_h"]
  /\ UNCHANGED <<head, tail, htd, slots, oh, h, want, behav, cnt, buf, sent,
                 got>>

\* Loop body: h = atomic load of the end's head.
LoadHead(t) ==
  /\ pc[t] = "load_h"
  /\ h' = [h EXCEPT ![t] = head[End(t)]]
  /\ pc' = [pc EXCEPT ![t] = "tail_cas"]
  /\ UNCHANGED <<head, tail, htd, slots, oh, ot, want, behav, cnt, buf, sent,
                 got>>

\* Mutant: the tail always moves to the head, whoever finishes.
NewTailAlwaysHead(t) == [pos |-> h[t].pos, cnt |-> (ot[t].cnt + 1) % Modulus]

\* Mutant: the tail's cnt is caught up with the head's instead of counted.
NewTailCatchUp(t) ==
  LET c == (ot[t].cnt + 1) % Modulus
  IN  [pos |-> IF c = h[t].cnt THEN h[t].pos ELSE ot[t].pos, cnt |-> h[t].cnt]

\* nt = ot with cnt + 1, and with pos = h.pos when that makes nt.cnt = h.cnt.
NewTail(t) ==
  LET c == (ot[t].cnt + 1) % Modulus
  IN  [pos |-> IF c = h[t].cnt THEN h[t].pos ELSE ot[t].pos, cnt |-> c]

\* The call's result reaches its caller.
Deliver(t) ==
  IF t \in Producers
    THEN /\ sent' = [sent EXCEPT ![t] = @ + cnt[t]]
         /\ UNCHANGED <<buf, got>>
    ELSE /\ got' = [got EXCEPT ![t] = @ \o buf[t]]
         /\ buf' = [buf EXCEPT ![t] = <<>>]
         /\ UNCHANGED sent

\* CAS of the tail from ot to nt; the call returns on success, and on
\* failure ot is the tail's current value and the loop reloads h.
TailCas(t) ==
  /\ pc[t] = "tail_cas"
  /\ IF tail[End(t)] = ot[t]
       THEN /\ tail' = [tail EXCEPT ![End(t)] = NewTail(t)]
            /\ Returned(t)
            /\ Deliver(t)
       ELSE /\ ot' = [ot EXCEPT ![t] = tail[End(t)]]
            /\ pc' = [pc EXCEPT ![t] = "load_h"]
            /\ UNCHANGED <<tail, oh, h, want, behav, cnt, buf, sent, got>>
  /\ UNCHANGED <<head, htd, slots>>

-----------------------------------------------------------------------------
Calls ==
  \E t \in Threads, n \in 1..MaxBurst : \E b \in Behaviours(n) : Call(t, n, b)

Step(t) ==
  \/ HeadWait(t) \/ LoadTail(t) \/ Claim(t)
  \/ IF t \in Producers THEN ProdCopy(t) ELSE ConsCopy(t)
  \/ LoadOldTail(t) \/ LoadHead(t) \/ TailCas(t)

Next ==
  \/ Calls
  \/ \E t \in Threads : Step(t)
  \/ \E e \in Ends, v \in HtdValues : SetHtdMax(e, v)

\* As for Ring: a thread inside a call keeps running.
Spec == Init /\ [][Next]_vars /\ \A t \in Threads : WF_vars(Step(t))

-----------------------------------------------------------------------------
(* Properties                                                              *)

TypeOK ==
  /\ head \in [Ends -> PosCnt] /\ tail \in [Ends -> PosCnt]
  /\ htd \in [Ends -> Index]
  /\ slots \in [0..(Size - 1) -> Object]
  /\ pc \in [Threads -> {"idle", "wait", "load_tail", "cas", "copy",
                         "load_ot", "load_h", "tail_cas"}]
  /\ oh \in [Threads -> PosCnt] /\ ot \in [Threads -> PosCnt]
  /\ h \in [Threads -> PosCnt]
  /\ want \in [Threads -> 0..MaxBurst]
  /\ behav \in [Threads -> {Fixed, Variable}]
  /\ cnt \in [Threads -> 0..MaxBurst]
  /\ buf \in [Consumers -> Seq(Producers \X (1..MaxObjs))]
  /\ sent \in [Producers -> 0..MaxObjs]
  /\ got \in [Consumers -> Seq(Producers \X (1..MaxObjs))]

\* Thread t has moved its end's head and not yet its tail.
InFlight(t) == pc[t] \in {"copy", "load_ot", "load_h", "tail_cas"}
InFlightAt(e) == {t \in Threads : End(t) = e /\ InFlight(t)}

(* The counters that let the last finisher publish for all: at each end   *)
(* head.cnt - tail.cnt is the number of calls between their head CAS and  *)
(* their tail CAS, and when none is, tail.pos has caught up with head.pos. *)
(* A thread that publishes early, or a count that drifts, breaks this.    *)
TailCounts ==
  \A e \in Ends :
    /\ Dist(tail[e].cnt, head[e].cnt) = Cardinality(InFlightAt(e))
    /\ InFlightAt(e) = {} => tail[e].pos = head[e].pos

Region(t) == IF pc[t] = "copy" THEN Span(oh[t].pos, NewHead(t).pos) ELSE {}

(* No slot is copied by two threads at once, and no producer copies into a *)
(* slot between cons.tail and prod.tail.                                   *)
NoSlotRace ==
  \A p \in Producers :
    /\ Region(p) \cap Span(tail["cons"].pos, tail["prod"].pos) = {}
    /\ \A t \in Threads \ {p} : Region(p) \cap Region(t) = {}

(* Refinement of RingQueue with each call taking effect at its head CAS: *)
(* q is everything from cons.head to prod.head, a claimed slot not yet    *)
(* written holding the object its producer is about to copy there, and a  *)
(* producer's sent count includes the call it has in flight.              *)
Pending(x) ==
  LET writers == {p \in Producers : pc[p] = "copy" /\ Dist(oh[p].pos, x) < cnt[p]}
  IN  IF writers = {} THEN slots[SlotOf(x)]
      ELSE LET p == CHOOSE w \in writers : TRUE
           IN  <<p, sent[p] + Dist(oh[p].pos, x) + 1>>

QBar == [i \in 1..Dist(head["cons"].pos, head["prod"].pos) |->
           Pending((head["cons"].pos + i - 1) % Modulus)]

SentBar == [p \in Producers |-> sent[p] + (IF InFlight(p) THEN cnt[p] ELSE 0)]

GotBar ==
  [c \in Consumers |->
     got[c] \o (CASE pc[c] = "copy" ->
                       [i \in 1..cnt[c] |-> slots[SlotOf(oh[c].pos + i - 1)]]
                  [] InFlight(c) -> buf[c]
                  [] OTHER -> <<>>)]

Abs == INSTANCE RingQueue WITH q <- QBar, sent <- SentBar, got <- GotBar

(* The RTS ring keeps the bounded FIFO contract of RingQueue when a call  *)
(* is taken to happen at its head CAS: objects dequeued once each, in     *)
(* claim order, never more than Capacity claimed.                         *)
RingQueueSpec == Abs!Spec

\* Objects a consumer can still dequeue or has dequeued.
Visible ==
  {slots[SlotOf(tail["cons"].pos + i)] :
     i \in 0..(Dist(tail["cons"].pos, tail["prod"].pos) - 1)}
  \cup UNION {Range(got[c]) \cup Range(buf[c]) : c \in Consumers}

(* An enqueue call that has returned has made its objects dequeueable.    *)
(* The default and HTS rings do this: the tail store that ends the call   *)
(* publishes the call's objects.  In __rte_ring_rts_update_tail a call    *)
(* that is not the last one in flight only counts itself in tail.cnt.     *)
ReturnedVisible ==
  \A p \in Producers :
    pc[p] = "idle" => \A k \in 1..sent[p] : <<p, k>> \in Visible

(* Every RTS call returns: the head wait is released once the calls in    *)
(* flight finish, and both CAS loops retry with a fresh value.            *)
CallsReturn == \A t \in Threads : pc[t] # "idle" ~> pc[t] = "idle"

=============================================================================
