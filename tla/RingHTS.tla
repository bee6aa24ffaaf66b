------------------------------- MODULE RingHTS -------------------------------
(***************************************************************************)
(* The head/tail-sync (HTS) ring behind rte_ring_mp_hts_* and              *)
(* rte_ring_mc_hts_* of dpdk_wrapper.h (and the generic wrappers on a      *)
(* ring created with RING_F_MP_HTS_ENQ | RING_F_MC_HTS_DEQ).  Each end     *)
(* keeps head and tail in one 64-bit word.  The head move                 *)
(* (__rte_ring_hts_move_{prod,cons}_head):                                *)
(*                                                                         *)
(*   op = atomic load of the {head, tail} word                             *)
(*   do { wait until op.head = op.tail, reloading op;                      *)
(*        compute free entries (entries) from the other end's tail;        *)
(*        cut n; if n = 0 break;                                           *)
(*        np = {op.head + n, op.tail}                                      *)
(*   } while (!CAS(word, &op, np))     -- a failed CAS reloads op          *)
(*                                                                         *)
(* then the objects are copied and __rte_ring_hts_update_tail stores      *)
(* tail = old head + n without waiting: the head wait already ensures     *)
(* only one call per end is between its head move and its tail update.    *)
(***************************************************************************)
EXTENDS Integers, Sequences, FiniteSets, Functions, RingArith

CONSTANTS
  Producers,   \* threads calling enqueue wrappers
  Consumers,   \* threads calling dequeue wrappers
  InitIndex,   \* head/tail values the ring may hold when the checked run starts
  MaxObjs,     \* bound: objects each producer enqueues
  MaxBurst     \* bound: n of one call

Threads == Producers \cup Consumers

ASSUME /\ Producers \cap Consumers = {}
       /\ InitIndex \subseteq Index
       /\ MaxObjs \in Nat /\ MaxBurst \in 1..Capacity

Object == (Producers \X (1..MaxObjs)) \cup {<<"garbage", 0>>}

VARIABLES
  prodHead, prodTail,   \* r->hts_prod.ht.pos.head / .tail
  consHead, consTail,   \* r->hts_cons.ht.pos.head / .tail
  slots,                \* the ring's object table
  pc,                   \* where each thread is in its current call
  opHead, opTail,       \* the thread's copy op of its end's {head, tail} word
  want,                 \* n the caller asked for
  behav,                \* FIXED (bulk) or VARIABLE (burst)
  cnt,                  \* n the head move settled on
  buf,                  \* objects a consumer copied out of the ring
  sent,                 \* objects each producer's calls have enqueued
  got                   \* objects each consumer's calls have dequeued, in order

vars == <<prodHead, prodTail, consHead, consTail, slots, pc, opHead, opTail,
          want, behav, cnt, buf, sent, got>>

\* The {head, tail} word of thread t's end of the ring.
EndHead(t) == IF t \in Producers THEN prodHead ELSE consHead
EndTail(t) == IF t \in Producers THEN prodTail ELSE consTail
NewHead(t) == (opHead[t] + cnt[t]) % Modulus

\* The locals of thread t once its call has returned.
Returned(t) ==
  /\ pc' = [pc EXCEPT ![t] = "idle"]
  /\ opHead' = [opHead EXCEPT ![t] = 0]
  /\ opTail' = [opTail EXCEPT ![t] = 0]
  /\ want' = [want EXCEPT ![t] = 0]
  /\ behav' = [behav EXCEPT ![t] = Fixed]
  /\ cnt' = [cnt EXCEPT ![t] = 0]

\* op.raw = load of thread t's end word, then back to the head wait.
Reload(t) ==
  /\ opHead' = [opHead EXCEPT ![t] = EndHead(t)]
  /\ opTail' = [opTail EXCEPT ![t] = EndTail(t)]
  /\ pc' = [pc EXCEPT ![t] = "wait"]

Init ==
  /\ \E i \in InitIndex :
       /\ prodHead = i /\ prodTail = i /\ consHead = i /\ consTail = i
  /\ slots = [s \in 0..(Size - 1) |-> <<"garbage", 0>>]
  /\ pc = [t \in Threads |-> "idle"]
  /\ opHead = [t \in Threads |-> 0]
  /\ opTail = [t \in Threads |-> 0]
  /\ want = [t \in Threads |-> 0]
  /\ behav = [t \in Threads |-> Fixed]
  /\ cnt = [t \in Threads |-> 0]
  /\ buf = [c \in Consumers |-> <<>>]
  /\ sent = [p \in Producers |-> 0]
  /\ got = [c \in Consumers |-> <<>>]

-----------------------------------------------------------------------------
(* Steps common to both ends                                               *)

\* Call entry: op.raw = atomic load of the end's {head, tail} word.
Call(t, n, b) ==
  /\ pc[t] = "idle"
  /\ t \in Producers => sent[t] + n <= MaxObjs
  /\ Reload(t)
  /\ want' = [want EXCEPT ![t] = n]
  /\ behav' = [behav EXCEPT ![t] = b]
  /\ UNCHANGED <<prodHead, prodTail, consHead, consTail, slots, cnt, buf,
                 sent, got>>

\* Mutant: the head wait lets the call through without head = tail.
HeadWaitNoWait(t) ==
  /\ pc[t] = "wait"
  /\ pc' = [pc EXCEPT ![t] = "load_tail"]
  /\ UNCHANGED <<opHead, opTail, prodHead, prodTail, consHead, consTail, slots,
                 want, behav, cnt, buf, sent, got>>

\* Mutant: the head wait spins on its stale copy without reloading it.
HeadWaitNoReload(t) ==
  /\ pc[t] = "wait"
  /\ IF opHead[t] = opTail[t]
       THEN pc' = [pc EXCEPT ![t] = "load_tail"]
       ELSE UNCHANGED pc
  /\ UNCHANGED <<opHead, opTail, prodHead, prodTail, consHead, consTail, slots,
                 want, behav, cnt, buf, sent, got>>

\* __rte_ring_hts_head_wait: spin, reloading op, until op.head = op.tail.
HeadWait(t) ==
  /\ pc[t] = "wait"
  /\ IF opHead[t] = opTail[t]
       THEN /\ pc' = [pc EXCEPT ![t] = "load_tail"]
            /\ UNCHANGED <<opHead, opTail>>
       ELSE Reload(t)
  /\ UNCHANGED <<prodHead, prodTail, consHead, consTail, slots, want, behav,
                 cnt, buf, sent, got>>

\* Free entries (enqueue) or entries (dequeue) against the other end's
\* tail; n cut to it; n = 0 breaks out of the loop and returns 0.
LoadTail(t) ==
  LET avail == IF t \in Producers THEN FreeEntries(opHead[t], consTail)
                                  ELSE Entries(opHead[t], prodTail)
      n == CutN(want[t], behav[t], avail)
  IN  /\ pc[t] = "load_tail"
      /\ IF n = 0
           THEN Returned(t)
           ELSE /\ cnt' = [cnt EXCEPT ![t] = n]
                /\ pc' = [pc EXCEPT ![t] = "cas"]
                /\ UNCHANGED <<opHead, opTail, want, behav>>
      /\ UNCHANGED <<prodHead, prodTail, consHead, consTail, slots, buf, sent,
                     got>>

\* Mutant: a failed CAS retries from the reloaded word without the head wait.
ClaimRetryNoWait(t) ==
  /\ pc[t] = "cas"
  /\ IF EndHead(t) = opHead[t] /\ EndTail(t) = opTail[t]
       THEN /\ IF t \in Producers
                 THEN /\ prodHead' = NewHead(t) /\ UNCHANGED consHead
                 ELSE /\ consHead' = NewHead(t) /\ UNCHANGED prodHead
            /\ pc' = [pc EXCEPT ![t] = "copy"]
            /\ UNCHANGED <<opHead, opTail>>
       ELSE /\ opHead' = [opHead EXCEPT ![t] = EndHead(t)]
            /\ opTail' = [opTail EXCEPT ![t] = EndTail(t)]
            /\ pc' = [pc EXCEPT ![t] = "load_tail"]
            /\ UNCHANGED <<prodHead, consHead>>
  /\ UNCHANGED <<prodTail, consTail, slots, want, behav, cnt, buf, sent, got>>

\* CAS of the whole {head, tail} word from op to {op.head + n, op.tail};
\* on failure op is the word's current value and the loop starts over.
Claim(t) ==
  /\ pc[t] = "cas"
  /\ IF EndHead(t) = opHead[t] /\ EndTail(t) = opTail[t]
       THEN /\ IF t \in Producers
                 THEN /\ prodHead' = NewHead(t) /\ UNCHANGED consHead
                 ELSE /\ consHead' = NewHead(t) /\ UNCHANGED prodHead
            /\ pc' = [pc EXCEPT ![t] = "copy"]
            /\ UNCHANGED <<opHead, opTail>>
       ELSE /\ Reload(t)
            /\ UNCHANGED <<prodHead, consHead>>
  /\ UNCHANGED <<prodTail, consTail, slots, want, behav, cnt, buf, sent, got>>

-----------------------------------------------------------------------------
(* Copy and tail update                                                    *)

ProdCopy(p) ==
  /\ pc[p] = "copy"
  /\ slots' = [s \in DOMAIN slots |->
                 LET k == (s - opHead[p]) % Size
                 IN  IF k < cnt[p] THEN <<p, sent[p] + k + 1>> ELSE slots[s]]
  /\ pc' = [pc EXCEPT ![p] = "tail"]
  /\ UNCHANGED <<prodHead, prodTail, consHead, consTail, opHead, opTail, want,
                 behav, cnt, buf, sent, got>>

ConsCopy(c) ==
  /\ pc[c] = "copy"
  /\ buf' = [buf EXCEPT ![c] =
               [i \in 1..cnt[c] |-> slots[SlotOf(opHead[c] + i - 1)]]]
  /\ pc' = [pc EXCEPT ![c] = "tail"]
  /\ UNCHANGED <<prodHead, prodTail, consHead, consTail, slots, opHead,
                 opTail, want, behav, cnt, sent, got>>

\* __rte_ring_hts_update_tail: tail = old_tail + num, no wait; the call
\* returns cnt.
ProdUpdateTail(p) ==
  /\ pc[p] = "tail"
  /\ prodTail' = NewHead(p)
  /\ sent' = [sent EXCEPT ![p] = @ + cnt[p]]
  /\ Returned(p)
  /\ UNCHANGED <<prodHead, consHead, consTail, slots, buf, got>>

ConsUpdateTail(c) ==
  /\ pc[c] = "tail"
  /\ consTail' = NewHead(c)
  /\ got' = [got EXCEPT ![c] = @ \o buf[c]]
  /\ buf' = [buf EXCEPT ![c] = <<>>]
  /\ Returned(c)
  /\ UNCHANGED <<prodHead, prodTail, consHead, slots, sent>>

-----------------------------------------------------------------------------
Calls ==
  \E t \in Threads, n \in 1..MaxBurst : \E b \in Behaviours(n) : Call(t, n, b)

Step(t) ==
  \/ HeadWait(t) \/ LoadTail(t) \/ Claim(t)
  \/ IF t \in Producers THEN ProdCopy(t) \/ ProdUpdateTail(t)
                        ELSE ConsCopy(t) \/ ConsUpdateTail(t)

Next == Calls \/ \E t \in Threads : Step(t)

\* As for Ring: a thread inside a call keeps running.
Spec == Init /\ [][Next]_vars /\ \A t \in Threads : WF_vars(Step(t))

-----------------------------------------------------------------------------
(* Properties                                                              *)

TypeOK ==
  /\ {prodHead, prodTail, consHead, consTail} \subseteq Index
  /\ slots \in [0..(Size - 1) -> Object]
  /\ pc \in [Threads -> {"idle", "wait", "load_tail", "cas", "copy", "tail"}]
  /\ opHead \in [Threads -> Index]
  /\ opTail \in [Threads -> Index]
  /\ want \in [Threads -> 0..MaxBurst]
  /\ behav \in [Threads -> {Fixed, Variable}]
  /\ cnt \in [Threads -> 0..MaxBurst]
  /\ buf \in [Consumers -> Seq(Producers \X (1..MaxObjs))]
  /\ sent \in [Producers -> 0..MaxObjs]
  /\ got \in [Consumers -> Seq(Producers \X (1..MaxObjs))]

InFlight(t) == pc[t] \in {"copy", "tail"}
SameEnd(t, u) == (t \in Producers) = (u \in Producers)

(* Head/tail sync: at each end at most one call is between its head move  *)
(* and its tail update, and while it is, the end's word is exactly         *)
(* {its old head + n, its old head}.  This is what lets                    *)
(* __rte_ring_hts_update_tail store the tail without waiting and what the *)
(* peek API (rte_ring_*_start / *_finish) on HTS rings relies on.          *)
SerialEnds ==
  \A t \in Threads :
    InFlight(t) =>
      /\ EndHead(t) = NewHead(t)
      /\ EndTail(t) = opHead[t]
      /\ \A u \in Threads \ {t} : SameEnd(t, u) => ~InFlight(u)

Region(t) == IF pc[t] = "copy" THEN Span(opHead[t], NewHead(t)) ELSE {}

(* No slot is copied by two threads at once, and no producer copies into a *)
(* slot between cons.tail and prod.tail.                                   *)
NoSlotRace ==
  \A p \in Producers :
    /\ Region(p) \cap Span(consTail, prodTail) = {}
    /\ \A t \in Threads \ {p} : Region(p) \cap Region(t) = {}

QBar == [i \in 1..Dist(consHead, prodTail) |-> slots[SlotOf(consHead + i - 1)]]

GotBar ==
  [c \in Consumers |->
     got[c] \o (CASE pc[c] = "copy" ->
                       [i \in 1..cnt[c] |-> slots[SlotOf(opHead[c] + i - 1)]]
                  [] pc[c] = "tail" -> buf[c]
                  [] OTHER -> <<>>)]

Abs == INSTANCE RingQueue WITH q <- QBar, got <- GotBar

(* The HTS ring implements the same bounded FIFO contract as the default  *)
(* ring (RingQueue): objects dequeued once each, in enqueue order, never  *)
(* more than Capacity held.                                                *)
RingQueueSpec == Abs!Spec

\* Objects a consumer can still dequeue or has dequeued.
Visible ==
  {slots[SlotOf(consTail + i)] : i \in 0..(Dist(consTail, prodTail) - 1)}
  \cup UNION {Range(got[c]) \cup Range(buf[c]) : c \in Consumers}

(* An enqueue call that has returned has made its objects dequeueable:   *)
(* __rte_ring_hts_update_tail stores the tail past the call's objects,    *)
(* and the head wait kept every other producer out until then.            *)
ReturnedVisible ==
  \A p \in Producers :
    pc[p] = "idle" => \A k \in 1..sent[p] : <<p, k>> \in Visible

(* Every HTS enqueue and dequeue call returns: the head wait is released  *)
(* by the call in flight, and a failed CAS starts the loop over.           *)
CallsReturn == \A t \in Threads : pc[t] # "idle" ~> pc[t] = "idle"

=============================================================================
