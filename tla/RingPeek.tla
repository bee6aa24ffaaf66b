------------------------------- MODULE RingPeek ------------------------------
(***************************************************************************)
(* The peek API of the ring: rte_ring_{enqueue,dequeue}_{bulk,burst}       *)
(* [_elem]_start with rte_ring_{enqueue,dequeue}[_elem]_finish, and their *)
(* zero-copy forms (_zc_).  DPDK allows it on ends whose sync type is ST   *)
(* or MT_HTS.  A start moves the head like an ordinary call (plain store   *)
(* for ST, head wait and CAS of the {head, tail} word for HTS) and, for a  *)
(* dequeue, copies the objects out; the end is then held open.  A finish  *)
(* with m objects (__rte_ring_{st,hts}_get_tail, then                      *)
(* __rte_ring_{st,hts}_set_head_tail):                                     *)
(*                                                                         *)
(*   tail = the end's tail; num = (head - tail >= m) ? m : 0;              *)
(*   enqueue: copy num objects to the slots from tail;                     *)
(*   head = tail = tail + num      -- the rest of the start is given back  *)
(*                                                                         *)
(* The zero-copy forms let the caller write or read the claimed slots in  *)
(* place between start and finish instead of copying; as no other thread  *)
(* touches those slots until the finish, doing it at the finish is the    *)
(* same behaviour, and the model does not tell the two forms apart.       *)
(***************************************************************************)
EXTENDS Integers, Sequences, FiniteSets, RingArith

CONSTANTS
  Producers,   \* threads calling enqueue start/finish
  Consumers,   \* threads calling dequeue start/finish
  ProdSync,    \* r->prod.sync_type: "ST" or "HTS"
  ConsSync,    \* r->cons.sync_type: "ST" or "HTS"
  InitIndex,   \* head/tail values the ring may hold when the checked run starts
  MaxObjs,     \* bound: objects each producer enqueues
  MaxBurst     \* bound: n of one start

Threads == Producers \cup Consumers

\* An ST end has a single thread calling it.
ASSUME /\ Producers \cap Consumers = {}
       /\ ProdSync \in {"ST", "HTS"} /\ ConsSync \in {"ST", "HTS"}
       /\ ProdSync = "ST" => Cardinality(Producers) = 1
       /\ ConsSync = "ST" => Cardinality(Consumers) = 1
       /\ InitIndex \subseteq Index
       /\ MaxObjs \in Nat /\ MaxBurst \in 1..Capacity

Object == (Producers \X (1..MaxObjs)) \cup {<<"garbage", 0>>}

VARIABLES
  prodHead, prodTail,   \* r->prod.head / .tail (ST) or r->hts_prod.ht.pos
  consHead, consTail,   \* r->cons.head / .tail (ST) or r->hts_cons.ht.pos
  slots,                \* the ring's object table
  pc,                   \* where each thread is in its current start or finish
  opHead, opTail,       \* the start's copy of its end's head and tail
  want,                 \* n the caller asked for at start
  behav,                \* FIXED (bulk) or VARIABLE (burst)
  cnt,                  \* n the start returned
  fin,                  \* num the finish settled on
  buf,                  \* objects a consumer's start copied out
  sent,                 \* objects each producer has enqueued
  got                   \* objects each consumer has dequeued, in order

vars == <<prodHead, prodTail, consHead, consTail, slots, pc, opHead, opTail,
          want, behav, cnt, fin, buf, sent, got>>

Sync(t) == IF t \in Producers THEN ProdSync ELSE ConsSync
EndHead(t) == IF t \in Producers THEN prodHead ELSE consHead
EndTail(t) == IF t \in Producers THEN prodTail ELSE consTail
NewHead(t) == (opHead[t] + cnt[t]) % Modulus

\* Sets thread t's end's head (and leaves the other end alone).
SetEndHead(t, v) ==
  IF t \in Producers THEN prodHead' = v /\ UNCHANGED consHead
                     ELSE consHead' = v /\ UNCHANGED prodHead

\* The locals of thread t once its finish has returned (or its start
\* returned 0).
Returned(t) ==
  /\ pc' = [pc EXCEPT ![t] = "idle"]
  /\ opHead' = [opHead EXCEPT ![t] = 0]
  /\ opTail' = [opTail EXCEPT ![t] = 0]
  /\ want' = [want EXCEPT ![t] = 0]
  /\ behav' = [behav EXCEPT ![t] = Fixed]
  /\ cnt' = [cnt EXCEPT ![t] = 0]
  /\ fin' = [fin EXCEPT ![t] = 0]

Init ==
  /\ \E i \in InitIndex :
       /\ prodHead = i /\ prodTail = i /\ consHead = i /\ consTail = i
  /\ slots = [s \in 0..(Size - 1) |-> <<"garbage", 0>>]
  /\ pc = [t \in Threads |-> "idle"]
  /\ opHead = [t \in Threads |-> 0]
  /\ opTail = [t \in Threads |-> 0]
  /\ want = [t \in Threads |-> 0]
  /\ behav = [t \in Threads |-> Fixed]
  /\ cnt = [t \in Threads |-> 0]
  /\ fin = [t \in Threads |-> 0]
  /\ buf = [c \in Consumers |-> <<>>]
  /\ sent = [p \in Producers |-> 0]
  /\ got = [c \in Consumers |-> <<>>]

-----------------------------------------------------------------------------
(* Start: the head move of the end's sync type                            *)

\* Entry: ST loads the head (*old_head = d->head); HTS loads the word.
Start(t, n, b) ==
  /\ pc[t] = "idle"
  /\ t \in Producers => sent[t] + n <= MaxObjs
  /\ opHead' = [opHead EXCEPT ![t] = EndHead(t)]
  /\ opTail' = [opTail EXCEPT ![t] = IF Sync(t) = "HTS" THEN EndTail(t) ELSE 0]
  /\ pc' = [pc EXCEPT ![t] = IF Sync(t) = "HTS" THEN "wait" ELSE "load_tail"]
  /\ want' = [want EXCEPT ![t] = n]
  /\ behav' = [behav EXCEPT ![t] = b]
  /\ UNCHANGED <<prodHead, prodTail, consHead, consTail, slots, cnt, fin, buf,
                 sent, got>>

\* Mutant: the HTS head wait lets the start through without head = tail.
HeadWaitNoWait(t) ==
  /\ pc[t] = "wait"
  /\ pc' = [pc EXCEPT ![t] = "load_tail"]
  /\ UNCHANGED <<opHead, opTail, prodHead, prodTail, consHead, consTail,
                 slots, want, behav, cnt, fin, buf, sent, got>>

\* Mutant: the wait spins on the word it loaded first and never reloads.
HeadWaitNoReload(t) ==
  /\ pc[t] = "wait"
  /\ opHead[t] = opTail[t]
  /\ pc' = [pc EXCEPT ![t] = "load_tail"]
  /\ UNCHANGED <<opHead, opTail, prodHead, prodTail, consHead, consTail,
                 slots, want, behav, cnt, fin, buf, sent, got>>

\* __rte_ring_hts_head_wait: spin, reloading the word, until head = tail.
HeadWait(t) ==
  /\ pc[t] = "wait"
  /\ IF opHead[t] = opTail[t]
       THEN /\ pc' = [pc EXCEPT ![t] = "load_tail"]
            /\ UNCHANGED <<opHead, opTail>>
       ELSE /\ opHead' = [opHead EXCEPT ![t] = EndHead(t)]
            /\ opTail' = [opTail EXCEPT ![t] = EndTail(t)]
            /\ UNCHANGED pc
  /\ UNCHANGED <<prodHead, prodTail, consHead, consTail, slots, want, behav,
                 cnt, fin, buf, sent, got>>

\* Mutant: a start counts against the other end's head instead of its tail.
LoadTailOtherHead(t) ==
  LET avail == IF t \in Producers THEN FreeEntries(opHead[t], consHead)
                                  ELSE Entries(opHead[t], prodHead)
      n == CutN(want[t], behav[t], avail)
  IN  /\ pc[t] = "load_tail"
      /\ IF n = 0
           THEN Returned(t)
           ELSE /\ cnt' = [cnt EXCEPT ![t] = n]
                /\ pc' = [pc EXCEPT ![t] =
                            IF Sync(t) = "HTS" THEN "cas" ELSE "store_head"]
                /\ UNCHANGED <<opHead, opTail, want, behav, fin>>
      /\ UNCHANGED <<prodHead, prodTail, consHead, consTail, slots, buf, sent,
                     got>>

\* Free entries (enqueue) or entries (dequeue) against the other end's
\* tail; n cut; a start of 0 objects returns 0 and leaves the end closed.
LoadTail(t) ==
  LET avail == IF t \in Producers THEN FreeEntries(opHead[t], consTail)
                                  ELSE Entries(opHead[t], prodTail)
      n == CutN(want[t], behav[t], avail)
  IN  /\ pc[t] = "load_tail"
      /\ IF n = 0
           THEN Returned(t)
           ELSE /\ cnt' = [cnt EXCEPT ![t] = n]
                /\ pc' = [pc EXCEPT ![t] =
                            IF Sync(t) = "HTS" THEN "cas" ELSE "store_head"]
                /\ UNCHANGED <<opHead, opTail, want, behav, fin>>
      /\ UNCHANGED <<prodHead, prodTail, consHead, consTail, slots, buf, sent,
                     got>>

\* Where a start goes once its head has moved: a dequeue copies out.
Claimed(t) == IF t \in Producers THEN "peek" ELSE "copy"

\* HTS: CAS of the {head, tail} word; on failure reload and wait again.
Claim(t) ==
  /\ pc[t] = "cas"
  /\ IF EndHead(t) = opHead[t] /\ EndTail(t) = opTail[t]
       THEN /\ SetEndHead(t, NewHead(t))
            /\ pc' = [pc EXCEPT ![t] = Claimed(t)]
            /\ UNCHANGED <<opHead, opTail>>
       ELSE /\ opHead' = [opHead EXCEPT ![t] = EndHead(t)]
            /\ opTail' = [opTail EXCEPT ![t] = EndTail(t)]
            /\ pc' = [pc EXCEPT ![t] = "wait"]
            /\ UNCHANGED <<prodHead, consHead>>
  /\ UNCHANGED <<prodTail, consTail, slots, want, behav, cnt, fin, buf, sent,
                 got>>

\* ST: d->head = new_head.
StoreHead(t) ==
  /\ pc[t] = "store_head"
  /\ SetEndHead(t, NewHead(t))
  /\ pc' = [pc EXCEPT ![t] = Claimed(t)]
  /\ UNCHANGED <<prodTail, consTail, slots, opHead, opTail, want, behav, cnt,
                 fin, buf, sent, got>>

\* __rte_ring_do_dequeue_start: __rte_ring_dequeue_elems from the old head.
ConsCopy(c) ==
  /\ pc[c] = "copy"
  /\ buf' = [buf EXCEPT ![c] =
               [i \in 1..cnt[c] |-> slots[SlotOf(opHead[c] + i - 1)]]]
  /\ pc' = [pc EXCEPT ![c] = "peek"]
  /\ UNCHANGED <<prodHead, prodTail, consHead, consTail, slots, opHead,
                 opTail, want, behav, cnt, fin, sent, got>>

-----------------------------------------------------------------------------
(* Finish                                                                  *)

\* __rte_ring_{st,hts}_get_tail: tail = the end's tail, num = m if the end
\* holds m objects past it, else 0; an enqueue finish then copies num
\* objects to the slots from tail.
Finish(t, m) ==
  LET tl == EndTail(t)
      num == IF Dist(tl, EndHead(t)) >= m THEN m ELSE 0
  IN  /\ pc[t] = "peek"
      /\ opTail' = [opTail EXCEPT ![t] = tl]
      /\ fin' = [fin EXCEPT ![t] = num]
      /\ IF t \in Producers
           THEN slots' = [s \in DOMAIN slots |->
                            LET k == (s - tl) % Size
                            IN  IF k < num THEN <<t, sent[t] + k + 1>>
                                           ELSE slots[s]]
           ELSE UNCHANGED slots
      /\ pc' = [pc EXCEPT ![t] = "publish"]
      /\ UNCHANGED <<prodHead, prodTail, consHead, consTail, opHead, want,
                     behav, cnt, buf, sent, got>>

\* Mutant: the finish moves the end by what the start claimed, not by num.
PublishClaimed(t) ==
  LET pos == (opTail[t] + cnt[t]) % Modulus
  IN  /\ pc[t] = "publish"
      /\ SetEndHead(t, pos)
      /\ IF t \in Producers
           THEN /\ prodTail' = pos
                /\ sent' = [sent EXCEPT ![t] = @ + cnt[t]]
                /\ UNCHANGED <<consTail, buf, got>>
           ELSE /\ consTail' = pos
                /\ got' = [got EXCEPT ![t] = @ \o buf[t]]
                /\ buf' = [buf EXCEPT ![t] = <<>>]
                /\ UNCHANGED <<prodTail, sent>>
      /\ Returned(t)
      /\ UNCHANGED slots

\* __rte_ring_{st,hts}_set_head_tail: head = tail = tail + num, one store
\* of the word for HTS; the finish returns.
Publish(t) ==
  LET pos == (opTail[t] + fin[t]) % Modulus
  IN  /\ pc[t] = "publish"
      /\ SetEndHead(t, pos)
      /\ IF t \in Producers
           THEN /\ prodTail' = pos
                /\ sent' = [sent EXCEPT ![t] = @ + fin[t]]
                /\ UNCHANGED <<consTail, buf, got>>
           ELSE /\ consTail' = pos
                /\ got' = [got EXCEPT ![t] = @ \o SubSeq(buf[t], 1, fin[t])]
                /\ buf' = [buf EXCEPT ![t] = <<>>]
                /\ UNCHANGED <<prodTail, sent>>
      /\ Returned(t)
      /\ UNCHANGED slots

-----------------------------------------------------------------------------
Starts ==
  \E t \in Threads, n \in 1..MaxBurst : \E b \in Behaviours(n) : Start(t, n, b)

\* A thread's steps inside a start, and its finish of what the start returned.
Step(t) ==
  \/ HeadWait(t) \/ LoadTail(t) \/ Claim(t) \/ StoreHead(t) \/ Publish(t)
  \/ t \in Consumers /\ ConsCopy(t)
  \/ \E m \in 0..cnt[t] : Finish(t, m)

Next == Starts \/ \E t \in Threads : Step(t)

(* A thread inside a start keeps running, and every start is followed by  *)
(* a finish (the peek API's contract with its caller).                     *)
Spec == Init /\ [][Next]_vars /\ \A t \in Threads : WF_vars(Step(t))

-----------------------------------------------------------------------------
(* Properties                                                              *)

TypeOK ==
  /\ {prodHead, prodTail, consHead, consTail} \subseteq Index
  /\ slots \in [0..(Size - 1) -> Object]
  /\ pc \in [Threads -> {"idle", "wait", "load_tail", "cas", "store_head",
                         "copy", "peek", "publish"}]
  /\ opHead \in [Threads -> Index] /\ opTail \in [Threads -> Index]
  /\ want \in [Threads -> 0..MaxBurst]
  /\ behav \in [Threads -> {Fixed, Variable}]
  /\ cnt \in [Threads -> 0..MaxBurst] /\ fin \in [Threads -> 0..MaxBurst]
  /\ buf \in [Consumers -> Seq(Producers \X (1..MaxObjs))]
  /\ sent \in [Producers -> 0..MaxObjs]
  /\ got \in [Consumers -> Seq(Producers \X (1..MaxObjs))]

\* Thread t's start has moved the head and its finish has not yet stored.
Open(t) == pc[t] \in {"copy", "peek", "publish"}
SameEnd(t, u) == (t \in Producers) = (u \in Producers)

(* What get_tail and set_head_tail rely on: while a start is open, it is  *)
(* the only open one at its end, and the end's head and tail are exactly  *)
(* its new head and its old head, so the tail the finish reads is where   *)
(* the start's objects begin.                                              *)
PeekExclusive ==
  \A t \in Threads :
    Open(t) =>
      /\ EndHead(t) = NewHead(t)
      /\ EndTail(t) = opHead[t]
      /\ \A u \in Threads \ {t} : SameEnd(t, u) => ~Open(u)

(* No producer holds open a slot that consumers can read (between          *)
(* cons.tail and prod.tail), or one another thread holds open.            *)
NoSlotRace ==
  \A p \in Producers :
    Open(p) =>
      /\ Span(opHead[p], NewHead(p)) \cap Span(consTail, prodTail) = {}
      /\ \A t \in Threads \ {p} :
           Open(t) => Span(opHead[p], NewHead(p)) \cap
                      Span(opHead[t], NewHead(t)) = {}

QBar == [i \in 1..Dist(consTail, prodTail) |-> slots[SlotOf(consTail + i - 1)]]

Abs == INSTANCE RingQueue WITH q <- QBar

(* Start/finish pairs implement the bounded FIFO contract, each taking     *)
(* effect at its finish: a finish of m <= n objects enqueues (dequeues)    *)
(* exactly the first m, and the other n - m stay where they were.         *)
RingQueueSpec == Abs!Spec

CallsReturn == \A t \in Threads : pc[t] # "idle" ~> pc[t] = "idle"

\* A finish that gives back everything its start claimed.
Cancel == \E t \in Threads : Finish(t, 0)

(* Every start and every finish returns, in every behaviour where the     *)
(* threads eventually stop cancelling their starts.  The head wait of an  *)
(* HTS end is released by the finish of the start it waits for, but it    *)
(* is not fair: a thread that keeps starting and cancelling can hold its  *)
(* end open at every reload of another thread's head wait.                *)
CallsReturnUnlessCancelling == <>[][~Cancel]_vars => CallsReturn

=============================================================================
