------------------------------- MODULE PFLock -------------------------------
(***************************************************************************)
(* rte_pflock_t, the phase-fair reader-writer lock: two uint16 pairs       *)
(* rd.{in,out} and wr.{in,out}.  Readers count in the high bits of rd.in   *)
(* and rd.out (RINC); a writer announces itself in the low bits of rd.in   *)
(* (PRES, and PHID, the parity of its write ticket).                       *)
(*   read_lock:    w = fetch_add(rd.in, RINC) & WBITS; if w, wait until    *)
(*                 (rd.in & WBITS) != w;                                   *)
(*   read_unlock:  fetch_add(rd.out, RINC);                                *)
(*   write_lock:   ticket = fetch_add(wr.in, 1); wait until wr.out =       *)
(*                 ticket; w = PRES | (ticket & PHID); ticket =            *)
(*                 fetch_add(rd.in, w); wait until rd.out = ticket;        *)
(*   write_unlock: fetch_and(rd.in, LSB); fetch_add(wr.out, 1).            *)
(* The reader bits are RINC = 4 here (0x100 in the code): the bits between *)
(* are never set.  rd is RdBits + 2 bits wide, wr WrBits wide.             *)
(***************************************************************************)
EXTENDS Naturals, FiniteSets, Bitwise

CONSTANTS
  Threads,
  Nil,       \* no writer (the contract's)
  RdBits,    \* reader count bits of rd.in / rd.out (8 in the code)
  WrBits     \* width of wr.in / wr.out (16 in the code)

PHID == 1
PRES == 2
WBITS == 3
RINC == 4
RdMod == RINC * 2 ^ RdBits
WrMod == 2 ^ WrBits
LSB == RdMod - RINC   \* clears the writer bits

VARIABLES
  rdin, rdout, wrin, wrout,
  tk,        \* per thread: the ticket of write_lock (wr, then rd); 0 when dead
  w,         \* per thread: the writer bits read by read_lock, or added by
             \* write_lock (kept until the unlock: RdCounts reads it); 0 when dead
  pc

vars == <<rdin, rdout, wrin, wrout, tk, w, pc>>

Init ==
  /\ rdin = 0 /\ rdout = 0 /\ wrin = 0 /\ wrout = 0
  /\ tk = [t \in Threads |-> 0]
  /\ w = [t \in Threads |-> 0]
  /\ pc = [t \in Threads |-> "idle"]

Busy(t) == pc[t] # "idle"

Goto(t, l) == pc' = [pc EXCEPT ![t] = l]

\* read_lock: w = fetch_add(&rd.in, RINC) & WBITS; no writer -> done.
ReadLock(t) ==
  /\ pc[t] = "idle"
  /\ rdin' = (rdin + RINC) % RdMod
  /\ w' = [w EXCEPT ![t] = rdin & WBITS]
  /\ Goto(t, IF (rdin & WBITS) = 0 THEN "rcs" ELSE "r_wait")
  /\ UNCHANGED <<rdout, wrin, wrout, tk>>

\* RTE_WAIT_UNTIL_MASKED(&rd.in, WBITS, !=, w): the write phase is over.
RWait(t) ==
  /\ pc[t] = "r_wait"
  /\ (rdin & WBITS) # w[t]
  /\ Goto(t, "rcs")
  /\ w' = [w EXCEPT ![t] = 0]
  /\ UNCHANGED <<rdin, rdout, wrin, wrout, tk>>

\* Mutant: rd.out counted without the 16-bit wrap.
ReadUnlockNoWrap(t) ==
  /\ pc[t] = "rcs"
  /\ rdout' = rdout + RINC
  /\ Goto(t, "idle")
  /\ UNCHANGED <<rdin, wrin, wrout, tk, w>>

\* read_unlock: fetch_add(&rd.out, RINC).
ReadUnlock(t) ==
  /\ pc[t] = "rcs"
  /\ rdout' = (rdout + RINC) % RdMod
  /\ Goto(t, "idle")
  /\ UNCHANGED <<rdin, wrin, wrout, tk, w>>

\* write_lock: ticket = fetch_add(&wr.in, 1).
WriteLock(t) ==
  /\ pc[t] = "idle"
  /\ tk' = [tk EXCEPT ![t] = wrin]
  /\ wrin' = (wrin + 1) % WrMod
  /\ Goto(t, "w_wait")
  /\ UNCHANGED <<rdin, rdout, wrout, w>>

\* rte_wait_until_equal_16(&wr.out, ticket).
WWait(t) ==
  /\ pc[t] = "w_wait"
  /\ wrout = tk[t]
  /\ Goto(t, "w_add")
  /\ UNCHANGED <<rdin, rdout, wrin, wrout, tk, w>>

\* Mutant: the writer announces itself without its phase bit.
WAddNoPhase(t) ==
  /\ pc[t] = "w_add"
  /\ w' = [w EXCEPT ![t] = PRES]
  /\ tk' = [tk EXCEPT ![t] = rdin]
  /\ rdin' = (rdin + PRES) % RdMod
  /\ Goto(t, "w_drain")
  /\ UNCHANGED <<rdout, wrin, wrout>>

\* w = PRES | (ticket & PHID); ticket = fetch_add(&rd.in, w).
WAdd(t) ==
  /\ pc[t] = "w_add"
  /\ w' = [w EXCEPT ![t] = PRES | (tk[t] & PHID)]
  /\ tk' = [tk EXCEPT ![t] = rdin]
  /\ rdin' = (rdin + (PRES | (tk[t] & PHID))) % RdMod
  /\ Goto(t, "w_drain")
  /\ UNCHANGED <<rdout, wrin, wrout>>

\* rte_wait_until_equal_16(&rd.out, ticket): the readers ahead have left.
WDrain(t) ==
  /\ pc[t] = "w_drain"
  /\ rdout = tk[t]
  /\ Goto(t, "wcs")
  /\ tk' = [tk EXCEPT ![t] = 0]
  /\ UNCHANGED <<rdin, rdout, wrin, wrout, w>>

\* write_unlock: fetch_and(&rd.in, LSB) lets the readers in ...
WriteUnlock(t) ==
  /\ pc[t] = "wcs"
  /\ rdin' = rdin & LSB
  /\ Goto(t, "w_out")
  /\ UNCHANGED <<rdout, wrin, wrout, tk, w>>

\* ... fetch_add(&wr.out, 1) lets the next writer in.
WOut(t) ==
  /\ pc[t] = "w_out"
  /\ wrout' = (wrout + 1) % WrMod
  /\ Goto(t, "idle")
  /\ w' = [w EXCEPT ![t] = 0]
  /\ UNCHANGED <<rdin, rdout, wrin, tk>>

Call(t) == ReadLock(t) \/ WriteLock(t)

\* Steps inside a call, and the unlocks: critical sections end.
Step(t) ==
  \/ RWait(t) \/ ReadUnlock(t) \/ WWait(t) \/ WAdd(t) \/ WDrain(t)
  \/ WriteUnlock(t) \/ WOut(t)

Next == \E t \in Threads : Call(t) \/ Step(t)

Spec == Init /\ [][Next]_vars /\ \A t \in Threads : WF_vars(Step(t))

-----------------------------------------------------------------------------
TypeOK ==
  /\ rdin \in 0..(RdMod - 1) /\ rdout \in 0..(RdMod - 1)
  /\ wrin \in 0..(WrMod - 1) /\ wrout \in 0..(WrMod - 1)
  /\ tk \in [Threads -> 0..(RdMod - 1)]
  /\ w \in [Threads -> 0..WBITS]
  /\ pc \in [Threads -> {"idle", "r_wait", "rcs", "w_wait", "w_add", "w_drain",
                         "wcs", "w_out"}]

Readers == {t \in Threads : pc[t] = "rcs"}
Writers == {t \in Threads : pc[t] = "wcs"}

Writer == IF Writers = {} THEN Nil
          ELSE IF Cardinality(Writers) = 1 THEN CHOOSE t \in Writers : TRUE
          ELSE Writers

Abs == INSTANCE RWContract WITH readers <- Readers, writer <- Writer

RWSpec == Abs!Spec

\* Threads counted in rd.in and not yet in rd.out.
ReadersIn == {t \in Threads : pc[t] \in {"r_wait", "rcs"}}
\* The writer whose bits are in rd.in.
Announced == {t \in Threads : pc[t] \in {"w_drain", "wcs"}}

(* The rd words tell the truth: rd.in - rd.out counts the readers that     *)
(* have entered and not left, and the writer bits of rd.in are exactly the *)
(* bits of the one writer between its announcement and its unlock.         *)
RdCounts ==
  /\ (rdin - (rdin & WBITS) - rdout) % RdMod = RINC * Cardinality(ReadersIn)
  /\ (rdin & WBITS) = IF Announced = {} THEN 0
                      ELSE w[CHOOSE t \in Announced : TRUE]
  /\ Cardinality(Announced) <= 1

ReadWaiting(t) == pc[t] = "r_wait"
WriteWaiting(t) == pc[t] \in {"w_wait", "w_add", "w_drain"}

=============================================================================
