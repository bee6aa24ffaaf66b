------------------------------- MODULE RWLock -------------------------------
(***************************************************************************)
(* rte_rwlock_t: one int32 word cnt, READ (4) per reader inside or trying, *)
(* WRITE (2) while a writer holds the lock, WAIT (1) while a writer waits. *)
(*   read_lock:      spin while cnt & (WAIT|WRITE); x = fetch_add(READ);   *)
(*                   if x & (WAIT|WRITE), fetch_sub(READ) and start over;  *)
(*   read_trylock:   load; busy if a writer; fetch_add, back out if one    *)
(*                   raced in;                                             *)
(*   write_lock:     loop { x = load; if x < WRITE, CAS x -> WRITE; if     *)
(*                   !(x & WAIT) fetch_or(WAIT); spin while cnt > WAIT };  *)
(*   write_trylock:  x = load; if x < WRITE, CAS x -> x + WRITE;           *)
(*   unlocks:        fetch_sub(READ) / fetch_sub(WRITE).                   *)
(* The _tm variants take this path without hardware transactional memory.  *)
(* The CAS is compare_exchange_weak; it is taken as strong (x86 cmpxchg,  *)
(* Arm LSE cas), and a failed one leaves the current word in x.            *)
(***************************************************************************)
EXTENDS Naturals, FiniteSets, Bitwise

CONSTANTS
  Threads,
  Nil       \* no writer (the contract's)

WAIT == 1
WRITE == 2
MASK == 3
READ == 4

VARIABLES
  cnt,       \* rwl->cnt
  x,         \* per thread: the value write_lock/write_trylock loaded
  pc

vars == <<cnt, x, pc>>

Init ==
  /\ cnt = 0
  /\ x = [t \in Threads |-> 0]
  /\ pc = [t \in Threads |-> "idle"]

Busy(t) == pc[t] # "idle"

Goto(t, l) == pc' = [pc EXCEPT ![t] = l]

\* x is a local of the call: dead once the value it holds has been used.
Forget(t) == x' = [x EXCEPT ![t] = 0]

\* Calls a thread between calls may make.
ReadLock(t) == pc[t] = "idle" /\ Goto(t, "r_spin") /\ UNCHANGED <<cnt, x>>
ReadTrylock(t) == pc[t] = "idle" /\ Goto(t, "rt_load") /\ UNCHANGED <<cnt, x>>
WriteLock(t) == pc[t] = "idle" /\ Goto(t, "w_load") /\ UNCHANGED <<cnt, x>>
WriteTrylock(t) == pc[t] = "idle" /\ Goto(t, "wt_load") /\ UNCHANGED <<cnt, x>>

\* read_lock: while (cnt & MASK) pause.
RSpin(t) ==
  /\ pc[t] = "r_spin"
  /\ (cnt & MASK) = 0
  /\ Goto(t, "r_add")
  /\ UNCHANGED <<cnt, x>>

\* x = fetch_add(cnt, READ) + READ; if !(x & MASK) the lock is held.
RAdd(t) ==
  /\ pc[t] = "r_add"
  /\ cnt' = cnt + READ
  /\ UNCHANGED x
  /\ Goto(t, IF ((cnt + READ) & MASK) = 0 THEN "rcs" ELSE "r_back")

\* Lost the race with a writer: fetch_sub(cnt, READ), start over.
RBack(t) ==
  /\ pc[t] = "r_back"
  /\ cnt' = cnt - READ
  /\ Goto(t, "r_spin")
  /\ UNCHANGED x

\* read_trylock: x = load; if (x & MASK) return -EBUSY.
RTryLoad(t) ==
  /\ pc[t] = "rt_load"
  /\ Goto(t, IF (cnt & MASK) = 0 THEN "rt_add" ELSE "idle")
  /\ UNCHANGED <<cnt, x>>

\* Mutant: the trylock returns -EBUSY on a raced writer without backing out.
RTryAddNoBackout(t) ==
  /\ pc[t] = "rt_add"
  /\ cnt' = cnt + READ
  /\ UNCHANGED x
  /\ Goto(t, IF ((cnt + READ) & MASK) = 0 THEN "rcs" ELSE "idle")

RTryAdd(t) ==
  /\ pc[t] = "rt_add"
  /\ cnt' = cnt + READ
  /\ UNCHANGED x
  /\ Goto(t, IF ((cnt + READ) & MASK) = 0 THEN "rcs" ELSE "rt_back")

\* A writer raced in: fetch_sub(cnt, READ); return -EBUSY.
RTryBack(t) ==
  /\ pc[t] = "rt_back"
  /\ cnt' = cnt - READ
  /\ Goto(t, "idle")
  /\ UNCHANGED x

\* read_unlock: fetch_sub(cnt, READ).
RUnlock(t) ==
  /\ pc[t] = "rcs"
  /\ cnt' = cnt - READ
  /\ Goto(t, "idle")
  /\ UNCHANGED x

\* Mutant: the writer ignores the readers, testing only the WRITE bit.
WLoadIgnoreReaders(t) ==
  /\ pc[t] = "w_load"
  /\ x' = [x EXCEPT ![t] = cnt]
  /\ Goto(t, IF (cnt & WRITE) = 0 THEN "w_cas" ELSE "w_or")
  /\ UNCHANGED cnt

\* write_lock loop head: x = load; no readers or writer -> try the CAS.
WLoad(t) ==
  /\ pc[t] = "w_load"
  /\ x' = [x EXCEPT ![t] = cnt]
  /\ Goto(t, IF cnt < WRITE THEN "w_cas" ELSE "w_or")
  /\ UNCHANGED cnt

\* CAS cnt from x to WRITE (clearing WAIT); on failure x = cnt.
WCas(t) ==
  /\ pc[t] = "w_cas"
  /\ IF cnt = x[t]
       THEN /\ cnt' = WRITE
            /\ Goto(t, "wcs")
            /\ Forget(t)
       ELSE /\ x' = [x EXCEPT ![t] = cnt]
            /\ Goto(t, "w_or")
            /\ UNCHANGED cnt

\* if (!(x & WAIT)) fetch_or(cnt, WAIT).
WOr(t) ==
  /\ pc[t] = "w_or"
  /\ cnt' = IF (x[t] & WAIT) = 0 THEN cnt | WAIT ELSE cnt
  /\ Goto(t, "w_spin")
  /\ Forget(t)

\* while (cnt > WAIT) pause; then the loop starts over.
WSpin(t) ==
  /\ pc[t] = "w_spin"
  /\ cnt <= WAIT
  /\ Goto(t, "w_load")
  /\ UNCHANGED <<cnt, x>>

\* write_trylock: x = load; if (x < WRITE) CAS x -> x + WRITE, else -EBUSY.
WTryLoad(t) ==
  /\ pc[t] = "wt_load"
  /\ x' = [x EXCEPT ![t] = IF cnt < WRITE THEN cnt ELSE 0]
  /\ Goto(t, IF cnt < WRITE THEN "wt_cas" ELSE "idle")
  /\ UNCHANGED cnt

WTryCas(t) ==
  /\ pc[t] = "wt_cas"
  /\ IF cnt = x[t]
       THEN cnt' = x[t] + WRITE /\ Goto(t, "wcs")
       ELSE UNCHANGED cnt /\ Goto(t, "idle")
  /\ Forget(t)

\* write_unlock: fetch_sub(cnt, WRITE).
WUnlock(t) ==
  /\ pc[t] = "wcs"
  /\ cnt' = cnt - WRITE
  /\ Goto(t, "idle")
  /\ UNCHANGED x

Call(t) == ReadLock(t) \/ ReadTrylock(t) \/ WriteLock(t) \/ WriteTrylock(t)

\* Steps inside a call, and the unlocks: critical sections end.
Step(t) ==
  \/ RSpin(t) \/ RAdd(t) \/ RBack(t) \/ RTryLoad(t) \/ RTryAdd(t) \/ RTryBack(t)
  \/ WLoad(t) \/ WCas(t) \/ WOr(t) \/ WSpin(t) \/ WTryLoad(t) \/ WTryCas(t)
  \/ RUnlock(t) \/ WUnlock(t)

Next == \E t \in Threads : Call(t) \/ Step(t)

Spec == Init /\ [][Next]_vars /\ \A t \in Threads : WF_vars(Step(t))

-----------------------------------------------------------------------------
TypeOK ==
  /\ cnt \in Nat
  /\ x \in [Threads -> Nat]
  /\ pc \in [Threads -> {"idle", "r_spin", "r_add", "r_back", "rt_load",
                         "rt_add", "rt_back", "rcs", "w_load", "w_cas", "w_or",
                         "w_spin", "wt_load", "wt_cas", "wcs"}]

Readers == {t \in Threads : pc[t] = "rcs"}
Writers == {t \in Threads : pc[t] = "wcs"}

\* The writer; two writers map to no state of the contract.
Writer == IF Writers = {} THEN Nil
          ELSE IF Cardinality(Writers) = 1 THEN CHOOSE t \in Writers : TRUE
          ELSE Writers

Abs == INSTANCE RWContract WITH readers <- Readers, writer <- Writer

RWSpec == Abs!Spec

\* Threads whose READ is in cnt: inside, or between fetch_add and back-out.
Counted == {t \in Threads : pc[t] \in {"rcs", "r_back", "rt_back"}}

(* The word tells the truth: cnt holds READ once per counted reader, the   *)
(* WRITE bit exactly while a writer is inside, and nothing above.          *)
CntMatches ==
  /\ cnt \div READ = Cardinality(Counted)
  /\ ((cnt & WRITE) # 0) = (Writers # {})

Waiting(t) == pc[t] \in {"r_spin", "r_add", "r_back", "w_load", "w_cas", "w_or", "w_spin"}
Holding(t) == pc[t] \in {"rcs", "wcs"}

=============================================================================
