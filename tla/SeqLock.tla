------------------------------ MODULE SeqLock ------------------------------
(***************************************************************************)
(* rte_seqlock_t: an rte_seqcount_t (uint32 sn) and an rte_spinlock_t that *)
(* serialises the writers.  The protected data is two words, da and db,    *)
(* which a writer stores one after the other (the new version in both) and *)
(* a reader loads one after the other.                                     *)
(*   read_begin:   load sn;                                                *)
(*   read_retry:   true if begin_sn is odd, else load sn, true if changed; *)
(*   write_lock:   rte_spinlock_lock, then write_begin: sn = sn + 1;       *)
(*   write_unlock: write_end: sn = sn + 1, then rte_spinlock_unlock.       *)
(* The reader is the documented caller loop: do { sn = read_begin; read }  *)
(* while (read_retry(sn)).  The spinlock is taken in one step, as its      *)
(* contract Lock says (SpinLock refines it).  The fences of the code make  *)
(* the loads and stores take effect in program order, as here.             *)
(***************************************************************************)
EXTENDS Naturals, Bitwise

CONSTANTS
  Threads,
  SnBits,      \* width of sn (32 in the code)
  InitSn,      \* sn at the start: some even value
  MaxWrites    \* bound: write_lock calls

SnMod == 2 ^ SnBits

ASSUME /\ InitSn \in 0..(SnMod - 1) /\ InitSn % 2 = 0
       /\ 2 * MaxWrites < SnMod   \* no reader sees sn lap

VARIABLES
  sn,        \* seqlock->count.sn
  lock,      \* seqlock->lock.locked
  da, db,    \* the protected data
  writes,    \* write_lock calls so far
  bsn,       \* per thread: begin_sn
  ra, rb,    \* per thread: the data it loaded
  pc

vars == <<sn, lock, da, db, writes, bsn, ra, rb, pc>>

Init ==
  /\ sn = InitSn
  /\ lock = 0
  /\ da = 0 /\ db = 0
  /\ writes = 0
  /\ bsn = [t \in Threads |-> 0]
  /\ ra = [t \in Threads |-> 0]
  /\ rb = [t \in Threads |-> 0]
  /\ pc = [t \in Threads |-> "idle"]

Busy(t) == pc[t] # "idle"

Goto(t, l) == pc' = [pc EXCEPT ![t] = l]

\* A read section: the caller starts its loop.
Read(t) ==
  /\ pc[t] = "idle"
  /\ Goto(t, "r_begin")
  /\ UNCHANGED <<sn, lock, da, db, writes, bsn, ra, rb>>

\* rte_seqlock_read_begin: load sn.
ReadBegin(t) ==
  /\ pc[t] = "r_begin"
  /\ bsn' = [bsn EXCEPT ![t] = sn]
  /\ Goto(t, "r_a")
  /\ UNCHANGED <<sn, lock, da, db, writes, ra, rb>>

ReadA(t) ==
  /\ pc[t] = "r_a"
  /\ ra' = [ra EXCEPT ![t] = da]
  /\ Goto(t, "r_b")
  /\ UNCHANGED <<sn, lock, da, db, writes, bsn, rb>>

ReadB(t) ==
  /\ pc[t] = "r_b"
  /\ rb' = [rb EXCEPT ![t] = db]
  /\ Goto(t, "r_retry")
  /\ UNCHANGED <<sn, lock, da, db, writes, bsn, ra>>

\* Mutant: read_retry only compares the sequence numbers.
ReadRetryNoOddCheck(t) ==
  /\ pc[t] = "r_retry"
  /\ Goto(t, IF bsn[t] # sn THEN "r_begin" ELSE "r_done")
  /\ UNCHANGED <<sn, lock, da, db, writes, bsn, ra, rb>>

\* rte_seqlock_read_retry: odd begin_sn, or sn moved: read again.
ReadRetry(t) ==
  /\ pc[t] = "r_retry"
  /\ Goto(t, IF (bsn[t] & 1) = 1 \/ bsn[t] # sn THEN "r_begin" ELSE "r_done")
  /\ UNCHANGED <<sn, lock, da, db, writes, bsn, ra, rb>>

\* The caller uses its snapshot; the locals are dead.
ReadDone(t) ==
  /\ pc[t] = "r_done"
  /\ Goto(t, "idle")
  /\ bsn' = [bsn EXCEPT ![t] = 0]
  /\ ra' = [ra EXCEPT ![t] = 0]
  /\ rb' = [rb EXCEPT ![t] = 0]
  /\ UNCHANGED <<sn, lock, da, db, writes>>

\* rte_seqlock_write_lock entry.
Write(t) ==
  /\ pc[t] = "idle"
  /\ writes < MaxWrites
  /\ writes' = writes + 1
  /\ Goto(t, "w_lock")
  /\ UNCHANGED <<sn, lock, da, db, bsn, ra, rb>>

\* rte_spinlock_lock(&seqlock->lock).
WLock(t) ==
  /\ pc[t] = "w_lock"
  /\ lock = 0
  /\ lock' = 1
  /\ Goto(t, "w_begin")
  /\ UNCHANGED <<sn, da, db, writes, bsn, ra, rb>>

\* rte_seqcount_write_begin: sn = sn + 1 (only the lock holder stores sn).
WBegin(t) ==
  /\ pc[t] = "w_begin"
  /\ sn' = (sn + 1) % SnMod
  /\ Goto(t, "w_a")
  /\ UNCHANGED <<lock, da, db, writes, bsn, ra, rb>>

\* The caller's stores of the new data, one word at a time.
WriteA(t) ==
  /\ pc[t] = "w_a"
  /\ da' = da + 1
  /\ Goto(t, "w_b")
  /\ UNCHANGED <<sn, lock, db, writes, bsn, ra, rb>>

WriteB(t) ==
  /\ pc[t] = "w_b"
  /\ db' = db + 1
  /\ Goto(t, "w_end")
  /\ UNCHANGED <<sn, lock, da, writes, bsn, ra, rb>>

\* rte_seqlock_write_unlock: write_end (sn = sn + 1) ...
WEnd(t) ==
  /\ pc[t] = "w_end"
  /\ sn' = (sn + 1) % SnMod
  /\ Goto(t, "w_unlock")
  /\ UNCHANGED <<lock, da, db, writes, bsn, ra, rb>>

\* ... then rte_spinlock_unlock.
WUnlock(t) ==
  /\ pc[t] = "w_unlock"
  /\ lock' = 0
  /\ Goto(t, "idle")
  /\ UNCHANGED <<sn, da, db, writes, bsn, ra, rb>>

Call(t) == Read(t) \/ Write(t)

Step(t) ==
  \/ ReadBegin(t) \/ ReadA(t) \/ ReadB(t) \/ ReadRetry(t) \/ ReadDone(t)
  \/ WLock(t) \/ WBegin(t) \/ WriteA(t) \/ WriteB(t) \/ WEnd(t) \/ WUnlock(t)

Next == \E t \in Threads : Call(t) \/ Step(t)

Spec == Init /\ [][Next]_vars /\ \A t \in Threads : WF_vars(Step(t))

-----------------------------------------------------------------------------
TypeOK ==
  /\ sn \in 0..(SnMod - 1)
  /\ lock \in {0, 1}
  /\ da \in 0..MaxWrites /\ db \in 0..MaxWrites
  /\ writes \in 0..MaxWrites
  /\ bsn \in [Threads -> 0..(SnMod - 1)]
  /\ ra \in [Threads -> 0..MaxWrites] /\ rb \in [Threads -> 0..MaxWrites]
  /\ pc \in [Threads -> {"idle", "r_begin", "r_a", "r_b", "r_retry", "r_done",
                         "w_lock", "w_begin", "w_a", "w_b", "w_end", "w_unlock"}]

(* A read that read_retry lets through saw one version of the data: both   *)
(* words from the same write, never the first word of a write in progress  *)
(* with the second word of the one before.                                 *)
SnapshotConsistent == \A t \in Threads : pc[t] = "r_done" => ra[t] = rb[t]

=============================================================================
