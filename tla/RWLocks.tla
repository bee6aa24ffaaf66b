------------------------------- MODULE RWLocks -------------------------------
(***************************************************************************)
(* The reader-writer locks and the seqlock shared by the same threads: an  *)
(* rte_rwlock_t, an rte_pflock_t and an rte_seqlock_t.  As in Locks, a     *)
(* thread works in one of them at a time.                                  *)
(***************************************************************************)
EXTENDS Naturals

CONSTANTS Threads, Nil, RdBits, WrBits, SnBits, InitSn, MaxWrites

VARIABLES
  cnt, x, rpc,                              \* the rwlock
  rdin, rdout, wrin, wrout, tk, w, fpc,     \* the phase-fair lock
  sn, lock, da, db, writes, bsn, ra, rb, spc \* the seqlock

rvars == <<cnt, x, rpc>>
fvars == <<rdin, rdout, wrin, wrout, tk, w, fpc>>
svars == <<sn, lock, da, db, writes, bsn, ra, rb, spc>>
vars == <<rvars, fvars, svars>>

R == INSTANCE RWLock WITH pc <- rpc
F == INSTANCE PFLock WITH pc <- fpc
S == INSTANCE SeqLock WITH pc <- spc

Init == R!Init /\ F!Init /\ S!Init

RCall(t) == ~F!Busy(t) /\ ~S!Busy(t) /\ R!Call(t) /\ UNCHANGED <<fvars, svars>>
FCall(t) == ~R!Busy(t) /\ ~S!Busy(t) /\ F!Call(t) /\ UNCHANGED <<rvars, svars>>
SCall(t) == ~R!Busy(t) /\ ~F!Busy(t) /\ S!Call(t) /\ UNCHANGED <<rvars, fvars>>

RStep(t) == R!Step(t) /\ UNCHANGED <<fvars, svars>>
FStep(t) == F!Step(t) /\ UNCHANGED <<rvars, svars>>
SStep(t) == S!Step(t) /\ UNCHANGED <<rvars, fvars>>

Next ==
  \E t \in Threads :
    RCall(t) \/ FCall(t) \/ SCall(t) \/ RStep(t) \/ FStep(t) \/ SStep(t)

\* A thread inside a call keeps taking steps, and critical sections end; a
\* thread between calls may stay there.
Spec ==
  /\ Init /\ [][Next]_vars
  /\ \A t \in Threads : WF_vars(RStep(t)) /\ WF_vars(FStep(t)) /\ WF_vars(SStep(t))

-----------------------------------------------------------------------------
TypeOK == R!TypeOK /\ F!TypeOK /\ S!TypeOK

(* Both reader-writer locks implement the contract RWContract: readers     *)
(* share the lock, a writer holds it alone, and the owners change only by  *)
(* the acquisitions and releases it allows.                                *)
RWSpecs == R!RWSpec /\ F!RWSpec

(* The lock words count their users: cnt holds READ per reader that has    *)
(* added itself and not backed out or unlocked, and WRITE exactly while a  *)
(* writer is inside; rd.in - rd.out counts the readers inside or waiting,  *)
(* and the writer bits of rd.in are those of the one announced writer.     *)
LockWords == R!CntMatches /\ F!RdCounts

(* A seqlock read that read_retry accepts saw both data words of the same  *)
(* write, whatever the writer was doing while the reader loaded them.      *)
SnapshotConsistent == S!SnapshotConsistent

(* The rwlock never leaves everyone waiting: while a thread waits in       *)
(* read_lock or write_lock, some thread eventually holds the lock.  It is  *)
(* not fair to each thread: writers race with CAS, and a stream of writers *)
(* keeps a reader out.                                                     *)
RWProgress == (\E t \in Threads : R!Waiting(t)) ~> (\E t \in Threads : R!Holding(t))

(* The phase-fair lock is starvation-free for readers and writers alike:   *)
(* a reader waiting out a write phase and a writer waiting for its ticket  *)
(* or for the readers to drain each eventually hold the lock.              *)
PhaseFair ==
  \A t \in Threads : /\ F!ReadWaiting(t) ~> fpc[t] = "rcs"
                     /\ F!WriteWaiting(t) ~> fpc[t] = "wcs"

=============================================================================
