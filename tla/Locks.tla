-------------------------------- MODULE Locks --------------------------------
(***************************************************************************)
(* Three lock objects shared by the same threads: a recursive spinlock, a  *)
(* recursive ticket lock and an MCS lock.  A thread works under at most    *)
(* one of them at a time: it calls into an object only while it is not     *)
(* inside a call or a critical section of another (nesting two objects is  *)
(* the caller's lock order, not the locks' business).                      *)
(***************************************************************************)
EXTENDS Naturals

CONSTANTS Threads, Nil, MaxDepth, TicketBits

VARIABLES
  locked, suser, scount, spc,                 \* the recursive spinlock
  current, next, tuser, tcount, me, tpc,      \* the recursive ticket lock
  tail, qnext, qlocked, prev, mpc             \* the MCS lock

svars == <<locked, suser, scount, spc>>
tvars == <<current, next, tuser, tcount, me, tpc>>
mvars == <<tail, qnext, qlocked, prev, mpc>>
vars == <<svars, tvars, mvars>>

S == INSTANCE SpinLock WITH user <- suser, count <- scount, pc <- spc
T == INSTANCE TicketLock WITH user <- tuser, count <- tcount, pc <- tpc
M == INSTANCE McsLock WITH pc <- mpc

Init == S!Init /\ T!Init /\ M!Init

SCall(t) == ~T!Busy(t) /\ ~M!Busy(t) /\ S!Call(t) /\ UNCHANGED <<tvars, mvars>>
TCall(t) == ~S!Busy(t) /\ ~M!Busy(t) /\ T!Call(t) /\ UNCHANGED <<svars, mvars>>
MCall(t) == ~S!Busy(t) /\ ~T!Busy(t) /\ M!Call(t) /\ UNCHANGED <<svars, tvars>>

SStep(t) == S!Step(t) /\ UNCHANGED <<tvars, mvars>>
TStep(t) == T!Step(t) /\ UNCHANGED <<svars, mvars>>
MStep(t) == M!Step(t) /\ UNCHANGED <<svars, tvars>>

Next ==
  \E t \in Threads :
    SCall(t) \/ TCall(t) \/ MCall(t) \/ SStep(t) \/ TStep(t) \/ MStep(t)

SLeave(t) == S!Leave(t) /\ UNCHANGED <<tvars, mvars>>
TLeave(t) == T!Leave(t) /\ UNCHANGED <<svars, mvars>>

\* A thread inside a call keeps taking steps, and an owner eventually
\* unlocks for the last time; a thread between calls may stay there.
Spec ==
  /\ Init /\ [][Next]_vars
  /\ \A t \in Threads : /\ WF_vars(SStep(t)) /\ WF_vars(TStep(t)) /\ WF_vars(MStep(t))
                     /\ SF_vars(SLeave(t)) /\ SF_vars(TLeave(t))

-----------------------------------------------------------------------------
TypeOK == S!TypeOK /\ T!TypeOK /\ M!TypeOK

(* Each object implements the lock contract (Lock): its owner, read from  *)
(* user and count or from the MCS queue, changes only by an acquisition    *)
(* of a free lock or a nested one by the owner, or by the owner's release, *)
(* and the count is the owner's nesting.  Two threads past the CAS, the    *)
(* ticket wait or the MCS handover at once, or a release before the last   *)
(* nested unlock, is a step the contract does not allow.                   *)
LockSpecs == S!LockSpec /\ T!LockSpec /\ M!LockSpec

(* The ticket lock's tickets: handed out and not yet served are exactly    *)
(* current .. next - 1, each held by one thread, across the wrap of the    *)
(* 16-bit halves.                                                          *)
TicketQueue == T!TicketQueue

(* The spinlock never leaves every thread spinning: while some thread      *)
(* waits in rte_spinlock_lock, some thread eventually owns the lock.  It   *)
(* is not fair to each thread: a waiter's CAS can lose every time.         *)
SpinProgress == (\E t \in Threads : S!Waiting(t)) ~> (\E t \in Threads : S!Holding(t))

(* The ticket lock and the MCS lock are fair: every thread that waits in   *)
(* their lock call eventually owns the lock.                               *)
StarvationFree ==
  \A t \in Threads : /\ T!Waiting(t) ~> T!Holding(t)
                     /\ M!Waiting(t) ~> M!Holding(t)

=============================================================================
