------------------------------ MODULE SpinLock ------------------------------
(***************************************************************************)
(* rte_spinlock_recursive_t as the wrappers use it: a spinlock word        *)
(* locked, the owner's thread id user (-1 when free, Nil here) and the     *)
(* nesting count.  The plain spinlock calls are the steps the recursive    *)
(* calls make on the embedded rte_spinlock_t:                              *)
(*   rte_spinlock_lock:    CAS locked 0 -> 1; on failure wait until        *)
(*                         locked = 0 (rte_wait_until_equal_32), retry;    *)
(*   rte_spinlock_trylock: one CAS;                                        *)
(*   rte_spinlock_unlock:  store locked = 0.                               *)
(* The _tm variants take the same path when rte_tm_supported() is 0; the  *)
(* hardware-transaction path is not modelled.  One step is one access to  *)
(* shared memory.                                                          *)
(***************************************************************************)
EXTENDS Naturals

CONSTANTS
  Threads,
  Nil,       \* user when no thread owns the lock (-1 in the code)
  MaxDepth   \* bound: nested acquisitions by the owner

VARIABLES
  locked,    \* sl.locked
  user,      \* slr->user
  count,     \* slr->count
  pc         \* per thread: where it is in a call, "idle" or "cs" (owner, between calls)

vars == <<locked, user, count, pc>>

Init ==
  /\ locked = 0
  /\ user = Nil
  /\ count = 0
  /\ pc = [t \in Threads |-> "idle"]

Busy(t) == pc[t] # "idle"

\* rte_spinlock_recursive_lock / _trylock entry: if (slr->user != id) take
\* the spinlock, else only count the nesting.  The owner nests at most
\* MaxDepth deep.
Lock(t) ==
  /\ pc[t] \in {"idle", "cs"}
  /\ pc[t] = "cs" => count < MaxDepth
  /\ pc' = [pc EXCEPT ![t] = IF user = t THEN "inc" ELSE "cas"]
  /\ UNCHANGED <<locked, user, count>>

TryLock(t) ==
  /\ pc[t] \in {"idle", "cs"}
  /\ pc[t] = "cs" => count < MaxDepth
  /\ pc' = [pc EXCEPT ![t] = IF user = t THEN "inc" ELSE "try_cas"]
  /\ UNCHANGED <<locked, user, count>>

\* rte_spinlock_lock: the CAS; on failure, the wait.
Cas(t) ==
  /\ pc[t] = "cas"
  /\ IF locked = 0
       THEN /\ locked' = 1
            /\ pc' = [pc EXCEPT ![t] = "set_user"]
       ELSE /\ pc' = [pc EXCEPT ![t] = "spin"]
            /\ UNCHANGED locked
  /\ UNCHANGED <<user, count>>

\* rte_wait_until_equal_32(&sl->locked, 0): returns on a load of 0.
Spin(t) ==
  /\ pc[t] = "spin"
  /\ locked = 0
  /\ pc' = [pc EXCEPT ![t] = "cas"]
  /\ UNCHANGED <<locked, user, count>>

\* rte_spinlock_trylock: one CAS; failure returns 0 from the call.
TryCas(t) ==
  /\ pc[t] = "try_cas"
  /\ IF locked = 0
       THEN /\ locked' = 1
            /\ pc' = [pc EXCEPT ![t] = "set_user"]
       ELSE /\ pc' = [pc EXCEPT ![t] = "idle"]
            /\ UNCHANGED locked
  /\ UNCHANGED <<user, count>>

SetUser(t) ==
  /\ pc[t] = "set_user"
  /\ user' = t
  /\ pc' = [pc EXCEPT ![t] = "inc"]
  /\ UNCHANGED <<locked, count>>

\* slr->count++; the call returns with the lock held.
Inc(t) ==
  /\ pc[t] = "inc"
  /\ count' = count + 1
  /\ pc' = [pc EXCEPT ![t] = "cs"]
  /\ UNCHANGED <<locked, user>>

\* Mutant: every unlock gives the spinlock back, whatever the count.
UnlockNoCountCheck(t) ==
  /\ pc[t] = "cs"
  /\ count' = count - 1
  /\ pc' = [pc EXCEPT ![t] = "clear_user"]
  /\ UNCHANGED <<locked, user>>

\* rte_spinlock_recursive_unlock: if (--(slr->count) == 0) release.
Unlock(t) ==
  /\ pc[t] = "cs"
  /\ count' = count - 1
  /\ pc' = [pc EXCEPT ![t] = IF count = 1 THEN "clear_user" ELSE "cs"]
  /\ UNCHANGED <<locked, user>>

\* Mutant: the owner is cleared but the spinlock is never unlocked.
ClearUserNoRelease(t) ==
  /\ pc[t] = "clear_user"
  /\ user' = Nil
  /\ pc' = [pc EXCEPT ![t] = "idle"]
  /\ UNCHANGED <<locked, count>>

\* slr->user = -1, then rte_spinlock_unlock.
ClearUser(t) ==
  /\ pc[t] = "clear_user"
  /\ user' = Nil
  /\ pc' = [pc EXCEPT ![t] = "release"]
  /\ UNCHANGED <<locked, count>>

Release(t) ==
  /\ pc[t] = "release"
  /\ locked' = 0
  /\ pc' = [pc EXCEPT ![t] = "idle"]
  /\ UNCHANGED <<user, count>>

\* The owner's last unlock, which gives the lock back.
Leave(t) == Unlock(t) /\ count = 1

Call(t) == Lock(t) \/ TryLock(t)

\* The steps inside a call, and the owner's unlock: critical sections end.
Step(t) ==
  \/ Cas(t) \/ Spin(t) \/ TryCas(t) \/ SetUser(t) \/ Inc(t)
  \/ Unlock(t) \/ ClearUser(t) \/ Release(t)

Next == \E t \in Threads : Call(t) \/ Step(t)

\* Critical sections end: an owner that keeps nesting and unnesting still
\* makes its last unlock (strong fairness, as it is enabled only at depth 1).
Spec ==
  /\ Init /\ [][Next]_vars
  /\ \A t \in Threads : WF_vars(Step(t)) /\ SF_vars(Leave(t))

-----------------------------------------------------------------------------
TypeOK ==
  /\ locked \in {0, 1}
  /\ user \in Threads \cup {Nil}
  /\ count \in 0..MaxDepth
  /\ pc \in [Threads -> {"idle", "cas", "spin", "try_cas", "set_user", "inc",
                         "cs", "clear_user", "release"}]

\* The owner as the contract sees it: the nesting is counted from the
\* first slr->count++ to the last --slr->count.
Holder == IF count > 0 THEN user ELSE Nil

Abs == INSTANCE Lock WITH holder <- Holder, depth <- count

LockSpec == Abs!Spec

Waiting(t) == pc[t] \in {"cas", "spin"}
Holding(t) == Holder = t

=============================================================================
