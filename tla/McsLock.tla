------------------------------ MODULE McsLock ------------------------------
(***************************************************************************)
(* rte_mcslock_t: the lock is a pointer to the tail of a queue of nodes,   *)
(* one node {next, locked} per thread (the "me" argument of the calls).    *)
(*   rte_mcslock_lock:    me->locked = 1; me->next = NULL;                 *)
(*                        prev = exchange(msl, me); if prev is NULL the    *)
(*                        lock is taken, else prev->next = me and wait     *)
(*                        until me->locked = 0;                            *)
(*   rte_mcslock_unlock:  if me->next is NULL, CAS msl from me to NULL;    *)
(*                        if that fails, wait until me->next is set; then  *)
(*                        me->next->locked = 0 hands the lock over;        *)
(*   rte_mcslock_trylock: me->next = NULL; CAS msl from NULL to me.        *)
(* Nil stands for NULL.                                                    *)
(***************************************************************************)
EXTENDS Naturals, FiniteSets

CONSTANTS
  Threads,
  Nil

VARIABLES
  tail,      \* *msl
  qnext,     \* per thread: me->next
  qlocked,   \* per thread: me->locked
  prev,      \* per thread: the node exchange returned
  pc

vars == <<tail, qnext, qlocked, prev, pc>>

Init ==
  /\ tail = Nil
  /\ qnext = [t \in Threads |-> Nil]
  /\ qlocked = [t \in Threads |-> 0]
  /\ prev = [t \in Threads |-> Nil]
  /\ pc = [t \in Threads |-> "idle"]

Busy(t) == pc[t] # "idle"

\* rte_mcslock_lock: me->locked = 1.
Lock(t) ==
  /\ pc[t] = "idle"
  /\ qlocked' = [qlocked EXCEPT ![t] = 1]
  /\ pc' = [pc EXCEPT ![t] = "init_next"]
  /\ UNCHANGED <<tail, qnext, prev>>

\* me->next = NULL.
InitNext(t) ==
  /\ pc[t] = "init_next"
  /\ qnext' = [qnext EXCEPT ![t] = Nil]
  /\ pc' = [pc EXCEPT ![t] = "xchg"]
  /\ UNCHANGED <<tail, qlocked, prev>>

\* prev = exchange(msl, me); with no predecessor the call returns.
Xchg(t) ==
  /\ pc[t] = "xchg"
  /\ prev' = [prev EXCEPT ![t] = tail]
  /\ tail' = t
  /\ pc' = [pc EXCEPT ![t] = IF tail = Nil THEN "cs" ELSE "link"]
  /\ UNCHANGED <<qnext, qlocked>>

\* prev->next = me.
Link(t) ==
  /\ pc[t] = "link"
  /\ qnext' = [qnext EXCEPT ![prev[t]] = t]
  /\ pc' = [pc EXCEPT ![t] = "wait"]
  /\ UNCHANGED <<tail, qlocked, prev>>

\* rte_wait_until_equal_32(&me->locked, 0).
Wait(t) ==
  /\ pc[t] = "wait"
  /\ qlocked[t] = 0
  /\ pc' = [pc EXCEPT ![t] = "cs"]
  /\ UNCHANGED <<tail, qnext, qlocked, prev>>

\* rte_mcslock_trylock: me->next = NULL ...
TryLock(t) ==
  /\ pc[t] = "idle"
  /\ qnext' = [qnext EXCEPT ![t] = Nil]
  /\ pc' = [pc EXCEPT ![t] = "try_cas"]
  /\ UNCHANGED <<tail, qlocked, prev>>

\* ... CAS msl from NULL to me; failure returns 0.
TryCas(t) ==
  /\ pc[t] = "try_cas"
  /\ IF tail = Nil
       THEN /\ tail' = t
            /\ pc' = [pc EXCEPT ![t] = "cs"]
       ELSE /\ pc' = [pc EXCEPT ![t] = "idle"]
            /\ UNCHANGED tail
  /\ UNCHANGED <<qnext, qlocked, prev>>

\* rte_mcslock_unlock: load of me->next.
Unlock(t) ==
  /\ pc[t] = "cs"
  /\ pc' = [pc EXCEPT ![t] = IF qnext[t] = Nil THEN "unlock_cas" ELSE "handoff"]
  /\ UNCHANGED <<tail, qnext, qlocked, prev>>

\* Mutant: when the CAS fails, the unlock returns without handing over.
UnlockCasReturn(t) ==
  /\ pc[t] = "unlock_cas"
  /\ IF tail = t THEN tail' = Nil ELSE UNCHANGED tail
  /\ pc' = [pc EXCEPT ![t] = "idle"]
  /\ UNCHANGED <<qnext, qlocked, prev>>

\* CAS msl from me to NULL: no successor, the lock is free.  On failure a
\* successor has exchanged the tail and is about to link itself.
UnlockCas(t) ==
  /\ pc[t] = "unlock_cas"
  /\ IF tail = t
       THEN /\ tail' = Nil
            /\ pc' = [pc EXCEPT ![t] = "idle"]
       ELSE /\ pc' = [pc EXCEPT ![t] = "wait_next"]
            /\ UNCHANGED tail
  /\ UNCHANGED <<qnext, qlocked, prev>>

\* RTE_WAIT_UNTIL_MASKED(&me->next, ..., !=, 0).
WaitNext(t) ==
  /\ pc[t] = "wait_next"
  /\ qnext[t] # Nil
  /\ pc' = [pc EXCEPT ![t] = "handoff"]
  /\ UNCHANGED <<tail, qnext, qlocked, prev>>

\* me->next->locked = 0: the successor owns the lock.  A store through a
\* NULL next would fault; only a faulty unlock gets here, and stops.
Handoff(t) ==
  /\ pc[t] = "handoff"
  /\ qnext[t] # Nil
  /\ qlocked' = [qlocked EXCEPT ![qnext[t]] = 0]
  /\ pc' = [pc EXCEPT ![t] = "idle"]
  /\ UNCHANGED <<tail, qnext, prev>>

Call(t) == Lock(t) \/ TryLock(t)

Step(t) ==
  \/ InitNext(t) \/ Xchg(t) \/ Link(t) \/ Wait(t) \/ TryCas(t)
  \/ Unlock(t) \/ UnlockCas(t) \/ WaitNext(t) \/ Handoff(t)

Next == \E t \in Threads : Call(t) \/ Step(t)

Spec == Init /\ [][Next]_vars /\ \A t \in Threads : WF_vars(Step(t))

-----------------------------------------------------------------------------
TypeOK ==
  /\ tail \in Threads \cup {Nil}
  /\ qnext \in [Threads -> Threads \cup {Nil}]
  /\ qlocked \in [Threads -> {0, 1}]
  /\ prev \in [Threads -> Threads \cup {Nil}]
  /\ pc \in [Threads -> {"idle", "init_next", "xchg", "link", "wait",
                         "try_cas", "cs", "unlock_cas", "wait_next", "handoff"}]

\* A thread owns the lock from its return from lock or trylock until the
\* CAS or the store that frees it or hands it over.
Owners == {t \in Threads : pc[t] \in {"cs", "unlock_cas", "wait_next", "handoff"}}

\* The owner; two owners map to no state of the contract.
Holder == IF Owners = {} THEN Nil
          ELSE IF Cardinality(Owners) = 1 THEN CHOOSE t \in Owners : TRUE
          ELSE Owners

Abs == INSTANCE Lock WITH holder <- Holder,
                          depth <- IF Owners = {} THEN 0 ELSE 1

LockSpec == Abs!Spec

Waiting(t) == pc[t] \in {"init_next", "xchg", "link", "wait"}
Holding(t) == pc[t] = "cs"

=============================================================================
