-------------------------------- MODULE Lock --------------------------------
(***************************************************************************)
(* What every lock object behind the wrappers promises, as one atomic      *)
(* step per acquisition and release: one owner at a time.  A recursive     *)
(* lock (rte_spinlock_recursive_t, rte_ticketlock_recursive_t) lets its    *)
(* owner acquire it again and counts the nesting in depth; the lock is     *)
(* free again once the owner has released it as often as it acquired it.  *)
(* A plain lock only ever reaches depth 1.                                 *)
(***************************************************************************)
EXTENDS Naturals

CONSTANTS
  Threads,  \* callers of the lock wrappers
  Nil       \* no owner

VARIABLES
  holder,   \* the owner, or Nil
  depth     \* acquisitions of the owner not yet released

Init ==
  /\ holder = Nil
  /\ depth = 0

\* A lock or successful trylock call: the lock is free, or already the
\* caller's (a nested call of a recursive lock).
Acquire(t) ==
  /\ holder \in {Nil, t}
  /\ holder' = t
  /\ depth' = depth + 1

\* An unlock call of the owner; the last one frees the lock.
Release(t) ==
  /\ holder = t
  /\ depth' = depth - 1
  /\ holder' = IF depth = 1 THEN Nil ELSE t

Next == \E t \in Threads : Acquire(t) \/ Release(t)

Spec == Init /\ [][Next]_<<holder, depth>>

=============================================================================
