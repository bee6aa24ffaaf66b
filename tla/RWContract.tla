------------------------------ MODULE RWContract ------------------------------
(***************************************************************************)
(* What the reader-writer locks behind the wrappers (rte_rwlock_t,         *)
(* rte_pflock_t) promise, one atomic step per acquisition and release:     *)
(* any number of readers, or one writer and no reader.                     *)
(***************************************************************************)
CONSTANTS
  Threads,
  Nil        \* no writer

VARIABLES
  readers,   \* threads holding the lock for reading
  writer     \* the thread holding it for writing, or Nil

Init ==
  /\ readers = {}
  /\ writer = Nil

AcquireRead(t) ==
  /\ writer = Nil
  /\ t \notin readers
  /\ readers' = readers \cup {t}
  /\ UNCHANGED writer

ReleaseRead(t) ==
  /\ t \in readers
  /\ readers' = readers \ {t}
  /\ UNCHANGED writer

AcquireWrite(t) ==
  /\ writer = Nil
  /\ readers = {}
  /\ writer' = t
  /\ UNCHANGED readers

ReleaseWrite(t) ==
  /\ writer = t
  /\ writer' = Nil
  /\ UNCHANGED readers

Next ==
  \E t \in Threads :
    AcquireRead(t) \/ ReleaseRead(t) \/ AcquireWrite(t) \/ ReleaseWrite(t)

Spec == Init /\ [][Next]_<<readers, writer>>

=============================================================================
