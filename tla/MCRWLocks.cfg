\* Two threads over the rwlock, the phase-fair lock and the seqlock: 2-bit
\* reader counts and write tickets, which wrap; a 3-bit sn from 6, which
\* wraps within two writes; no symmetry reduction (liveness).
CONSTANTS
  t1 = t1
  t2 = t2
  Nil = Nil
  Threads <- MCThreads
  RdBits = 2
  WrBits = 2
  SnBits = 3
  InitSn = 6
  MaxWrites = 2

SPECIFICATION Spec

INVARIANT TypeOK
INVARIANT LockWords
INVARIANT SnapshotConsistent
PROPERTY RWSpecs
PROPERTY RWProgress
PROPERTY PhaseFair
