\* Two threads over the three lock objects, nesting the recursive ones two
\* deep, with 2-bit ticket halves that wrap every fourth ticket.  Two
\* threads are enough for every race of the calls: a CAS lost to the other
\* thread, the MCS unlock against a successor that has not linked itself.
CONSTANTS
  t1 = t1
  t2 = t2
  Nil = Nil
  Threads <- MCThreads
  MaxDepth = 2
  TicketBits = 2

SPECIFICATION Spec

INVARIANT TypeOK
INVARIANT TicketQueue
PROPERTY LockSpecs
