\* Two threads over the three lock objects, nesting the recursive ones two
\* deep; 1-bit ticket halves wrap every second ticket (two threads never
\* hold the same one).  No symmetry reduction: unsound for liveness.
CONSTANTS
  t1 = t1
  t2 = t2
  Nil = Nil
  Threads <- MCThreads
  MaxDepth = 2
  TicketBits = 1

SPECIFICATION Spec

PROPERTY SpinProgress
PROPERTY StarvationFree
