\* QSBR with one writer that queues retired objects and checks the oldest,
\* and two readers that go online and offline, dereference the pointer and
\* report quiescent states.  Four objects give three grace periods, enough
\* for a check to find acked_token already past its token.  No symmetry:
\* readers are scanned in id order, and liveness is checked.
CONSTANTS
  w1 = w1
  w2 = w2
  Writers <- MCWriter
  NumReaders = 2
  MaxObjs = 4
SPECIFICATION Spec
INVARIANT TypeOK NoUseAfterFree
PROPERTY GraceEnds
