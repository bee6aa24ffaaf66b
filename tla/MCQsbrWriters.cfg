\* QSBR with two writers calling start and check concurrently, as the
\* library allows: a check's scan can store an acked_token past the counter
\* of a reader that came online behind it.
CONSTANTS
  w1 = w1
  w2 = w2
  Writers <- MCWriters
  NumReaders = 2
  MaxObjs = 3
SPECIFICATION Spec
INVARIANT NoUseAfterFree
