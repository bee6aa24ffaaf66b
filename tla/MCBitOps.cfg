\* The bit operations at 6 bits for the 32-bit functions and 8 bits for the
\* 64-bit ones: every word of each width, including 0, the top power of two
\* and the words above it, every bit number the relaxed operations assert,
\* and every dividend and divisor of the reciprocal.  The byte swaps use
\* 2-bit bytes: 4-, 8- and 16-bit words for bswap16/32/64.
\* Each behaviour is one call of a stateless function, which then has
\* returned: the end of a behaviour is not a deadlock.
CONSTANTS
  W32 = 6
  W64 = 8
  ByteBits = 2

SPECIFICATION Spec
CHECK_DEADLOCK FALSE

INVARIANT PowerOfTwoOps
INVARIANT BitScanExact
INVARIANT ReciprocalExact
INVARIANT Log2Exact
