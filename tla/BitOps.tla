------------------------------- MODULE BitOps -------------------------------
(***************************************************************************)
(* rte_bitops.h and rte_reciprocal.h behind the pure wrappers: bit scans,  *)
(* power-of-two alignment, rounded-up log2 and division by a precomputed   *)
(* reciprocal.  An operator is defined over n-bit words, n standing for 32 *)
(* (the _u32/32 functions) or 64 (the _u64/64 ones); W32 and W64 are the  *)
(* reduced widths checked.  Results of the compiler builtins at 0, which   *)
(* C leaves undefined, are a set of outcomes.  A call is one step that     *)
(* records the function, the width, the argument and the result returned.  *)
(***************************************************************************)
EXTENDS Integers, FiniteSetsExt, Bitwise

CONSTANTS
  W32,       \* the width standing for 32 bits
  W64,       \* the width standing for 64 bits
  ByteBits   \* the width standing for a byte, in the byte swaps

Widths == {W32, W64}
Word(n) == 0..(2^n - 1)
Wrap(x, n) == x % 2^n                  \* uintN_t arithmetic
SetBits(v, n) == {i \in 0..(n - 1) : (v \div 2^i) % 2 = 1}

\* __builtin_clz/ctz of 0 is undefined: lzcnt/tzcnt give n, bsr/bsf leave
\* the destination register as it was.  Any result from 0 to n may come.
Undefined(n) == 0..n

\* rte_clz32/64: __builtin_clz(v).
Clz(v, n) == IF v = 0 THEN Undefined(n) ELSE {n - 1 - Max(SetBits(v, n))}

\* rte_ctz32/64: __builtin_ctz(v).
Ctz(v, n) == IF v = 0 THEN Undefined(n) ELSE {Min(SetBits(v, n))}

\* rte_popcount32/64: __builtin_popcount(v).
Popcount(v, n) == Cardinality(SetBits(v, n))

\* rte_combine32ms1b/64ms1b: x |= x >> 1; x |= x >> 2; ... up to >> n/2.
RECURSIVE CombineFrom(_, _, _)
CombineFrom(x, s, n) == IF s >= n THEN x ELSE CombineFrom(x | (x \div 2^s), 2 * s, n)
Combinems1b(x, n) == CombineFrom(x, 1, n)

\* rte_bsf32/64: (uint32_t)rte_ctz(v).
Bsf(v, n) == Ctz(v, n)

\* rte_bsf32_safe/64_safe: if (v == 0) return 0; *pos = rte_bsf(v); return 1.
\* <<0>> is a return of 0 with *pos left unwritten.
BsfSafeNoZeroTest(v, n) == {<<1, p>> : p \in Bsf(v, n)}
BsfSafe(v, n) == IF v = 0 THEN {<<0>>} ELSE {<<1, p>> : p \in Bsf(v, n)}

\* rte_fls_u32/u64: (x == 0) ? 0 : n - rte_clz(x).
Fls(x, n) == IF x = 0 THEN {0} ELSE {n - c : c \in Clz(x, n)}

\* rte_is_power_of_2: n && !(n & (n - 1)).
IsPowerOf2(v, n) == IF v # 0 /\ (v & Wrap(v - 1, n)) = 0 THEN 1 ELSE 0

\* Mutant: the decrement before combining is left out.
AlignNoDecrement(x, n) == Wrap(Combinems1b(x, n) + 1, n)

\* rte_align32pow2/64pow2: x--; x = rte_combine_ms1b(x); return x + 1.
Alignpow2(x, n) == Wrap(Combinems1b(Wrap(x - 1, n), n) + 1, n)

\* rte_align32prevpow2/64prevpow2: x = rte_combine_ms1b(x); return x - (x >> 1).
Alignprevpow2(x, n) == LET y == Combinems1b(x, n) IN y - y \div 2

\* Mutant: the v == 0 test is left out.
Log2NoZeroTest(v, n) == Bsf(Alignpow2(v, n), n)

\* rte_log2_u32/u64: if (v == 0) return 0; v = rte_align_pow2(v); return rte_bsf(v).
Log2(v, n) == IF v = 0 THEN {0} ELSE Bsf(Alignpow2(v, n), n)

\* Mutant: m is not rounded up (++m left out).
ReciprocalValueNoRoundUp(d) ==
  LET l == CHOOSE f \in Fls(d - 1, W32) : TRUE
  IN [m |-> Wrap((2^W32 * (2^l - d)) \div d, W32),
      sh1 |-> IF l < 1 THEN l ELSE 1, sh2 |-> IF l - 1 > 0 THEN l - 1 ELSE 0]

\* rte_reciprocal_value(d): l = rte_fls_u32(d - 1);
\* m = ((1ULL << 32) * ((1ULL << l) - d)) / d + 1, stored in uint32_t R.m;
\* sh1 = RTE_MIN(l, 1); sh2 = RTE_MAX(l - 1, 0).
ReciprocalValue(d) ==
  LET l == CHOOSE f \in Fls(d - 1, W32) : TRUE
  IN [m |-> Wrap((2^W32 * (2^l - d)) \div d + 1, W32),
      sh1 |-> IF l < 1 THEN l ELSE 1, sh2 |-> IF l - 1 > 0 THEN l - 1 ELSE 0]

\* rte_reciprocal_divide(a, R): t = ((uint64_t)a * R.m) >> 32;
\* return (t + ((a - t) >> R.sh1)) >> R.sh2, in uint32_t.
ReciprocalDivide(a, R) ==
  LET t == (a * R.m) \div 2^W32
  IN Wrap(t + Wrap(a - t, W32) \div 2^R.sh1, W32) \div 2^R.sh2

\* rte_bit_relaxed_get32/64(nr, addr): (*addr) & (1 << nr).  The set,
\* clear, test_and_set and test_and_clear variants are a plain load and a
\* plain store of *addr: <<value returned, *addr after>>.
BitMask(nr) == 2^nr
BitGet(nr, w) == w & BitMask(nr)
BitSet(nr, w) == w | BitMask(nr)
BitClear(nr, w, n) == w & (2^n - 1 - BitMask(nr))
BitRelaxed(op, nr, w, n) ==
  CASE op = "get"            -> <<BitGet(nr, w), w>>
    [] op = "set"            -> <<0, BitSet(nr, w)>>
    [] op = "clear"          -> <<0, BitClear(nr, w, n)>>
    [] op = "test_and_set"   -> <<BitGet(nr, w), BitSet(nr, w)>>
    [] op = "test_and_clear" -> <<BitGet(nr, w), BitClear(nr, w, n)>>
RelaxedOps == {"get", "set", "clear", "test_and_set", "test_and_clear"}

\* rte_constant_bswap16/32/64: the or of (x & mask_i) shifted from byte i
\* to byte nb - 1 - i, nb = 2, 4, 8 bytes.
ByteOf(x, i) == (x \div 2^(ByteBits * i)) % 2^ByteBits
Bswap(x, nb) == MapThenSumSet(LAMBDA i : ByteOf(x, i) * 2^(ByteBits * (nb - 1 - i)), 0..(nb - 1))

VARIABLE last   \* the call last returned: [fn, w, in, out]

NoCall == [fn |-> "none", w |-> 0, in |-> 0, out |-> 0]

Init == last = NoCall

Return(f, n, v, r) == last' = [fn |-> f, w |-> n, in |-> v, out |-> r]

\* Each call takes an argument the function's contract allows: clz, ctz and
\* bsf require v != 0, rte_reciprocal_value requires d != 0.
CallClz == \E n \in Widths : \E v \in Word(n) \ {0} : \E r \in Clz(v, n) : Return("clz", n, v, r)
CallCtz == \E n \in Widths : \E v \in Word(n) \ {0} : \E r \in Ctz(v, n) : Return("ctz", n, v, r)
CallPopcount == \E n \in Widths : \E v \in Word(n) : Return("popcount", n, v, Popcount(v, n))
CallCombinems1b == \E n \in Widths : \E v \in Word(n) : Return("combine", n, v, Combinems1b(v, n))
CallBsf == \E n \in Widths : \E v \in Word(n) \ {0} : \E r \in Bsf(v, n) : Return("bsf", n, v, r)
CallBsfSafe == \E n \in Widths : \E v \in Word(n) : \E r \in BsfSafe(v, n) : Return("bsf_safe", n, v, r)
CallFls == \E n \in Widths : \E v \in Word(n) : \E r \in Fls(v, n) : Return("fls", n, v, r)
CallIsPowerOf2 == \E v \in Word(W32) : Return("is_pow2", W32, v, IsPowerOf2(v, W32))
CallAlignpow2 == \E n \in Widths : \E v \in Word(n) : Return("align", n, v, Alignpow2(v, n))
CallAlignprevpow2 == \E n \in Widths : \E v \in Word(n) : Return("alignprev", n, v, Alignprevpow2(v, n))
CallLog2 == \E n \in Widths : \E v \in Word(n) : \E r \in Log2(v, n) : Return("log2", n, v, r)
\* RTE_ASSERT(nr < 32) (or 64) in the relaxed bit operations.
CallBitRelaxed ==
  \E n \in Widths : \E op \in RelaxedOps, nr \in 0..(n - 1), w \in Word(n) :
    Return(op, n, <<nr, w>>, BitRelaxed(op, nr, w, n))
CallBswap ==
  \E nb \in {2, 4, 8} : \E x \in Word(ByteBits * nb) : Return("bswap", nb, x, Bswap(x, nb))
CallReciprocalDivide ==
  \E a \in Word(W32), d \in Word(W32) \ {0} :
    Return("recip", W32, <<a, d>>, ReciprocalDivide(a, ReciprocalValue(d)))

(* One call per behaviour: the functions keep no state between calls. *)
Next ==
  /\ last = NoCall
  /\ \/ CallBitRelaxed \/ CallBswap
     \/ CallClz \/ CallCtz \/ CallPopcount \/ CallCombinems1b
     \/ CallBsf \/ CallBsfSafe \/ CallFls \/ CallIsPowerOf2
     \/ CallAlignpow2 \/ CallAlignprevpow2 \/ CallLog2 \/ CallReciprocalDivide

Spec == Init /\ [][Next]_last

-----------------------------------------------------------------------------
(* Reference definitions, from what the functions' documentation promises. *)
Pow2s(n) == {2^i : i \in 0..(n - 1)}
TopBitAndBelow(x, n) == IF x = 0 THEN 0 ELSE 2^(Max(SetBits(x, n)) + 1) - 1
NextPow2(x, n) ==      \* zero is aligned to zero; 0 when no power fits
  LET up == {p \in Pow2s(n) : p >= x} IN IF x = 0 \/ up = {} THEN 0 ELSE Min(up)
PrevPow2(x, n) == IF x = 0 THEN 0 ELSE Max({p \in Pow2s(n) : p <= x})
CeilLog2(v, n) == IF v = 0 THEN 0 ELSE Min({i \in 0..n : 2^i >= v})

(* The power-of-two helpers, built from the ms1b cascade and uintN_t       *)
(* wrap-around: rte_combine_ms1b sets every bit below the top set bit,     *)
(* rte_align_pow2 returns the least power of two at or above x (0 when x   *)
(* is 0 or above the top power), rte_align_prevpow2 the greatest at or     *)
(* below x, and rte_is_power_of_2 exactly the powers of two.               *)
PowerOfTwoOps ==
  LET x == last.in  n == last.w IN
  /\ last.fn = "combine" => last.out = TopBitAndBelow(x, n)
  /\ last.fn = "align" => last.out = NextPow2(x, n)
  /\ last.fn = "alignprev" => last.out = PrevPow2(x, n)
  /\ last.fn = "is_pow2" => (last.out = 1 <=> x \in Pow2s(n))

(* The bit scans that guard the undefined builtins: rte_bsf_safe returns 0 *)
(* for 0 and otherwise 1 with the lowest set bit, and rte_fls returns the  *)
(* position of the highest set bit plus one, 0 for 0; neither ever passes  *)
(* the undefined result of __builtin_ctz/clz(0) on to its caller.          *)
BitScanExact ==
  LET v == last.in  n == last.w IN
  /\ last.fn = "bsf_safe" =>
       last.out = IF v = 0 THEN <<0>> ELSE <<1, Min(SetBits(v, n))>>
  /\ last.fn = "fls" => last.out = IF v = 0 THEN 0 ELSE Max(SetBits(v, n)) + 1

(* Division by a reciprocal is exact: rte_reciprocal_divide(a,             *)
(* rte_reciprocal_value(d)) = a / d for every a and every d != 0.          *)
ReciprocalExact == last.fn = "recip" => last.out = last.in[1] \div last.in[2]

(* rte_log2_u32/u64 return the rounded-up log2 of v, with log2(0) = 0, as *)
(* their documentation says, for every v up to the top power of two: the  *)
(* v == 0 test keeps rte_bsf away from the undefined __builtin_ctz(0).    *)
(* Above the top power rte_align_pow2 wraps to 0 and the scan is bsf(0),  *)
(* undefined in C: there the code promises nothing, and neither does this *)
(* property.                                                              *)
Log2Exact ==
  last.fn = "log2" /\ last.in <= 2^(last.w - 1) => last.out = CeilLog2(last.in, last.w)

=============================================================================
