---------------------------- MODULE Algorithms -----------------------------
(***************************************************************************)
(* The pure routines of vl_algo.c, vl_memory.c, vl_rand.c and vl_compare.c *)
(* against reference definitions.                                          *)
(*                                                                         *)
(* A machine word is the set of its 1 bits, so that 64 of them are no      *)
(* problem: & | ^ are operations on sets, a shift moves the members, and   *)
(* v & (v - 1) drops the least one.  "gcc", "msvc" and "other" are the     *)
(* three ways the preprocessor builds vl_algo.c; the builtins of the first *)
(* two are external and do what their names say, on 32 bits at least.      *)
(* Arithmetic is done on words of W bits.                                  *)
(***************************************************************************)
EXTENDS Integers, Sequences, FiniteSets, SequencesExt, FiniteSetsExt

CONSTANTS
    W,          \* bits of vl_ularge_t in the arithmetic routines
    MaxSort     \* bound of the model on the length of an array

VARIABLE arg    \* the input of the routine looked at
algVars == arg

ShiftLeft(v, n, w) == {b + n : b \in v} \cap 0..(w - 1)
ShiftRight(v, n) == {b - n : b \in {c \in v : c >= n}}
Low(v, n) == v \cap 0..(n - 1)
Decrement(v) == (v \ {Min(v)}) \cup 0..(Min(v) - 1)
Increment(v) ==
    LET m == Min(0..64 \ v) IN (v \ 0..(m - 1)) \cup {m}

Popcnt(v) == Cardinality(v)                         \* external
Clz(v, w) == IF v = {} THEN w ELSE w - 1 - Max(v)   \* external
Ctz(v, w) == IF v = {} THEN w ELSE Min(v)           \* external

----------------------------------------------------------------------------
(* Bit counting. *)

\* The loop over the lowest bit, and Kernighan's loop.
RECURSIVE CountLowest(_), CountKernighan(_)
CountLowest(v) ==
    IF v = {} THEN 0 ELSE (IF 0 \in v THEN 1 ELSE 0) + CountLowest(ShiftRight(v, 1))
CountKernighan(v) == IF v = {} THEN 0 ELSE 1 + CountKernighan(v \cap Decrement(v))

PopCount8(v, build) == IF build = "other" THEN CountLowest(v) ELSE Popcnt(v)
PopCount16(v, build) == IF build = "other" THEN CountKernighan(v) ELSE Popcnt(v)

\* Fields of n bits summed pairwise: 2, then 4, then 8 bits; the
\* multiplication adds up the bytes.
RECURSIVE FieldSum(_, _)
FieldSum(v, n) ==
    IF n = 1 THEN Cardinality(v \cap {0})
    ELSE FieldSum(Low(v, n \div 2), n \div 2) + FieldSum(ShiftRight(v, n \div 2), n \div 2)
PopCount32(v, build) == IF build = "other" THEN FieldSum(v, 32) ELSE Popcnt(v)

PopCount64(v, build) ==
    IF build = "other" THEN PopCount32(Low(v, 32), build) + PopCount32(ShiftRight(v, 32), build)
    ELSE Popcnt(v)

\* The binary search: an empty top of h bits is counted and shifted out.
RECURSIVE Halving(_, _, _)
Halving(v, w, h) ==
    LET top == (w - h)..(w - 1)
    IN  IF h = 0 THEN 0
        ELSE IF v \cap top = {} THEN h + Halving(ShiftLeft(v, h, w), w, h \div 2)
        ELSE Halving(v, w, h \div 2)

CLZ8(v, build) ==
    IF v = {} THEN 8
    ELSE CASE build = "msvc" -> 7 - Max(v)
           [] build = "gcc" -> Clz(v, 32) - 24
           [] build = "other" -> Halving(v, 8, 4)
\* Without builtins the high byte is used the wrong way round.
CLZ16(v, build) ==
    IF v = {} THEN 16
    ELSE CASE build = "msvc" -> 15 - Max(v)
           [] build = "gcc" -> Clz(v, 32) - 16
           [] build = "other" ->
                LET high == CLZ8(ShiftRight(v, 8), build)
                IN  IF high # 0 THEN high + 8 ELSE CLZ8(Low(v, 8), build)
CLZ32(v, build) ==
    IF v = {} THEN 32
    ELSE IF build = "other" THEN Halving(v, 32, 16) ELSE Clz(v, 32)
CLZ64(v, build) ==
    IF v = {} THEN 64
    ELSE IF build # "other" THEN Clz(v, 64)
    ELSE LET high == ShiftRight(v, 32)
         IN  IF high # {} THEN CLZ32(high, build) ELSE 32 + CLZ32(Low(v, 32), build)

\* A De Bruijn constant times the lowest bit, its top bits an index: the
\* product with 2^k is the constant shifted by k.
Number(v) == SumSet({2^b : b \in v})
DeBruijn(constant, k, top) == Number(ShiftRight(ShiftLeft(constant, k, 32), 32 - top))

C17 == {0, 1, 2, 4}
Table8 == <<0, 1, 2, 4, 7, 3, 6, 5>>
\* The product is at most 12 bits wide: the index is always 0.
CTZ8(v, build) ==
    IF v = {} THEN 8
    ELSE IF build = "other" THEN Table8[DeBruijn(C17, Min(v), 3) + 1] ELSE Ctz(v, 32)
CTZ16(v, build) ==
    IF v = {} THEN 16
    ELSE IF build # "other" THEN Ctz(v, 32)
    ELSE IF Low(v, 8) # {} THEN CTZ8(Low(v, 8), build)
    ELSE 8 + CTZ8(ShiftRight(v, 8), build)

C077CB531 == {26, 25, 24, 22, 21, 20, 19, 18, 15, 13, 12, 10, 8, 5, 4, 0}
Table32 == <<0, 1, 28, 2, 29, 14, 24, 3, 30, 22, 20, 15, 25, 17, 4, 8,
             31, 27, 13, 23, 21, 19, 16, 7, 26, 12, 18, 6, 11, 5, 10, 9>>
CTZ32(v, build) ==
    IF v = {} THEN 32
    ELSE IF build = "other" THEN Table32[DeBruijn(C077CB531, Min(v), 5) + 1] ELSE Ctz(v, 32)
CTZ64(v, build) ==
    IF v = {} THEN 64
    ELSE IF build # "other" THEN Ctz(v, 64)
    ELSE IF Low(v, 32) # {} THEN CTZ32(Low(v, 32), build)
    ELSE 32 + CTZ32(ShiftRight(v, 32), build)

\* vlAlgoNextPO2: the bits are smeared to the right; the result is cut to the
\* 32 bits of vl_uint_t.
Smear(v, n) == v \cup ShiftRight(v, n)
NextPO2(v) ==
    IF v = {} THEN {0}
    ELSE IF 63 \in v THEN {}
    ELSE Low(Increment(FoldLeft(Smear, Decrement(v), <<1, 2, 4, 8, 16, 32>>)), 32)

IsPO2(v) == v # {} /\ v \cap Decrement(v) = {}

\* Words to look at: the empty one, one bit, two bits, all bits from one on.
Words(w) ==
    {{}} \cup {{a, b} : a, b \in 0..(w - 1)} \cup {a..(w - 1) : a \in 0..(w - 1)}

Bits == [fn : {"bits"}, build : {"gcc", "msvc", "other"}, w : {8, 16, 32, 64}, v : Words(64)]

\* What leading and trailing zeros the routine of the width counts.
LeadingZeros(v, w, b) ==
    CASE w = 8 -> CLZ8(v, b) [] w = 16 -> CLZ16(v, b) [] w = 32 -> CLZ32(v, b) [] w = 64 -> CLZ64(v, b)
TrailingZeros(v, w, b) ==
    CASE w = 8 -> CTZ8(v, b) [] w = 16 -> CTZ16(v, b) [] w = 32 -> CTZ32(v, b) [] w = 64 -> CTZ64(v, b)

\* Each width's routine, against the builtins.  Three routines of the build without
\* builtins are left out, because they are wrong: CLZ16, CTZ8 and CTZ16
\* (BitsOnEveryBuild).
BitsRight ==
    arg.fn = "bits" =>
      LET v == Low(arg.v, arg.w)
          b == arg.build
          pop == CASE arg.w = 8 -> PopCount8(v, b) [] arg.w = 16 -> PopCount16(v, b)
                   [] arg.w = 32 -> PopCount32(v, b) [] arg.w = 64 -> PopCount64(v, b)
          po2 == NextPO2(v)
      IN  /\ pop = Popcnt(v)
          /\ (b = "other" /\ arg.w = 16) \/ LeadingZeros(v, arg.w, b) = Clz(v, arg.w)
          /\ (b = "other" /\ arg.w < 32) \/ TrailingZeros(v, arg.w, b) = Ctz(v, arg.w)
          /\ IsPO2(v) = (Cardinality(v) = 1)
          /\ Low(v, 31) = v =>
               \E k \in 0..31 : /\ po2 = {k}
                                /\ Max(v \cup {-1}) < k \/ v = {k}
                                /\ k = 0 \/ Max(v \cup {-1}) = k - 1 \/ v = {k}

\* vl_algo.h:115-116, 151-152: the zeros are counted "for optimal performance, with
\* portable fallback implementations", on the build without builtins too.
BitsOnEveryBuild ==
    arg.fn = "bits" =>
      LET v == Low(arg.v, arg.w)
      IN  /\ LeadingZeros(v, arg.w, arg.build) = Clz(v, arg.w)
          /\ TrailingZeros(v, arg.w, arg.build) = Ctz(v, arg.w)

----------------------------------------------------------------------------
(* Arithmetic on W bits. *)

Top == 2^W - 1          \* ULLONG_MAX
Even(n) == n % 2 = 0

RECURSIVE Odd(_), Twos(_, _), Stein(_, _)
Odd(n) == IF Even(n) THEN Odd(n \div 2) ELSE n
Twos(a, b) == IF Even(a) /\ Even(b) THEN 1 + Twos(a \div 2, b \div 2) ELSE 0
\* The loop of vlAlgoGCD on an odd a.
Stein(a, b) ==
    LET c == Odd(b)
        small == IF a > c THEN c ELSE a
        large == IF a > c THEN a ELSE c
    IN  IF large = small THEN small ELSE Stein(small, large - small)
GCD(a, b) ==
    IF a = 0 THEN b ELSE IF b = 0 THEN a
    ELSE 2^Twos(a, b) * Stein(Odd(a \div 2^Twos(a, b)), b \div 2^Twos(a, b))

LCM(a, b) ==
    IF a = 0 \/ b = 0 THEN 0
    ELSE LET q == a \div GCD(a, b) IN IF q > Top \div b THEN 0 ELSE q * b

Unsigned(a) == IF a < 0 THEN -a ELSE a      \* LLONG_MIN included
GCDSigned(a, b) == GCD(Unsigned(a), Unsigned(b))
LCMSigned(a, b) ==
    LET r == LCM(Unsigned(a), Unsigned(b)) IN IF r > Top \div 2 THEN 0 ELSE r

AddOverflow(a, b) == Top - a < b
SubUnderflow(a, b) == a < b
MulOverflow(a, b) == a # 0 /\ b # 0 /\ a > Top \div b

Pairs == [fn : {"arith"}, a : 0..Top, b : 0..Top]

Divides(d, n) == n % d = 0
Multiples(a, b) == {m \in 1..Top : Divides(a, m) /\ Divides(b, m)}

\* The binary algorithm finds the greatest common divisor; the least common
\* multiple, with and without sign, is 0 exactly when it has no representation,
\* and the overflow tests are exact, up to the largest words.
ArithmeticRight ==
    arg.fn = "arith" =>
      LET a == arg.a  b == arg.b  m == Multiples(a, b)
      IN  /\ a > 0 /\ b > 0 =>
               /\ GCD(a, b) = Max({d \in 1..a : Divides(d, a) /\ Divides(d, b)})
               /\ LCM(a, b) = IF m = {} THEN 0 ELSE Min(m)
               /\ (a <= 2^(W-1) /\ b < 2^(W-1)) =>
                    LCMSigned(-a, b) = IF m \cap 1..(2^(W-1) - 1) = {} THEN 0 ELSE Min(m)
               /\ GCDSigned(-a, b) = GCD(a, b)
          /\ AddOverflow(a, b) = (a + b > Top)
          /\ SubUnderflow(a, b) = (a - b < 0)
          /\ MulOverflow(a, b) = (a * b > Top)

----------------------------------------------------------------------------
(* Sorting and moving bytes. *)

Swap(s, i, j) == [s EXCEPT ![i] = s[j], ![j] = s[i]]

\* VL_COMPARE_FUNC.
Compare(a, b) == (IF a > b THEN 1 ELSE 0) - (IF a < b THEN 1 ELSE 0)

RECURSIVE PartitionFrom(_, _, _, _)
PartitionFrom(s, i, j, high) ==
    IF j >= high THEN [s |-> Swap(s, i + 1, high), p |-> i + 1]
    ELSE IF Compare(s[j], s[high]) <= 0
    THEN PartitionFrom(Swap(s, i + 1, j), i + 1, j + 1, high)
    ELSE PartitionFrom(s, i, j + 1, high)
\* vl_MemSortPartition around the last element of a range.
Partition(s, low, high) == PartitionFrom(s, low - 1, low, high)

\* What is pushed for the two sides of the pivot.
Parts(p, low, high) ==
    (IF p - 1 > low THEN <<[low |-> low, high |-> p - 1]>> ELSE << >>) \o
    (IF p + 1 < high THEN <<[low |-> p + 1, high |-> high]>> ELSE << >>)

\* vl_MemSortQuicksort with its own stack; deepest is the room the stack took.
RECURSIVE Quicksort(_, _, _)
Quicksort(s, stack, deepest) ==
    LET depth == IF 2 * Len(stack) > deepest THEN 2 * Len(stack) ELSE deepest
        r == Last(stack)
        part == Partition(s, r.low, r.high)
    IN  IF stack = << >> THEN [s |-> s, deepest |-> depth]
        ELSE Quicksort(part.s, Front(stack) \o Parts(part.p, r.low, r.high), depth)

\* vlMemSort gives the stack one number per element.
MemSort(s) == Quicksort(s, <<[low |-> 1, high |-> Len(s)]>>, 0)

RECURSIVE CopyStride(_, _, _, _, _)
\* vlMemCopyStride, one cell per element; strides of 0 mean packed.
CopyStride(src, srcStride, dest, dstStride, n) ==
    IF srcStride = 0 /\ dstStride = 0 THEN [i \in DOMAIN dest |-> IF i <= n THEN src[i] ELSE dest[i]]
    ELSE IF n = 0 THEN dest
    ELSE [CopyStride(src, srcStride, dest, dstStride, n - 1)
            EXCEPT ![(n - 1) * dstStride + 1] = src[(n - 1) * srcStride + 1]]

RECURSIVE ReverseSteps(_, _, _, _)
ReverseSteps(s, first, last, steps) ==
    IF steps = 0 THEN s ELSE ReverseSteps(Swap(s, first, last), first + 1, last - 1, steps - 1)
\* vlMemReverseSubArraysStride.
ReverseSubArrays(s, stride, size, n) ==
    FoldLeft(LAMBDA t, k : ReverseSteps(t, k * stride + 1, k * stride + size, size \div 2),
             s, [k \in 1..n |-> k - 1])

Arrays == [fn : {"sort"}, s : UNION {[1..n -> 1..n] : n \in 1..MaxSort}]

\* The array is sorted and no element is lost, whatever the pivots are, and the
\* stack of ranges stays within its memory from two elements on.  One element is left
\* out (SortStaysInMemory), and an empty array is not among the inputs: it overruns
\* the stack likewise, and then exchanges elements in front of the array.
SortRight ==
    arg.fn = "sort" =>
      LET r == MemSort(arg.s)
          n == Len(arg.s)
      IN  /\ r.s = SortSeq(arg.s, <)
          /\ n > 1 => r.deepest <= n
          /\ ReverseSubArrays(arg.s \o arg.s, n, n, 2) = Reverse(arg.s) \o Reverse(arg.s)
          /\ CopyStride(arg.s, 1, r.s, 1, n) = arg.s
          /\ CopyStride(arg.s, 0, r.s, 0, n) = arg.s
          /\ n > 2 => CopyStride(arg.s, 2, r.s, 1, 2) = <<arg.s[1], arg.s[3]>> \o SubSeq(r.s, 3, n)

\* vl_memory.h:562: the scratch space is "proportional to `numElements` and
\* `elementSize`"; the ranges to be sorted fit into what was allocated for them.  One
\* element needs two numbers and has room for one.
SortStaysInMemory == arg.fn = "sort" => MemSort(arg.s).deepest <= Len(arg.s)

----------------------------------------------------------------------------
(* Random numbers. *)

WordBytes == 4      \* sizeof(vl_rand), 8 in the code

\* vlRandFill: the bytes <<draw, position>> stored from an address on.
Draw(k, n) == [i \in 1..n |-> <<k, i>>]
RandFill(address, len) ==
    LET off == address % WordBytes
        lead == IF off = 0 THEN 0
                ELSE IF WordBytes - off < len THEN WordBytes - off ELSE len
        first == IF off = 0 THEN 0 ELSE 1
        blocks == (len - lead) \div WordBytes
        rest == (len - lead) % WordBytes
    IN  Draw(1, lead)
        \o FlattenSeq([k \in 1..blocks |-> Draw(first + k, WordBytes)])
        \o Draw(first + blocks + 1, rest)

\* vlRandF, vlRandFx2, vlRandD: a mantissa from the generator under the
\* exponent of 1.0.
One32 == 23..29
One64 == 52..61
RandF(v) == Low(v, 23) \cup One32
RandFx2(v) == RandF(v) \cup ShiftLeft(RandF(ShiftRight(v, 32)), 32, 64)
RandD(v) == Low(v, 52) \cup One64

Exponent32(v) == v \cap 23..31
Fills == [fn : {"fill"}, address : 0..7, len : 0..12, v : {{}, 0..63, 0..31, 20..40, 50..63}]

\* Every byte is written once and with bits no other byte has, for every
\* alignment and length; the floats lie in [1, 2) before 1 is taken off.
RandRight ==
    arg.fn = "fill" =>
      LET f == RandFill(arg.address, arg.len)
      IN  /\ Len(f) = arg.len
          /\ Cardinality(Range(f)) = arg.len
          /\ Exponent32(RandFx2(arg.v)) = One32
          /\ Exponent32(ShiftRight(RandFx2(arg.v), 32)) = One32
          /\ RandD(arg.v) \cap 52..63 = One64

AlgInit == arg \in Bits \cup Pairs \cup Arrays \cup Fills
AlgNext == UNCHANGED arg
AlgorithmsRight == BitsRight /\ ArithmeticRight /\ SortRight /\ RandRight

============================================================================
