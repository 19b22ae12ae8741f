------------------------------ MODULE SimdLanes -----------------------------
(***************************************************************************)
(* The five backends of vl_simd.c, lane by lane: the portable one in C     *)
(* against the ones that keep a vector in one register or in two, and      *)
(* reduce it with shuffles or pairwise instructions.  Instructions are     *)
(* external.  Numbers are exact, so that rounding is left out, and with it *)
(* what a fused multiplication saves; a quotient is kept as such.          *)
(***************************************************************************)
EXTENDS Integers, Sequences

CONSTANTS
    IntBits,        \* bits of an integer lane
    Bits            \* bits of a float lane

VARIABLE probe      \* what the vectors looked at are made of

Backends == {"portable", "sse2", "avx2", "neon", "neon64"}

NaN == 1000                                     \* a value no other operation gives
Undefined == 2000                               \* signed overflow in C
Lanes(n) == 0..(n - 1)

\* What one instruction, or one turn of a loop, does to a lane.
Less(x, y) == NaN \notin {x, y} /\ x < y
Mask(cond) == IF cond THEN Bits ELSE {}
Arith(op, x, y) ==
    IF NaN \in {x, y} THEN NaN
    ELSE CASE op = "add" -> x + y [] op = "sub" -> x - y [] op = "mul" -> x * y
Lane(op, x, y) ==
    CASE op = "copy" -> x
      [] op \in {"add", "sub", "mul"} -> Arith(op, x, y)
      [] op = "div" -> <<"quotient", x, y>>
      [] op = "lt" -> Mask(Less(x, y))
      [] op = "gt" -> Mask(Less(y, x))
      [] op = "eq" -> Mask(x = y /\ x # NaN)
      [] op = "and" -> x \cap y
      [] op = "or" -> x \cup y
      [] op = "xor" -> (x \cup y) \ (x \cap y)
      [] op = "not" -> Bits \ x

\* Two's complement, in a register, and what C leaves of a signed result.
Wrapped(x) == ((x + 2^(IntBits - 1)) % (2^IntBits)) - 2^(IntBits - 1)
Fits(x) == x = Wrapped(x)
InC(x) == IF Fits(x) THEN x ELSE Undefined
Exact(op, x, y) == IF op = "copy" THEN x ELSE Arith(op, x, y)

\* A loop over the components.
Loop(n, op, a, b) == [i \in Lanes(n) |-> Lane(op, a[i], b[i])]

\* Registers of w lanes, loaded from and stored to the components at an offset.
Load(mem, at, w) == [j \in Lanes(w) |-> mem[at + j]]
Store(mem, at, reg) == [i \in DOMAIN mem |-> IF i - at \in DOMAIN reg THEN reg[i - at] ELSE mem[i]]
Blank(n) == [i \in Lanes(n) |-> Undefined]
Packed(op, x, y) == [j \in DOMAIN x |-> Lane(op, x[j], y[j])]
One(op, n, a, b) == Store(Blank(n), 0, Packed(op, Load(a, 0, n), Load(b, 0, n)))
Two(op, a, b) ==
    LET low == Packed(op, Load(a, 0, 4), Load(b, 0, 4))
        high == Packed(op, Load(a, 4, 4), Load(b, 4, 4))
    IN  Store(Store(Blank(8), 0, low), 4, high)
\* One instruction for multiplication and addition, which for vmlaq_f32 and vfmaq_f32
\* takes the addend first.
Fused(a, b, c) == [j \in DOMAIN a |-> Arith("add", c[j], Arith("mul", a[j], b[j]))]
FusedTwo(a, b, c) ==
    Store(Store(Blank(8), 0, Fused(Load(a, 0, 4), Load(b, 0, 4), Load(c, 0, 4))),
          4, Fused(Load(a, 4, 4), Load(b, 4, 4), Load(c, 4, 4)))
Splat(n, s) == [i \in Lanes(n) |-> s]
SplatTwo(s) == Store(Store(Blank(8), 0, Splat(4, s)), 4, Splat(4, s))
WrappedOne(op, n, a, b) == [i \in Lanes(n) |-> Wrapped(Exact(op, a[i], b[i]))]

\* _mm_max_ps and _mm_min_ps give the second operand if one is NaN, vpmax and vpmin NaN.
Combine(op, x, y) ==
    CASE op = "sum" -> Arith("add", x, y) [] op = "prod" -> Arith("mul", x, y)
      [] op = "max" -> IF Less(y, x) THEN x ELSE y
      [] op = "min" -> IF Less(x, y) THEN x ELSE y
NeonCombine(op, x, y) == IF NaN \in {x, y} THEN NaN ELSE Combine(op, x, y)

\* _mm_shuffle_ps(m, m, _MM_SHUFFLE(z, y, x, w)).
Shuffle(m, z, y, x, w) == [i \in 0..3 |-> m[<<w, x, y, z>>[i + 1]]]
CombineAll(op, x, y) == [j \in DOMAIN x |-> Combine(op, x[j], y[j])]

\* vget_low, vget_high, and the pairwise instructions on two registers of two lanes.
Half(m, k) == [j \in 0..1 |-> m[2 * k + j]]
Pairwise(op, x, y) == [j \in 0..1 |-> IF j = 0 THEN NeonCombine(op, x[0], x[1]) ELSE NeonCombine(op, y[0], y[1])]
PairwiseQ(op, x, y) ==
    [j \in 0..3 |-> IF j < 2 THEN NeonCombine(op, x[2 * j], x[2 * j + 1])
                    ELSE NeonCombine(op, y[2 * j - 4], y[2 * j - 3])]

----------------------------------------------------------------------------
(* vl_simd_portable.c *)

Float4Portable(op, a, b, c) ==
    IF op = "fma" THEN Loop(4, "add", Loop(4, "mul", a, b), c)
    ELSE IF op = "splat" THEN Splat(4, a[0]) ELSE Loop(4, op, a, b)
SumPortable(v) == Arith("add", Arith("add", Arith("add", v[0], v[1]), v[2]), v[3])
Float8Portable(op, a, b, c) ==
    IF op = "fma" THEN Loop(8, "add", Loop(8, "mul", a, b), c) ELSE Loop(8, op, a, b)
Mask4Portable(op, a, b) == Loop(4, op, a, b)
ReducePortable(op, v) ==
    LET Better(x, y) == IF (op = "max" /\ Less(y, x)) \/ (op = "min" /\ Less(x, y)) THEN x ELSE y
    IN  IF op = "prod" THEN Arith("mul", Arith("mul", Arith("mul", v[0], v[1]), v[2]), v[3])
        ELSE Better(v[3], Better(v[2], Better(v[1], v[0])))
LanePortable(v, lane) == <<v[lane % 4], Splat(4, v[lane % 4])>>
Int4Portable(op, a, b) == [i \in Lanes(4) |-> InC(Exact(op, a[i], b[i]))]
Spread8Portable(op, a, b) == IF op = "splat" THEN Splat(8, a[0]) ELSE Loop(8, op, a, b)
Mask8Portable(op, a, b) == Loop(8, op, a, b)
Short8Portable(op, a, b) == [i \in Lanes(8) |-> Wrapped(Exact(op, a[i], b[i]))]
Bytes32Portable(src) == [i \in Lanes(32) |-> src[i]]

----------------------------------------------------------------------------
(* vl_simd_sse2.c *)

Float4Sse2(op, a, b, c) ==
    IF op = "fma" THEN One("add", 4, One("mul", 4, a, b), c)
    ELSE IF op = "splat" THEN Splat(4, a[0]) ELSE One(op, 4, a, b)
ReduceSse2(op, v) ==
    LET once == CombineAll(op, v, Shuffle(v, 2, 3, 0, 1))
        twice == CombineAll(op, once, Shuffle(once, 1, 0, 3, 2))
    IN  twice[0]
LaneSse2(v, lane) == <<v[lane % 4], Splat(4, v[lane % 4])>>
Mask4Sse2(op, a, b) ==
    IF op = "not" THEN One("xor", 4, a, Splat(4, Bits)) ELSE One(op, 4, a, b)
\* SSE2 has no multiplication of 32 bits: that is a loop in C.
Int4Sse2(op, a, b) == IF op = "mul" THEN Int4Portable(op, a, b) ELSE WrappedOne(op, 4, a, b)
Short8Sse2(op, a, b) == WrappedOne(op, 8, a, b)
Bytes32Sse2(src) == Store(Store(Blank(32), 0, Load(src, 0, 16)), 16, Load(src, 16, 16))
Spread8Sse2(op, a, b) == IF op = "splat" THEN SplatTwo(a[0]) ELSE Two(op, a, b)
Mask8Sse2(op, a, b) == IF op = "not" THEN Two("xor", a, SplatTwo(Bits)) ELSE Two(op, a, b)
Float8Sse2(op, a, b, c) == IF op = "fma" THEN Two("add", Two("mul", a, b), c) ELSE Two(op, a, b)

----------------------------------------------------------------------------
(* vl_simd_avx2.c *)

Float4Avx2(op, a, b, c) ==
    IF op = "fma" THEN Fused(Load(a, 0, 4), Load(b, 0, 4), Load(c, 0, 4))
    ELSE IF op = "splat" THEN Splat(4, a[0]) ELSE One(op, 4, a, b)
ReduceAvx2(op, v) ==
    LET once == CombineAll(op, v, Shuffle(v, 2, 3, 0, 1))
        twice == CombineAll(op, once, Shuffle(once, 1, 0, 3, 2))
    IN  twice[0]
LaneAvx2(v, lane) == <<v[lane % 4], Splat(4, v[lane % 4])>>
Mask4Avx2(op, a, b) ==
    IF op = "not" THEN One("xor", 4, a, Splat(4, Bits)) ELSE One(op, 4, a, b)
Int4Avx2(op, a, b) == WrappedOne(op, 4, a, b)
Short8Avx2(op, a, b) == WrappedOne(op, 8, a, b)
Bytes32Avx2(src) == Store(Blank(32), 0, Load(src, 0, 32))
Spread8Avx2(op, a, b) == IF op = "splat" THEN Splat(8, a[0]) ELSE One(op, 8, a, b)
Mask8Avx2(op, a, b) == IF op = "not" THEN One("xor", 8, a, Splat(8, Bits)) ELSE One(op, 8, a, b)
Float8Avx2(op, a, b, c) == IF op = "fma" THEN Fused(Load(a, 0, 8), Load(b, 0, 8), Load(c, 0, 8)) ELSE One(op, 8, a, b)

----------------------------------------------------------------------------
(* vl_simd_neon.c *)

\* Division multiplies by an estimate of the reciprocal, refined in Newton steps.
Float4Neon(op, a, b, c) ==
    CASE op = "fma" -> Fused(Load(a, 0, 4), Load(b, 0, 4), Load(c, 0, 4))
      [] op = "splat" -> Splat(4, a[0])
      [] op = "div" -> [j \in Lanes(4) |-> <<"estimate", 2, a[j], b[j]>>]
      [] OTHER -> One(op, 4, a, b)
ReduceNeon(op, v) ==
    IF op \in {"max", "min"}
    THEN LET once == PairwiseQ(op, v, v) IN PairwiseQ(op, once, once)[0]
    ELSE LET half == CombineAll(op, Half(v, 1), Half(v, 0)) IN Combine(op, half[0], half[1])
LaneNeon(v, lane) == <<Load(v, 0, 4)[lane % 4], Splat(4, v[lane % 4])>>
Mask4Neon(op, a, b) == One(op, 4, a, b)
Int4Neon(op, a, b) == WrappedOne(op, 4, a, b)
Short8Neon(op, a, b) == WrappedOne(op, 8, a, b)
Bytes32Neon(src) ==
    LET chunk[i \in 0..4] == IF i = 0 THEN Blank(32) ELSE Store(chunk[i - 1], 8 * (i - 1), Load(src, 8 * (i - 1), 8))
    IN  chunk[4]
Float8Neon(op, a, b, c) == CASE op = "fma" -> FusedTwo(a, b, c) [] op = "splat" -> SplatTwo(a[0]) [] OTHER -> Two(op, a, b)
Mask8Neon(op, a, b) == Two(op, a, b)

----------------------------------------------------------------------------
(* vl_simd_neon64.c *)

Float4Neon64(op, a, b, c) ==
    CASE op = "fma" -> Fused(Load(a, 0, 4), Load(b, 0, 4), Load(c, 0, 4))
      [] op = "splat" -> Splat(4, a[0])
      [] op = "div" -> [j \in Lanes(4) |-> <<"estimate", 1, a[j], b[j]>>]
      [] OTHER -> One(op, 4, a, b)
ReduceNeon64(op, v) ==
    CASE op \in {"max", "min"} ->
           LET once == Pairwise(op, Half(v, 1), Half(v, 0)) IN Pairwise(op, once, once)[0]
      [] op = "sum" -> LET half == CombineAll(op, Half(v, 1), Half(v, 0)) IN Combine(op, half[0], half[1])
      [] op = "prod" -> Arith("mul", Arith("mul", Arith("mul", v[0], v[1]), v[2]), v[3])
LaneNeon64(v, lane) == <<Load(v, 0, 4)[lane % 4], Splat(4, v[lane % 4])>>
Mask4Neon64(op, a, b) == One(op, 4, a, b)
Int4Neon64(op, a, b) == WrappedOne(op, 4, a, b)
Short8Neon64(op, a, b) == WrappedOne(op, 8, a, b)
Bytes32Neon64(src) == Store(Store(Blank(32), 0, Load(src, 0, 16)), 16, Load(src, 16, 16))
Float8Neon64(op, a, b, c) == IF op = "fma" THEN FusedTwo(a, b, c) ELSE Two(op, a, b)
Mask8Neon64(op, a, b) == Two(op, a, b)
Spread8Neon64(op, a, b) == IF op = "splat" THEN SplatTwo(a[0]) ELSE Two(op, a, b)

----------------------------------------------------------------------------
(* The function table, as the backend's initialisation fills it. *)

Float4(be, op, a, b, c) ==
    CASE be = "portable" -> Float4Portable(op, a, b, c)
      [] be = "sse2" -> Float4Sse2(op, a, b, c)
      [] be = "avx2" -> Float4Avx2(op, a, b, c)
      [] be = "neon" -> Float4Neon(op, a, b, c)
      [] be = "neon64" -> Float4Neon64(op, a, b, c)
Reduce(be, op, v) ==
    CASE be = "portable" -> IF op = "sum" THEN SumPortable(v) ELSE ReducePortable(op, v)
      [] be = "sse2" -> ReduceSse2(op, v)
      [] be = "avx2" -> ReduceAvx2(op, v)
      [] be = "neon" -> ReduceNeon(op, v)
      [] be = "neon64" -> ReduceNeon64(op, v)
Mask4(be, op, a, b) ==
    CASE be = "portable" -> Mask4Portable(op, a, b)
      [] be = "sse2" -> Mask4Sse2(op, a, b)
      [] be = "avx2" -> Mask4Avx2(op, a, b)
      [] be = "neon" -> Mask4Neon(op, a, b)
      [] be = "neon64" -> Mask4Neon64(op, a, b)
Mask8(be, op, a, b) ==
    CASE be = "portable" -> Mask8Portable(op, a, b)
      [] be = "sse2" -> Mask8Sse2(op, a, b)
      [] be = "avx2" -> Mask8Avx2(op, a, b)
      [] be = "neon" -> Mask8Neon(op, a, b)
      [] be = "neon64" -> Mask8Neon64(op, a, b)
Int4(be, op, a, b) ==
    CASE be = "portable" -> Int4Portable(op, a, b)
      [] be = "sse2" -> Int4Sse2(op, a, b)
      [] be = "avx2" -> Int4Avx2(op, a, b)
      [] be = "neon" -> Int4Neon(op, a, b)
      [] be = "neon64" -> Int4Neon64(op, a, b)
Short8(be, op, a, b) ==
    CASE be = "portable" -> Short8Portable(op, a, b)
      [] be = "sse2" -> Short8Sse2(op, a, b)
      [] be = "avx2" -> Short8Avx2(op, a, b)
      [] be = "neon" -> Short8Neon(op, a, b)
      [] be = "neon64" -> Short8Neon64(op, a, b)
Bytes(be, src) ==
    CASE be = "portable" -> Bytes32Portable(src)
      [] be = "sse2" -> Bytes32Sse2(src)
      [] be = "avx2" -> Bytes32Avx2(src)
      [] be = "neon" -> Bytes32Neon(src)
      [] be = "neon64" -> Bytes32Neon64(src)
LaneOf(be, v, lane) ==
    CASE be = "portable" -> LanePortable(v, lane)
      [] be = "sse2" -> LaneSse2(v, lane)
      [] be = "avx2" -> LaneAvx2(v, lane)
      [] be = "neon" -> LaneNeon(v, lane)
      [] be = "neon64" -> LaneNeon64(v, lane)
Float8(be, op, a, b, c) ==
    IF op \in {"splat", "sub"} /\ be # "neon"
    THEN CASE be = "portable" -> Spread8Portable(op, a, b)
           [] be = "sse2" -> Spread8Sse2(op, a, b)
           [] be = "avx2" -> Spread8Avx2(op, a, b)
           [] be = "neon64" -> Spread8Neon64(op, a, b)
    ELSE CASE be = "portable" -> Float8Portable(op, a, b, c)
           [] be = "sse2" -> Float8Sse2(op, a, b, c)
           [] be = "avx2" -> Float8Avx2(op, a, b, c)
           [] be = "neon" -> Float8Neon(op, a, b, c)
           [] be = "neon64" -> Float8Neon64(op, a, b, c)

----------------------------------------------------------------------------

\* Four indices of lane contents, and by how much the second operand is rotated.
LanesInit == probe \in [v : [0..3 -> 1..4], turn : 0..3]

Floats == <<-1, 0, 2, NaN>>
Patterns == <<Bits, {}, {0}, {1}>>
Ints == <<-(2^(IntBits - 1)), -1, 3, 2^(IntBits - 1) - 1>>
First4 == probe.v
Second4 == [i \in 0..3 |-> probe.v[(i + probe.turn) % 4]]
First8 == [i \in 0..7 |-> IF i < 4 THEN probe.v[i] ELSE probe.v[7 - i]]
Second8 == [i \in 0..7 |-> First8[(i + probe.turn) % 8]]
Of(table, v) == [i \in DOMAIN v |-> table[v[i]]]
Third(n) == [i \in Lanes(n) |-> i]
Source == [i \in Lanes(32) |-> i]

\* Where C leaves the result open, a backend may give anything.
Refines(x, y) == \A i \in DOMAIN y : y[i] = Undefined \/ x[i] = Undefined \/ x[i] = y[i]

\* Whatever backend is chosen, a program computes the same: lanes keep their place through
\* registers and halves, reductions meet every lane once, comparisons give the
\* same masks (NaN included), integers wrap alike where C defines them at all.
\* Exceptions: the quotient on NEON, and the extremes of a vector with a NaN.
LanesAgree ==
    LET a == Of(Floats, First4)
        b == Of(Floats, Second4)
        a8 == Of(Floats, First8)
        b8 == Of(Floats, Second8)
    IN  \A be \in Backends :
          /\ \A op \in {"copy", "splat", "add", "sub", "mul", "fma"} :
               /\ Float4(be, op, a, b, Third(4)) = Float4("portable", op, a, b, Third(4))
               /\ Float8(be, op, a8, b8, Third(8)) = Float8("portable", op, a8, b8, Third(8))
          /\ be \in {"sse2", "avx2"} => Float4(be, "div", a, b, a) = Float4("portable", "div", a, b, a)
          /\ \A op \in {"lt", "gt", "eq"} :
               /\ Mask4(be, op, a, b) = Mask4("portable", op, a, b)
               /\ Mask8(be, op, a8, b8) = Mask8("portable", op, a8, b8)
          /\ \A op \in {"and", "or", "xor", "not"} :
               LET x == Of(Patterns, First4)
                   y == Of(Patterns, Second4)
                   x8 == Of(Patterns, First8)
                   y8 == Of(Patterns, Second8)
               IN  /\ Mask4(be, op, x, y) = Mask4("portable", op, x, y)
                   /\ Mask8(be, op, x8, y8) = Mask8("portable", op, x8, y8)
          /\ \A op \in {"sum", "prod"} : Reduce(be, op, a) = Reduce("portable", op, a)
          /\ (\A i \in 0..3 : a[i] # NaN) =>
               \A op \in {"max", "min"} : Reduce(be, op, a) = Reduce("portable", op, a)
          /\ LaneOf(be, a, probe.turn - 4) = <<a[probe.turn], Splat(4, a[probe.turn])>>
          /\ \A op \in {"copy", "add", "mul"} :
               Refines(Int4(be, op, Of(Ints, First4), Of(Ints, Second4)),
                       Int4("portable", op, Of(Ints, First4), Of(Ints, Second4)))
          /\ \A op \in {"copy", "add"} :
               Short8(be, op, Of(Ints, First8), Of(Ints, Second8))
                 = Short8("portable", op, Of(Ints, First8), Of(Ints, Second8))
          /\ Bytes(be, Source) = Source

============================================================================
