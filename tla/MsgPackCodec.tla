---------------------------- MODULE MsgPackCodec ----------------------------
(***************************************************************************)
(* vl_msgpack_io.c: the streaming encoder, which learns the length of a    *)
(* container only when it is closed and then moves what was written behind *)
(* it, and the decoder.  A byte has Radix values, so that every width of   *)
(* the format is reached with small numbers; a cell of the buffer is a tag *)
(* with its number, a byte, or a byte of user data.                        *)
(***************************************************************************)
EXTENDS Integers, Sequences, SequencesExt

CONSTANTS
    Radix,          \* values of a byte (256)
    FixLength,      \* longest string and container with the length in the tag
    NegFix,         \* least negative integer in a tag, negated (0x1F)
    MaxFixExt,      \* longest extension with the length in the tag (16)
    Scalars,        \* tokens the client encodes
    MaxTokens,      \* bound of the model on tokens and on nesting
    MaxDepth

VARIABLES
    enc,            \* the encoder: buffer, stack of frames, error
    written,        \* tokens the client wrote (history)
    unbalanced      \* a map was closed as an array with a key but no value (history)

codecVars == <<enc, written, unbalanced>>

Token(kind, n) == [kind |-> kind, n |-> n]
Tag(name, n) == <<name, n>>
Data(n) == [i \in 1..n |-> <<"data", 0>>]

\* _VL_FLIP_ENDIAN and memcpy: k bytes, the most significant first.
BigEndian(n, k) == [i \in 1..k |-> <<"byte", (n \div Radix^(k - i)) % Radix>>]
Number(cells) == FoldLeft(LAMBDA sum, cell : sum * Radix + cell[2], 0, cells)
Half(k) == Radix^k \div 2
Signed(n, k) == IF n >= Half(k) THEN n - Radix^k ELSE n

----------------------------------------------------------------------------
(* Encoding of one token *)

Width(n) == IF n < Radix THEN 1 ELSE IF n < Radix^2 THEN 2 ELSE IF n < Radix^4 THEN 4 ELSE 8
Sized(name, n) == <<Tag(name, Width(n))>> \o BigEndian(n, Width(n))

EncodeBool(n) == <<Tag(IF n = 1 THEN "true" ELSE "false", 0)>>
EncodeString(n) == (IF n <= FixLength THEN <<Tag("fixstr", n)>> ELSE Sized("str", n)) \o Data(n)
EncodeFloat(kind, size) == <<Tag(kind, 0)>> \o Data(size)
EncodeBinary(n) == Sized("bin", n) \o Data(n)

\* Short extensions are filled up to a power of two, the length is forgotten.
FixExts == {2^i : i \in 0..4} \cap 1..MaxFixExt
EncodeExt(n) ==
    IF n <= MaxFixExt
    THEN LET size == CHOOSE s \in FixExts : s >= n /\ \A t \in FixExts : t >= n => s <= t
         IN  <<Tag("fixext", size), Tag("type", 0)>> \o Data(size)
    ELSE Sized("ext", n) \o <<Tag("type", 0)>> \o Data(n)

\* The least value of each width is given to the next width.
Within(v, k) == v <= Half(k) - 1 /\ v >= -(Half(k) - 1)
EncodeInt(v) ==
    IF v >= 0 /\ v <= Half(1) - 1 THEN <<Tag("posfix", v)>>
    ELSE IF v <= -1 /\ v >= -NegFix THEN <<Tag("negfix", v)>>
    ELSE LET k == IF Within(v, 1) THEN 1 ELSE IF Within(v, 2) THEN 2 ELSE IF Within(v, 4) THEN 4 ELSE 8
         IN  <<Tag("int", k)>> \o BigEndian(v % Radix^k, k)
EncodeUInt(v) == Sized("uint", v)
EncodeNil == <<Tag("nil", 0)>>

EncodeScalar(t) ==
    CASE t.kind = "nil" -> EncodeNil
      [] t.kind = "bool" -> EncodeBool(t.n)
      [] t.kind = "int" -> EncodeInt(t.n)
      [] t.kind = "uint" -> EncodeUInt(t.n)
      [] t.kind = "float32" -> EncodeFloat("float32", 4)
      [] t.kind = "float64" -> EncodeFloat("float64", 8)
      [] t.kind = "string" -> EncodeString(t.n)
      [] t.kind = "binary" -> EncodeBinary(t.n)
      [] t.kind = "ext" -> EncodeExt(t.n)

----------------------------------------------------------------------------
(* The encoder *)

EncoderInit == [buffer |-> << >>, stack |-> << >>, error |-> "none"]
CodecInit == enc = EncoderInit /\ written = << >> /\ unbalanced = FALSE

\* vl_MsgPackEncodeIncrement
Increment(stack) ==
    IF stack = << >> THEN << >>
    ELSE [stack EXCEPT ![Len(stack)].total = @ + 1]

\* vl_MsgPackEncodePush claims a tag and the widest length.
Push(isArray) ==
    [enc EXCEPT !.stack = Append(Increment(@), [isArray |-> isArray, start |-> Len(enc.buffer), total |-> 0]),
                !.buffer = @ \o Data(1 + 4)]

\* vl_MsgPackEncodeFrame: tag and length, and with them the room not needed.
FrameHead(frame) ==
    LET n == IF frame.isArray THEN frame.total ELSE frame.total \div 2
        name == IF frame.isArray THEN "array" ELSE "map"
    IN  IF n <= FixLength THEN <<Tag(IF frame.isArray THEN "fixarray" ELSE "fixmap", n)>>
        ELSE IF n < Radix^2 THEN <<Tag(name, 2)>> \o BigEndian(n, 2)
        ELSE <<Tag(name, 4)>> \o BigEndian(n, 4)

\* Faulty variant: the data is moved as for a 16-bit length.
PopShifted ==
    LET frame == Last(enc.stack)
        buffer == enc.buffer
    IN  [enc EXCEPT !.stack = Front(@),
           !.buffer = SubSeq(buffer, 1, frame.start) \o FrameHead(frame)
                      \o SubSeq(buffer, frame.start + 4, Len(buffer))]

\* vl_MsgPackEncodePop: the contents move down over that room.
Pop ==
    LET frame == Last(enc.stack)
        buffer == enc.buffer
    IN  [enc EXCEPT !.stack = Front(@),
           !.buffer = SubSeq(buffer, 1, frame.start) \o FrameHead(frame)
                      \o SubSeq(buffer, frame.start + 6, Len(buffer))]

Fails(error) == enc' = [enc EXCEPT !.error = error] /\ UNCHANGED <<written, unbalanced>>

EncodeToken(t) ==
    /\ Len(written) < MaxTokens
    /\ enc' = [enc EXCEPT !.stack = Increment(@), !.buffer = @ \o EncodeScalar(t)]
    /\ written' = Append(written, t) /\ UNCHANGED unbalanced

Begin(isArray) ==
    /\ Len(written) < MaxTokens /\ Len(enc.stack) < MaxDepth
    /\ enc' = Push(isArray)
    /\ written' = Append(written, Token(IF isArray THEN "array" ELSE "map", -1))
    /\ UNCHANGED unbalanced
MapBegin == Begin(FALSE)
ArrayBegin == Begin(TRUE)

\* The container closed is the last one open, and what it holds are the
\* tokens behind it that are in no container of their own.
Open == CHOOSE i \in 1..Len(written) :
          written[i].n = -1 /\ \A j \in (i + 1)..Len(written) : written[j].n # -1
RECURSIVE ItemsFrom(_)
RECURSIVE Past(_)
Past(i) ==
    LET t == written[i]
        skip[n \in Nat] == IF n = 0 THEN i + 1 ELSE Past(skip[n - 1])
    IN  IF t.kind \notin {"array", "map"} THEN i + 1
        ELSE skip[IF t.kind = "map" THEN 2 * t.n ELSE t.n]
ItemsFrom(i) == IF i > Len(written) THEN 0 ELSE 1 + ItemsFrom(Past(i))
Close(array) ==
    LET items == ItemsFrom(Open + 1)
        isMap == written[Open].kind = "map"
    IN  /\ ~unbalanced     \* bound of the model: nothing is closed behind such a map
        /\ enc' = Pop
        /\ written' = [written EXCEPT ![Open].n = IF isMap THEN items \div 2 ELSE items]
        /\ unbalanced' = (unbalanced \/ (array /\ isMap /\ items % 2 = 1))

MapEnd ==
    IF enc.stack = << >> THEN Fails("underflow")
    ELSE IF Last(enc.stack).total % 2 = 1 THEN Fails("unbalanced")
    ELSE Close(FALSE)
ArrayEnd == IF enc.stack = << >> THEN Fails("underflow") ELSE Close(TRUE)

EncoderClear ==
    /\ enc' = [enc EXCEPT !.buffer = << >>, !.stack = << >>, !.error = "none"]
    /\ written' = << >> /\ unbalanced' = FALSE

CodecNext ==
    \/ \E t \in Scalars : EncodeToken(t)
    \/ MapBegin \/ ArrayBegin
    \/ MapEnd \/ ArrayEnd
    \/ EncoderClear

----------------------------------------------------------------------------
(* The decoder.  A result is the token, if any, and where to go on. *)

Eof(at) == [ok |-> FALSE, token |-> Token("nil", 0), at |-> at]
Got(kind, n, at) == [ok |-> TRUE, token |-> Token(kind, n), at |-> at]
Bytes(src, at, k) == Number(SubSeq(src, at + 1, at + k))

\* A length of k bytes and as much data: binary and string.
DecodeBlock(kind, src, at, k) ==
    LET n == Bytes(src, at, k)
    IN  IF at + k > Len(src) THEN Eof(at)
        ELSE IF at + k + n > Len(src) THEN Eof(at + k)
        ELSE Got(kind, n, at + k + n)
DecodeBinary(src, at, k) == DecodeBlock("binary", src, at, k)
DecodeString(src, at, k) == DecodeBlock("string", src, at, k)

\* The length of an extension is a signed variable, except for 8 bits.
DecodeExt(src, at, k) ==
    LET n == IF k = 1 THEN Bytes(src, at, k) ELSE Signed(Bytes(src, at, k), k)
    IN  IF at + k > Len(src) THEN Eof(at)
        ELSE IF at + k + n + 1 > Len(src) THEN Eof(at + k)
        ELSE Got("ext", n % Radix^4, at + k + 1 + (n % Radix^4))
DecodeFixExt(src, at, n) ==
    IF at + n + 1 > Len(src) THEN Eof(at) ELSE Got("ext", n, at + n + 1)

DecodeFloat(kind, src, at, k) == IF at + k > Len(src) THEN Eof(at) ELSE Got(kind, 0, at + k)
DecodeUInt(src, at, k) ==
    IF at + k > Len(src) THEN Eof(at) ELSE Got("uint", Bytes(src, at, k), at + k)
DecodeInt(src, at, k) ==
    IF at + k > Len(src) THEN Eof(at) ELSE Got("int", Signed(Bytes(src, at, k), k), at + k)
DecodeArray(src, at, k) ==
    IF at + k > Len(src) THEN Eof(at) ELSE Got("array", Bytes(src, at, k), at + k)
DecodeMap(src, at, k) ==
    IF at + k > Len(src) THEN Eof(at) ELSE Got("map", Bytes(src, at, k), at + k)

\* Tags that hold their number.
DecodeFixed(src, at, name, n) ==
    CASE name \in {"posfix", "negfix"} -> Got("int", n, at)
      [] name = "fixmap" -> Got("map", n, at)
      [] name = "fixarray" -> Got("array", n, at)
      [] name = "fixstr" -> IF at + n > Len(src) THEN Eof(at) ELSE Got("string", n, at + n)
      [] OTHER -> Got("stale", 0, at)    \* no tag: VL_TRUE, and the token is left as it was

\* vlMsgPackIODecoderNext
DecoderNext(src, at) ==
    IF at + 1 > Len(src) THEN Eof(at)
    ELSE LET name == src[at + 1][1]
             k == src[at + 1][2]
         IN  CASE name = "nil" -> Got("nil", 0, at + 1)
               [] name \in {"true", "false"} -> Got("bool", IF name = "true" THEN 1 ELSE 0, at + 1)
               [] name = "bin" -> DecodeBinary(src, at + 1, k)
               [] name = "str" -> DecodeString(src, at + 1, k)
               [] name = "ext" -> DecodeExt(src, at + 1, k)
               [] name = "fixext" -> DecodeFixExt(src, at + 1, k)
               [] name = "float32" -> DecodeFloat(name, src, at + 1, 4)
               [] name = "float64" -> DecodeFloat(name, src, at + 1, 8)
               [] name = "uint" -> DecodeUInt(src, at + 1, k)
               [] name = "int" -> DecodeInt(src, at + 1, k)
               [] name = "array" -> DecodeArray(src, at + 1, k)
               [] name = "map" -> DecodeMap(src, at + 1, k)
               [] OTHER -> DecodeFixed(src, at + 1, name, k)

RECURSIVE DecodeFrom(_, _)
DecodeFrom(src, at) ==
    LET r == DecoderNext(src, at)
    IN  IF r.ok THEN <<r.token>> \o DecodeFrom(src, r.at) ELSE << >>

----------------------------------------------------------------------------

\* What was written and closed is what the decoder reads, with every length
\* patched in, whatever the nesting; of a message that was cut off anywhere the
\* decoder gives the tokens that are complete, and none more.  Left out are short
\* extensions that the encoder pads (vl_msgpack_io.c:379) and lengths of two bytes
\* with the top bit set, which the decoder reads as negative (:732).
CodecSound ==
    enc.stack = << >> /\ ~unbalanced =>
      /\ DecodeFrom(enc.buffer, 0) = written
      /\ \A cut \in 0..Len(enc.buffer) :
           IsPrefix(DecodeFrom(SubSeq(enc.buffer, 1, cut), 0), written)

\* Every scalar comes back as it was, at every width.  Left out are extensions of two
\* kinds: short ones, which the encoder pads to the next fixed length
\* (vl_msgpack_io.c:379), so that the decoder finds a longer one, and those whose
\* 16-bit length has the top bit, which the decoder reads as negative (:732).
ScalarsSound ==
    \A t \in Scalars :
      (t.kind = "ext" => t.n \in FixExts \/ (t.n > MaxFixExt /\ t.n < Half(2)))
        => DecoderNext(EncodeScalar(t), 0) = Got(t.kind, t.n, Len(EncodeScalar(t)))

============================================================================
